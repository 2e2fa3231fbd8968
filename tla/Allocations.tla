------------------------------ MODULE Allocations ------------------------------
(***************************************************************************)
(* Addresses and VM ids of clusters: what the settings allow, what is in   *)
(* use, what is suggested and what a saved configuration may hold          *)
(* (app/allocations.py, app/schemas.py).  IPv4 addresses and VM ids are    *)
(* numbers, networks and pools are ranges of numbers.                      *)
(***************************************************************************)
EXTENDS Integers, FiniteSets

CONSTANTS
  None,         (* no row, no value                                          *)
  Defaults      (* DEFAULT_PREFERENCES                                       *)

Roles == {"lb", "cp", "worker"}

Span(r) == r.first .. r.last
Overlap(r, s) == Span(r) \intersect Span(s) # {}
Ends(r) == {r.first, r.last}
Block(start, n) == start .. start + n - 1

(* The nodes of a configuration have consecutive addresses and ids.          *)
Addresses(config) == UNION {Block(config.ip[r], config.count[r]) : r \in Roles}
VmIds(config) == UNION {Block(config.id[r], config.count[r]) : r \in Roles}
Requested(config) == Addresses(config) \union {config.vip}

(* What the settings consist of.                                             *)
Spans == [first : Int, last : Int]

IsPreferences(p) ==
  /\ p.network \in Spans /\ p.gateway \in Int
  /\ p.ips \in [Roles \union {"vip"} -> Spans] /\ p.ids \in [Roles -> Spans]
  /\ p.count \in [Roles -> Nat]

ASSUME SuggestionAssumption ==
  /\ IsPreferences(Defaults)
  /\ None \notin [vip : Int, ip : [Roles -> Int], id : [Roles -> Int], count : [Roles -> Nat]]

Nodes(config) == config.count["lb"] + config.count["cp"] + config.count["worker"]

(* The rules of ClusterConfig.validate_cluster about addresses and numbers.  *)
ValidCluster(config) ==
  /\ Cardinality(Addresses(config)) = Nodes(config)
  /\ Cardinality(VmIds(config)) = Nodes(config)
  /\ \A a \in Requested(config) \union {config.gateway} :
       a \in Span(config.network) /\ a \notin Ends(config.network)
  /\ config.vip \notin Addresses(config)
  /\ config.gateway \notin Requested(config)
  /\ config.templates \intersect VmIds(config) = {}
  /\ \A i \in VmIds(config) : i >= 100
  /\ config.count["lb"] \in 2 .. 10
  /\ config.count["cp"] \in {3, 5, 7}
  /\ config.count["worker"] >= 1

-----------------------------------------------------------------------------
(* The settings.                                                             *)

(* Seeded fault: pools may overlap.                                          *)
ValidPoolsAlone(p) ==
  /\ p.gateway \in Span(p.network) \ Ends(p.network)
  /\ \A k \in Roles \union {"vip"} : Span(p.ips[k]) # {} /\ Span(p.ips[k]) \subseteq Span(p.network)
  /\ \A k \in Roles : Span(p.ids[k]) # {}

ValidPreferences(p) ==
  /\ p.gateway \in Span(p.network) \ Ends(p.network)
  /\ ~Overlap(p.network, p.pods) /\ ~Overlap(p.network, p.services) /\ ~Overlap(p.pods, p.services)
  /\ \A k \in Roles \union {"vip"} :
       /\ p.ips[k].first <= p.ips[k].last
       /\ Ends(p.ips[k]) \subseteq Span(p.network) \ Ends(p.network)
       /\ p.gateway \notin Span(p.ips[k])
       /\ \A l \in (Roles \union {"vip"}) \ {k} : ~Overlap(p.ips[k], p.ips[l])
  /\ \A k \in Roles :
       /\ p.ids[k].first >= 100 /\ p.ids[k].first <= p.ids[k].last
       /\ \A l \in Roles \ {k} : ~Overlap(p.ids[k], p.ids[l])
       /\ p.count[k] <= Cardinality(Span(p.ips[k])) /\ p.count[k] <= Cardinality(Span(p.ids[k]))
  /\ p.count["cp"] \in {3, 5, 7} /\ p.count["lb"] \in 2 .. 10 /\ p.count["worker"] >= 1

Effective(preference) == IF preference = None THEN Defaults ELSE preference

(* network.hosts() leaves out the two ends of a network, unless it has only  *)
(* one or two addresses.                                                     *)
Hosts(r) == IF r.last - r.first <= 1 THEN Span(r) ELSE Span(r) \ Ends(r)

ParseReserved(p) == UNION {Hosts(r) : r \in p.reserved}

-----------------------------------------------------------------------------
(* What is in use.                                                           *)

(* rows: the cluster rows, None where there is none.                         *)
Active(rows) == {c \in DOMAIN rows : rows[c] # None /\ ~rows[c].destroyed}

(* Seeded fault: only the nodes count as used.                               *)
NodesInUse(rows, exclude) == UNION {Addresses(rows[c].config) : c \in Active(rows) \ {exclude}}

UsedIps(rows, exclude) == UNION {Requested(rows[c].config) : c \in Active(rows) \ {exclude}}
UsedIds(rows, exclude) == UNION {VmIds(rows[c].config) : c \in Active(rows) \ {exclude}}

(* Seeded fault: addresses reserved later take those of the cluster too.     *)
ConflictsWithReserved(rows, preference, c, own, config) ==
  \/ Requested(config) \intersect (UsedIps(rows, c) \union ParseReserved(Effective(preference))) # {}
  \/ VmIds(config) \intersect UsedIds(rows, c) # {}

(* A configuration for cluster c is refused (validate_cluster_allocations);  *)
(* own: what the session knows as its present configuration.                 *)
Conflicts(rows, preference, c, own, config) ==
  LET reserved == ParseReserved(Effective(preference))
                    \ (IF own = None THEN {} ELSE Requested(own))
  IN \/ Requested(config) \intersect (UsedIps(rows, c) \union reserved) # {}
     \/ VmIds(config) \intersect UsedIds(rows, c) # {}

-----------------------------------------------------------------------------
(* What is suggested.                                                        *)

(* Seeded fault: only the first of a block must be free.                     *)
FreeFirst(pool, n, used) ==
  {s \in pool.first .. pool.last - n + 1 : s \notin used}

Free(pool, n, used) ==
  {s \in pool.first .. pool.last - n + 1 : Block(s, n) \intersect used = {}}

FirstBlock(pool, n, used) ==
  LET free == Free(pool, n, used) IN CHOOSE s \in free : \A t \in free : s <= t

(* The blocks are taken one role after the other, each out of what the       *)
(* earlier ones have left; None when a pool has no free block.               *)
Suggestion(rows, preference, count, exclude, others) ==
  LET p == Effective(preference)
      ips0 == UsedIps(rows, exclude) \union ParseReserved(p) \union Ends(p.network) \union {p.gateway}
      ids0 == UsedIds(rows, exclude) \union others
      vip == FirstBlock(p.ips["vip"], 1, ips0)
      lbIp == FirstBlock(p.ips["lb"], count["lb"], ips0 \union {vip})
      lbId == FirstBlock(p.ids["lb"], count["lb"], ids0)
      ips1 == ips0 \union {vip} \union Block(lbIp, count["lb"])
      ids1 == ids0 \union Block(lbId, count["lb"])
      cpIp == FirstBlock(p.ips["cp"], count["cp"], ips1)
      cpId == FirstBlock(p.ids["cp"], count["cp"], ids1)
      ips2 == ips1 \union Block(cpIp, count["cp"])
      ids2 == ids1 \union Block(cpId, count["cp"])
  IN IF \/ Free(p.ips["vip"], 1, ips0) = {}
        \/ Free(p.ips["lb"], count["lb"], ips0 \union {vip}) = {}
        \/ Free(p.ids["lb"], count["lb"], ids0) = {}
        \/ Free(p.ips["cp"], count["cp"], ips1) = {} \/ Free(p.ids["cp"], count["cp"], ids1) = {}
        \/ Free(p.ips["worker"], count["worker"], ips2) = {}
        \/ Free(p.ids["worker"], count["worker"], ids2) = {}
     THEN None
     ELSE [vip |-> vip,
           ip |-> [r \in Roles |-> CASE r = "lb" -> lbIp [] r = "cp" -> cpIp
                     [] r = "worker" -> FirstBlock(p.ips["worker"], count["worker"], ips2)],
           id |-> [r \in Roles |-> CASE r = "lb" -> lbId [] r = "cp" -> cpId
                     [] r = "worker" -> FirstBlock(p.ids["worker"], count["worker"], ids2)],
           count |-> count]
=============================================================================
