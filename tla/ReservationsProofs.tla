--------------------------- MODULE ReservationsProofs ---------------------------
(***************************************************************************)
(* What is proved of Reservations, for any number of clusters, requests    *)
(* and forms: its types and its safety properties.  First those that hold  *)
(* of what is saved and built, from an inductive invariant; then what a    *)
(* suggestion is worth, which is arithmetic on the pools of the settings.  *)
(***************************************************************************)
EXTENDS Reservations, FiniteSetTheorems, TLAPS

-----------------------------------------------------------------------------
(* What a suggestion is worth.  The pools of valid preferences do not        *)
(* overlap, so that blocks out of different pools are disjoint.              *)

(* A nonempty set of numbers within bounds has a least one: otherwise the    *)
(* numbers above its elements could be shifted down by one, into one number  *)
(* less.                                                                     *)
LEMMA LeastExists ==
  ASSUME NEW a \in Int, NEW b \in Int, NEW V \in SUBSET (a .. b), V # {}
  PROVE  \E v \in V : \A w \in V : v <= w
<1> SUFFICES ASSUME \A v \in V : \E w \in V : w < v PROVE FALSE
  OBVIOUS
<1> DEFINE U == {k \in a .. b : \E v \in V : v <= k}
           f == [k \in U |-> k - 1]
<1>1. b \in U
  <2>1. PICK v \in V : TRUE
    OBVIOUS
  <2>2. v \in a .. b
    OBVIOUS
  <2> QED BY <2>1, <2>2
<1>2. \A k \in U : k - 1 \in U \ {b}
  <2> TAKE k \in U
  <2>1. PICK v \in V : v <= k
    OBVIOUS
  <2>2. PICK w \in V : w < v
    OBVIOUS
  <2>3. v \in a .. b /\ w \in a .. b /\ k \in a .. b
    OBVIOUS
  <2> QED BY <2>1, <2>2, <2>3
<1>3. f \in [U -> U \ {b}]
  BY <1>2
<1>4. IsFiniteSet(U)
  <2>1. IsFiniteSet(a .. b)
    BY FS_Interval
  <2>2. U \in SUBSET (a .. b)
    OBVIOUS
  <2> QED BY <2>1, <2>2, FS_Subset
<1>5. IsFiniteSet(U \ {b}) /\ Cardinality(U \ {b}) = Cardinality(U) - 1 /\ Cardinality(U) \in Nat
  BY <1>1, <1>4, FS_RemoveElement, FS_CardinalityType
<1>6. \E x, y \in U : x # y /\ f[x] = f[y]
  <2> HIDE DEF U, f
  <2>1. Cardinality(U \ {b}) < Cardinality(U)
    BY <1>5
  <2> QED BY <1>3, <1>4, <1>5, <2>1, FS_PigeonHole
<1> QED BY <1>6

(* A block that is chosen is free, if any is.                                *)
LEMMA FirstBlockIsFree ==
  ASSUME NEW pool \in Spans, NEW n \in Nat, NEW used, Free(pool, n, used) # {}
  PROVE  FirstBlock(pool, n, used) \in Free(pool, n, used) /\ FirstBlock(pool, n, used) \in Int
<1> DEFINE free == Free(pool, n, used)
<1>1. free \in SUBSET (pool.first .. pool.last - n + 1) /\ pool.first \in Int /\ pool.last - n + 1 \in Int
  BY DEF Free, Spans
<1>2. \E s \in free : \A t \in free : s <= t
  BY <1>1, LeastExists
<1>3. FirstBlock(pool, n, used) \in free
  <2> HIDE DEF free
  <2>1. FirstBlock(pool, n, used) = CHOOSE s \in free : \A t \in free : s <= t
    BY DEF FirstBlock, free
  <2> QED BY <1>2, <2>1
<1> QED BY <1>1, <1>3

(* What is free of more is free of less.                                     *)
LEMMA FreeOfLess ==
  ASSUME NEW pool, NEW n, NEW more, NEW less, less \subseteq more
  PROVE  Free(pool, n, more) \subseteq Free(pool, n, less)
BY DEF Free

(* All that is taken when the first block is looked for.                     *)
TakenIps(rows, p, exclude) ==
  UsedIps(rows, exclude) \union ParseReserved(p) \union Ends(p.network) \union {p.gateway}

SuggestedShapes == [vip : Int, ip : [Roles -> Int], id : [Roles -> Int], count : [Roles -> Nat]]

(* Every block of a suggestion is free in its pool.                          *)
LEMMA SuggestedBlocks ==
  ASSUME NEW preference_, NEW p, p = Effective(preference_), IsPreferences(p),
         NEW count \in [Roles -> Nat],
         NEW rows, NEW exclude, NEW others,
         NEW s, s = Suggestion(rows, preference_, count, exclude, others), s # None
  PROVE  /\ s \in SuggestedShapes /\ s.count = count
         /\ s.vip \in Free(p.ips["vip"], 1, TakenIps(rows, p, exclude))
         /\ \A k \in Roles : s.ip[k] \in Free(p.ips[k], count[k], TakenIps(rows, p, exclude))
         /\ \A k \in Roles : s.id[k] \in Free(p.ids[k], count[k], UsedIds(rows, exclude) \union others)
<1> DEFINE ips0 == UsedIps(rows, exclude) \union ParseReserved(p) \union Ends(p.network) \union {p.gateway}
           ids0 == UsedIds(rows, exclude) \union others
           vip == FirstBlock(p.ips["vip"], 1, ips0)
           ipsV == ips0 \union {vip}
           lbIp == FirstBlock(p.ips["lb"], count["lb"], ipsV)
           lbId == FirstBlock(p.ids["lb"], count["lb"], ids0)
           ips1 == ips0 \union {vip} \union Block(lbIp, count["lb"])
           ids1 == ids0 \union Block(lbId, count["lb"])
           cpIp == FirstBlock(p.ips["cp"], count["cp"], ips1)
           cpId == FirstBlock(p.ids["cp"], count["cp"], ids1)
           ips2 == ips1 \union Block(cpIp, count["cp"])
           ids2 == ids1 \union Block(cpId, count["cp"])
           workerIp == FirstBlock(p.ips["worker"], count["worker"], ips2)
           workerId == FirstBlock(p.ids["worker"], count["worker"], ids2)
           full == \/ Free(p.ips["vip"], 1, ips0) = {}
                   \/ Free(p.ips["lb"], count["lb"], ipsV) = {}
                   \/ Free(p.ids["lb"], count["lb"], ids0) = {}
                   \/ Free(p.ips["cp"], count["cp"], ips1) = {} \/ Free(p.ids["cp"], count["cp"], ids1) = {}
                   \/ Free(p.ips["worker"], count["worker"], ips2) = {}
                   \/ Free(p.ids["worker"], count["worker"], ids2) = {}
           ip == [r \in Roles |-> CASE r = "lb" -> lbIp [] r = "cp" -> cpIp [] r = "worker" -> workerIp]
           id == [r \in Roles |-> CASE r = "lb" -> lbId [] r = "cp" -> cpId [] r = "worker" -> workerId]
<1>1. s = IF full THEN None ELSE [vip |-> vip, ip |-> ip, id |-> id, count |-> count]
  BY DEF Suggestion
<1>2. /\ ips0 = TakenIps(rows, p, exclude)
      /\ ips0 \subseteq ipsV /\ ips0 \subseteq ips1 /\ ips0 \subseteq ips2
      /\ ids0 \subseteq ids1 /\ ids0 \subseteq ids2
  BY DEF TakenIps
<1>3. /\ p.ips["vip"] \in Spans /\ 1 \in Nat
      /\ \A k \in Roles : p.ips[k] \in Spans /\ p.ids[k] \in Spans /\ count[k] \in Nat
      /\ count \in [Roles -> Nat]
      /\ "lb" \in Roles /\ "cp" \in Roles /\ "worker" \in Roles
  BY DEF IsPreferences, Roles
<1> HIDE DEF ips0, ipsV, ids0, ips1, ids1, ips2, ids2
<1>5. vip \in Free(p.ips["vip"], 1, ips0) /\ vip \in Int
  <2>1. Free(p.ips["vip"], 1, ips0) # {}
    BY <1>1
  <2> QED BY <1>3, <2>1, FirstBlockIsFree
<1>6. lbIp \in Free(p.ips["lb"], count["lb"], ips0) /\ lbIp \in Int
  <2>1. Free(p.ips["lb"], count["lb"], ipsV) # {}
    BY <1>1
  <2> QED BY <1>2, <1>3, <2>1, FirstBlockIsFree, FreeOfLess
<1>7. lbId \in Free(p.ids["lb"], count["lb"], ids0) /\ lbId \in Int
  <2>1. Free(p.ids["lb"], count["lb"], ids0) # {}
    BY <1>1
  <2> QED BY <1>3, <2>1, FirstBlockIsFree
<1>8. cpIp \in Free(p.ips["cp"], count["cp"], ips0) /\ cpIp \in Int
  <2>1. Free(p.ips["cp"], count["cp"], ips1) # {}
    BY <1>1
  <2> QED BY <1>2, <1>3, <2>1, FirstBlockIsFree, FreeOfLess
<1>9. cpId \in Free(p.ids["cp"], count["cp"], ids0) /\ cpId \in Int
  <2>1. Free(p.ids["cp"], count["cp"], ids1) # {}
    BY <1>1
  <2> QED BY <1>2, <1>3, <2>1, FirstBlockIsFree, FreeOfLess
<1>10. workerIp \in Free(p.ips["worker"], count["worker"], ips0) /\ workerIp \in Int
  <2>1. Free(p.ips["worker"], count["worker"], ips2) # {}
    BY <1>1
  <2> QED BY <1>2, <1>3, <2>1, FirstBlockIsFree, FreeOfLess
<1>11. workerId \in Free(p.ids["worker"], count["worker"], ids0) /\ workerId \in Int
  <2>1. Free(p.ids["worker"], count["worker"], ids2) # {}
    BY <1>1
  <2> QED BY <1>2, <1>3, <2>1, FirstBlockIsFree, FreeOfLess
<1> HIDE DEF vip, lbIp, lbId, cpIp, cpId, workerIp, workerId
<1>12. /\ ip \in [Roles -> Int] /\ ip["lb"] = lbIp /\ ip["cp"] = cpIp /\ ip["worker"] = workerIp
       /\ id \in [Roles -> Int] /\ id["lb"] = lbId /\ id["cp"] = cpId /\ id["worker"] = workerId
  BY <1>6, <1>7, <1>8, <1>9, <1>10, <1>11 DEF Roles
<1> HIDE DEF ip, id
<1>13. s = [vip |-> vip, ip |-> ip, id |-> id, count |-> count]
  BY <1>1
<1>14. /\ s \in SuggestedShapes /\ s.count = count
       /\ s.vip = vip /\ s.ip = ip /\ s.id = id
  BY <1>3, <1>5, <1>12, <1>13 DEF SuggestedShapes
<1> QED
  <2>1. \A k \in Roles : s.ip[k] \in Free(p.ips[k], count[k], ips0)
    BY <1>6, <1>8, <1>10, <1>12, <1>14 DEF Roles
  <2>2. \A k \in Roles : s.id[k] \in Free(p.ids[k], count[k], ids0)
    BY <1>7, <1>9, <1>11, <1>12, <1>14 DEF Roles
  <2> QED BY <1>2, <1>5, <1>14, <2>1, <2>2 DEF ids0

(* A block that is free in a pool.                                           *)
LEMMA FreeBlock ==
  ASSUME NEW pool \in Spans, NEW n \in Nat, NEW used, NEW s \in Free(pool, n, used)
  PROVE  /\ Block(s, n) \subseteq Span(pool) /\ Block(s, n) \intersect used = {}
         /\ IsFiniteSet(Block(s, n)) /\ Cardinality(Block(s, n)) = n
<1>1. /\ s \in Int /\ pool.first \in Int /\ pool.last \in Int
      /\ pool.first <= s /\ s <= pool.last - n + 1 /\ Block(s, n) \intersect used = {}
  BY DEF Free, Spans
<1>2. Block(s, n) \subseteq Span(pool)
  BY <1>1 DEF Block, Span
<1>3. Block(s, n) = s .. (s + n - 1) /\ s + n - 1 \in Int
  BY <1>1 DEF Block
<1>4. IsFiniteSet(Block(s, n)) /\ Cardinality(Block(s, n)) = IF s > s + n - 1 THEN 0 ELSE s + n - 1 - s + 1
  BY <1>1, <1>3, FS_Interval
<1> QED BY <1>1, <1>2, <1>4

(* The blocks of the three roles, if they are disjoint, have as many members *)
(* as there are nodes.                                                       *)
DisjointBlocks(start, count) ==
  /\ \A k \in Roles : /\ IsFiniteSet(Block(start[k], count[k]))
                      /\ Cardinality(Block(start[k], count[k])) = count[k]
  /\ \A k, l \in Roles : k # l => Block(start[k], count[k]) \intersect Block(start[l], count[l]) = {}

LEMMA ThreeBlocks ==
  ASSUME NEW start, NEW count \in [Roles -> Nat], DisjointBlocks(start, count)
  PROVE  Cardinality(UNION {Block(start[r], count[r]) : r \in Roles})
           = count["lb"] + count["cp"] + count["worker"]
<1> DEFINE lb == Block(start["lb"], count["lb"])
           cp == Block(start["cp"], count["cp"])
           worker == Block(start["worker"], count["worker"])
<1>1. UNION {Block(start[r], count[r]) : r \in Roles} = lb \union cp \union worker
  BY DEF Roles
<1>2. /\ IsFiniteSet(lb) /\ IsFiniteSet(cp) /\ IsFiniteSet(worker)
      /\ Cardinality(lb) = count["lb"] /\ Cardinality(cp) = count["cp"]
      /\ Cardinality(worker) = count["worker"]
      /\ lb \intersect cp = {} /\ (lb \union cp) \intersect worker = {}
      /\ count["lb"] \in Nat /\ count["cp"] \in Nat /\ count["worker"] \in Nat
  BY DEF DisjointBlocks, Roles
<1> HIDE DEF lb, cp, worker
<1>3. IsFiniteSet(lb \union cp) /\ Cardinality(lb \union cp) = count["lb"] + count["cp"]
  <2>1. Cardinality(lb \intersect cp) = 0
    BY <1>2, FS_EmptySet
  <2>2. /\ IsFiniteSet(lb \union cp)
        /\ Cardinality(lb \union cp) = Cardinality(lb) + Cardinality(cp) - Cardinality(lb \intersect cp)
    BY <1>2, FS_Union
  <2>3. Cardinality(lb \union cp) = count["lb"] + count["cp"] - 0
    BY <1>2, <2>1, <2>2
  <2> QED BY <1>2, <2>2, <2>3
<1>4. Cardinality(lb \union cp \union worker) = count["lb"] + count["cp"] + count["worker"]
  <2>1. Cardinality((lb \union cp) \intersect worker) = 0
    BY <1>2, FS_EmptySet
  <2>2. Cardinality((lb \union cp) \union worker) =
          Cardinality(lb \union cp) + Cardinality(worker) - Cardinality((lb \union cp) \intersect worker)
    BY <1>2, <1>3, FS_Union
  <2>3. Cardinality((lb \union cp) \union worker) = (count["lb"] + count["cp"]) + count["worker"] - 0
    BY <1>2, <1>3, <2>1, <2>2
  <2> QED BY <1>2, <2>3
<1> QED BY <1>1, <1>4

(* What the validation of the settings gives: pools inside of the network,   *)
(* apart from each other and from the gateway.                               *)
LEMMA PoolsOf ==
  ASSUME NEW p, IsPreferences(p), ValidPreferences(p)
  PROVE  /\ \A k \in Roles \union {"vip"} : \A a \in Span(p.ips[k]) :
              a \in Int /\ a \in Span(p.network) /\ a \notin Ends(p.network) /\ a # p.gateway
         /\ \A k, l \in Roles \union {"vip"} : k # l => Span(p.ips[k]) \intersect Span(p.ips[l]) = {}
         /\ \A k \in Roles : \A i \in Span(p.ids[k]) : i \in Int /\ i >= 100
         /\ \A k, l \in Roles : k # l => Span(p.ids[k]) \intersect Span(p.ids[l]) = {}
<1>1. \A k \in Roles \union {"vip"} : p.ips[k] \in Spans
  BY DEF IsPreferences
<1>2. p.network \in Spans /\ p.gateway \in Int /\ \A k \in Roles : p.ids[k] \in Spans
  BY DEF IsPreferences
<1>3. ASSUME NEW k \in Roles \union {"vip"}, NEW a \in Span(p.ips[k])
      PROVE a \in Int /\ a \in Span(p.network) /\ a \notin Ends(p.network) /\ a # p.gateway
  <2>1. /\ Ends(p.ips[k]) \subseteq Span(p.network) \ Ends(p.network)
        /\ p.gateway \notin Span(p.ips[k])
    BY DEF ValidPreferences
  <2>2. /\ p.ips[k].first \in Int /\ p.ips[k].last \in Int /\ p.network.first \in Int /\ p.network.last \in Int
        /\ a \in Int /\ p.ips[k].first <= a /\ a <= p.ips[k].last
    BY <1>1, <1>2 DEF Spans, Span
  <2>3. /\ p.ips[k].first \in p.network.first .. p.network.last /\ p.ips[k].first # p.network.first
        /\ p.ips[k].last \in p.network.first .. p.network.last /\ p.ips[k].last # p.network.last
    BY <2>1 DEF Ends, Span
  <2>4. a \in p.network.first .. p.network.last /\ a # p.network.first /\ a # p.network.last
    BY <2>2, <2>3
  <2> QED BY <2>1, <2>2, <2>4 DEF Ends, Span
<1>4. \A k, l \in Roles \union {"vip"} : k # l => Span(p.ips[k]) \intersect Span(p.ips[l]) = {}
  BY DEF ValidPreferences, Overlap
<1>5. ASSUME NEW k \in Roles, NEW i \in Span(p.ids[k]) PROVE i \in Int /\ i >= 100
  <2>1. p.ids[k].first >= 100 /\ p.ids[k].first \in Int /\ p.ids[k].last \in Int
    BY <1>2 DEF ValidPreferences, Spans
  <2> QED BY <2>1 DEF Span
<1>6. \A k, l \in Roles : k # l => Span(p.ids[k]) \intersect Span(p.ids[l]) = {}
  BY DEF ValidPreferences, Overlap
<1> QED BY <1>3, <1>4, <1>5, <1>6

(* A configuration made of free blocks is free of what was taken; and valid, *)
(* if the rest of it is.                                                     *)
LEMMA FreeBlocksAreValid ==
  ASSUME NEW p, IsPreferences(p), ValidPreferences(p), NEW ips, NEW ids, NEW config,
         config.count \in [Roles -> Nat], config.vip \in Free(p.ips["vip"], 1, ips),
         \A k \in Roles : config.ip[k] \in Free(p.ips[k], config.count[k], ips),
         \A k \in Roles : config.id[k] \in Free(p.ids[k], config.count[k], ids)
  PROVE  /\ Requested(config) \intersect ips = {} /\ VmIds(config) \intersect ids = {}
         /\ /\ config.network = p.network /\ config.gateway = p.gateway
            /\ config.templates \intersect VmIds(config) = {}
            /\ config.count["lb"] \in 2 .. 10 /\ config.count["cp"] \in {3, 5, 7}
            /\ config.count["worker"] >= 1
            => ValidCluster(config)
<1>0. PICK count \in [Roles -> Nat] : count = config.count
  OBVIOUS
<1> DEFINE ipsOf(k) == Block(config.ip[k], count[k])
           idsOf(k) == Block(config.id[k], count[k])
<1>1. /\ \A k \in Roles : p.ips[k] \in Spans /\ p.ids[k] \in Spans /\ count[k] \in Nat
      /\ p.ips["vip"] \in Spans /\ p.gateway \in Int
      /\ p.gateway \in Span(p.network) \ Ends(p.network)
  BY DEF IsPreferences, ValidPreferences
<1>2. \A k \in Roles :
        /\ ipsOf(k) \subseteq Span(p.ips[k]) /\ ipsOf(k) \intersect ips = {}
        /\ IsFiniteSet(ipsOf(k)) /\ Cardinality(ipsOf(k)) = count[k]
  BY <1>0, <1>1, FreeBlock
<1>3. \A k \in Roles :
        /\ idsOf(k) \subseteq Span(p.ids[k]) /\ idsOf(k) \intersect ids = {}
        /\ IsFiniteSet(idsOf(k)) /\ Cardinality(idsOf(k)) = count[k]
  BY <1>0, <1>1, FreeBlock
<1>4. config.vip \in Span(p.ips["vip"]) /\ config.vip \notin ips
  <2>1. Block(config.vip, 1) \subseteq Span(p.ips["vip"]) /\ Block(config.vip, 1) \intersect ips = {}
    BY <1>0, <1>1, FreeBlock
  <2>2. config.vip \in Block(config.vip, 1)
    BY <1>1 DEF Block, Free, Spans
  <2> QED BY <2>1, <2>2
<1>5. Addresses(config) = UNION {ipsOf(k) : k \in Roles} /\ VmIds(config) = UNION {idsOf(k) : k \in Roles}
  BY <1>0 DEF Addresses, VmIds
<1> HIDE DEF ipsOf, idsOf
<1>6. Cardinality(Addresses(config)) = Nodes(config) /\ Cardinality(VmIds(config)) = Nodes(config)
  <2>1. \A k, l \in Roles : k # l => ipsOf(k) \intersect ipsOf(l) = {}
    BY <1>2, PoolsOf
  <2>2. \A k, l \in Roles : k # l => idsOf(k) \intersect idsOf(l) = {}
    BY <1>3, PoolsOf
  <2>3. Cardinality(UNION {Block(config.ip[k], count[k]) : k \in Roles})
          = count["lb"] + count["cp"] + count["worker"]
    <3>1. PICK start : start = config.ip
      OBVIOUS
    <3>2. \A k \in Roles : ipsOf(k) = Block(start[k], count[k])
      BY <3>1 DEF ipsOf
    <3>3. Cardinality(UNION {Block(start[k], count[k]) : k \in Roles})
            = count["lb"] + count["cp"] + count["worker"]
      <4>1. DisjointBlocks(start, count)
        BY <1>2, <2>1, <3>2 DEF DisjointBlocks
      <4>2. count \in [Roles -> Nat]
        OBVIOUS
      <4> QED BY <4>1, <4>2, ThreeBlocks
    <3> QED BY <3>1, <3>3
  <2>4. Cardinality(UNION {Block(config.id[k], count[k]) : k \in Roles})
          = count["lb"] + count["cp"] + count["worker"]
    <3>1. PICK start : start = config.id
      OBVIOUS
    <3>2. \A k \in Roles : idsOf(k) = Block(start[k], count[k])
      BY <3>1 DEF idsOf
    <3>3. Cardinality(UNION {Block(start[k], count[k]) : k \in Roles})
            = count["lb"] + count["cp"] + count["worker"]
      <4>1. DisjointBlocks(start, count)
        BY <1>3, <2>2, <3>2 DEF DisjointBlocks
      <4>2. count \in [Roles -> Nat]
        OBVIOUS
      <4> QED BY <4>1, <4>2, ThreeBlocks
    <3> QED BY <3>1, <3>3
  <2> QED BY <1>0, <1>5, <2>3, <2>4 DEF Nodes, ipsOf, idsOf
<1>7. \A a \in Requested(config) :
        a \in Span(p.network) /\ a \notin Ends(p.network) /\ a # p.gateway /\ a \notin ips
  <2>1. ASSUME NEW a \in Requested(config)
        PROVE /\ \E k \in Roles \union {"vip"} : a \in Span(p.ips[k])
              /\ a \notin ips
    BY <1>2, <1>4, <1>5 DEF Requested
  <2> QED BY <2>1, PoolsOf
<1>8. config.vip \notin Addresses(config)
  <2>1. \A k \in Roles : Span(p.ips[k]) \intersect Span(p.ips["vip"]) = {}
    BY PoolsOf DEF Roles
  <2> QED BY <1>2, <1>4, <1>5, <2>1
<1>9. \A i \in VmIds(config) : i >= 100 /\ i \notin ids
  <2>1. ASSUME NEW i \in VmIds(config) PROVE \E k \in Roles : i \in Span(p.ids[k]) /\ i \notin ids
    BY <1>3, <1>5
  <2> QED BY <2>1, PoolsOf
<1>10. ASSUME config.network = p.network, config.gateway = p.gateway,
              config.templates \intersect VmIds(config) = {},
              count["lb"] \in 2 .. 10 /\ count["cp"] \in {3, 5, 7} /\ count["worker"] >= 1
       PROVE ValidCluster(config)
  <2>1. \A a \in Requested(config) \union {config.gateway} :
          a \in Span(config.network) /\ a \notin Ends(config.network)
    BY <1>1, <1>7, <1>10
  <2>2. config.gateway \notin Requested(config)
    BY <1>7, <1>10
  <2> QED BY <1>0, <1>6, <1>8, <1>9, <1>10, <2>1, <2>2 DEF ValidCluster
<1> QED BY <1>0, <1>7, <1>9, <1>10

-----------------------------------------------------------------------------
(* The inductive invariant.                                                  *)

(* The rows are records, and hold what the validation has let through.       *)
RowsInv ==
  /\ row = [c \in Clusters |-> row[c]]
  /\ \A c \in Existing :
       /\ DOMAIN row[c] = {"config", "destroyed", "planned"}
       /\ row[c].config \in Configurations /\ ValidCluster(row[c].config)

Fields == {"pc", "cluster", "config", "own", "destroyed", "used", "credential"}

(* What a request holds by itself: a credential is deleted only after no     *)
(* cluster was seen to use it.                                               *)
RequestOK(q) ==
  /\ DOMAIN q = Fields
  /\ q.pc \in {"idle", "form", "allocations", "save", "delete"}
  /\ q.cluster \in Clusters \union {None}
  /\ q.credential \in (IF q.pc = "delete" THEN Credentials ELSE {None})
  /\ q.pc \in {"form", "allocations", "save"} => q.config \in Configurations
  /\ q.pc \in {"allocations", "save"} => ValidCluster(q.config)
  /\ q.pc = "delete" => q.used = {}

(* A configuration that has been checked shares nothing with the rows.       *)
Unshared(q, rows, history) ==
  q.pc = "save" => \A d \in Active(rows) \ {q.cluster} :
    <<d, "addresses">> \notin history => ~Share(q.config, rows[d].config)

InLoop(q) == q.pc \in {"allocations", "save"}

(* Only one request is past its form at a time, so that what it has checked  *)
(* is still so when it saves.                                                *)
RequestsInv ==
  /\ req = [r \in Requests |-> req[r]]
  /\ \A r \in Requests : RequestOK(req[r]) /\ Unshared(req[r], row, overtaken)
  /\ \A r, s \in Requests : InLoop(req[r]) /\ InLoop(req[s]) => r = s

(* What the worker has asked Proxmox still holds when it applies.            *)
JobInv ==
  /\ machines = [c \in Clusters |-> machines[c]]
  /\ strays = [c \in Clusters |-> strays[c]]
  /\ Executes("APPLY", "running") => ProxmoxFree(job.cluster, job.config)

ReservationsInv ==
  /\ TypeOK /\ RowsInv /\ RequestsInv /\ JobInv
  /\ MachinesDisjoint /\ SavedDisjoint /\ CredentialsKept

-----------------------------------------------------------------------------
(* The steps of a request before it writes.                                  *)

(* The form of a new cluster is filled with a whole configuration.           *)
LEMMA SuggestedAreConfigurations ==
  ASSUME TypeOK, NEW others
  PROVE  Suggested(None, others) \subseteq Configurations
<1>1. PICK p : p = Effective(preference)
  OBVIOUS
<1>2. IsPreferences(p)
  BY <1>1, SuggestionAssumption, ConstantsAssumption DEF TypeOK, Effective
<1>3. PICK s : s = Suggestion(row, preference, p.count, None, others)
  OBVIOUS
<1> SUFFICES ASSUME NEW config \in Suggested(None, others) PROVE config \in Configurations
  OBVIOUS
<1>4. PICK f, d :
        /\ f \in Forms /\ d = [f EXCEPT !.network = p.network, !.gateway = p.gateway, !.count = p.count]
        /\ s # None /\ config = [d EXCEPT !.vip = s.vip, !.ip = s.ip, !.id = s.id]
  <2>1. PICK d \in Drafts(None) :
          /\ Suggestion(row, preference, d.count, None, others) # None
          /\ config = LET t == Suggestion(row, preference, d.count, None, others)
                      IN [d EXCEPT !.vip = t.vip, !.ip = t.ip, !.id = t.id]
    BY DEF Suggested
  <2>2. PICK f \in Forms : d = [f EXCEPT !.network = p.network, !.gateway = p.gateway, !.count = p.count]
    BY <1>1, <2>1 DEF Drafts
  <2>3. f \in Configurations
    BY ConstantsAssumption
  <2>4. d.count = p.count
    BY <2>2, <2>3 DEF Configurations
  <2> QED BY <1>3, <2>1, <2>2, <2>4
<1>5. s \in SuggestedShapes
  <2>1. p.count \in [Roles -> Nat]
    BY <1>2 DEF IsPreferences
  <2> QED BY <1>1, <1>2, <1>3, <1>4, <2>1, SuggestedBlocks
<1>6. /\ s.vip \in Int /\ s.ip \in [Roles -> Int] /\ s.id \in [Roles -> Int]
      /\ p.network \in Spans /\ p.gateway \in Int /\ p.count \in [Roles -> Nat]
  BY <1>2, <1>5 DEF SuggestedShapes, IsPreferences
<1>7. f \in Configurations
  BY <1>4, ConstantsAssumption
<1> QED BY <1>4, <1>6, <1>7 DEF Configurations

LEMMA RequestsOK ==
  ASSUME ReservationsInv, NEW r \in Requests
  PROVE  RequestOK(req[r]) /\ Unshared(req[r], row, overtaken)
BY DEF ReservationsInv, RequestsInv

LEMMA IdleOK ==
  /\ RequestOK(Idle) /\ ~InLoop(Idle) /\ Idle.pc = "idle"
  /\ DOMAIN Idle = Fields /\ Idle.cluster = None /\ Idle.credential = None
BY DEF Idle, RequestOK, Fields, InLoop

(* The parts of the invariant that a request alone decides.                  *)
LEMMA RequestsKeep ==
  ASSUME ReservationsInv, NEW r \in Requests, NEW q, RequestOK(q), req' = [req EXCEPT ![r] = q],
         InLoop(q) => InLoop(req[r]) \/ LoopFree,
         \A s \in Requests : Unshared(req'[s], row', overtaken')
  PROVE  /\ RequestsInv'
         /\ \A s \in Requests :
              /\ req'[s].pc \in {"idle", "form", "allocations", "save", "delete"}
              /\ req'[s].cluster \in Clusters \union {None}
              /\ req'[s].credential \in (IF req'[s].pc = "delete" THEN Credentials ELSE {None})
<1>1. req' = [s \in Requests |-> req'[s]] /\ \A s \in Requests : req'[s] = IF s = r THEN q ELSE req[s]
  BY DEF ReservationsInv, RequestsInv
<1>2. ASSUME NEW s \in Requests PROVE RequestOK(req'[s])
  <2>1. RequestOK(req[s])
    BY RequestsOK
  <2> QED BY <1>1, <2>1
<1>3. \A s \in Requests :
        /\ req'[s].pc \in {"idle", "form", "allocations", "save", "delete"}
        /\ req'[s].cluster \in Clusters \union {None}
        /\ req'[s].credential \in (IF req'[s].pc = "delete" THEN Credentials ELSE {None})
  BY <1>2 DEF RequestOK
<1>4. ASSUME NEW s \in Requests, NEW t \in Requests, InLoop(req'[s]), InLoop(req'[t]) PROVE s = t
  <2>1. \A x, y \in Requests : InLoop(req[x]) /\ InLoop(req[y]) => x = y
    BY DEF ReservationsInv, RequestsInv
  <2>2. LoopFree => \A x \in Requests : ~InLoop(req[x])
    BY DEF LoopFree, InLoop
  <2> QED BY <1>1, <1>4, <2>1, <2>2
<1> QED BY <1>1, <1>2, <1>3, <1>4 DEF RequestsInv, RequestOK, Unshared, InLoop, ValidCluster, Share

LEMMA MoveKeeps ==
  ASSUME ReservationsInv, NEW r \in Requests, NEW q, RequestOK(q), req' = [req EXCEPT ![r] = q],
         InLoop(q) => InLoop(req[r]) \/ LoopFree, Unshared(q, row, overtaken),
         UNCHANGED <<row, preference, writes, credential, machines, strays, job, overtaken>>
  PROVE  ReservationsInv'
<1>1. TypeOK /\ RowsInv /\ RequestsInv /\ JobInv /\ MachinesDisjoint /\ SavedDisjoint /\ CredentialsKept
  BY DEF ReservationsInv
<1>2. RowsInv'
  BY <1>1 DEF RowsInv, Existing, ValidCluster
<1>3. ASSUME NEW s \in Requests PROVE Unshared(req'[s], row', overtaken')
  <2>1. req'[s] = IF s = r THEN q ELSE req[s]
    BY <1>1 DEF RequestsInv
  <2> QED BY <2>1, RequestsOK
<1>4. /\ RequestsInv'
      /\ \A s \in Requests :
           /\ req'[s].pc \in {"idle", "form", "allocations", "save", "delete"}
           /\ req'[s].cluster \in Clusters \union {None}
           /\ req'[s].credential \in (IF req'[s].pc = "delete" THEN Credentials ELSE {None})
  BY <1>3, RequestsKeep
<1>5. TypeOK'
  BY <1>1, <1>2, <1>4 DEF TypeOK, RowsInv, Existing, ValidCluster
<1>6. JobInv' /\ MachinesDisjoint'
  BY <1>1 DEF JobInv, Executes, MachinesDisjoint, ProxmoxFree, ForeignIds, ForeignIps, OfOthers, Running
<1>7. SavedDisjoint' /\ CredentialsKept'
  BY <1>1 DEF SavedDisjoint, CredentialsKept, Share
<1> QED BY <1>2, <1>4, <1>5, <1>6, <1>7 DEF ReservationsInv

LEMMA DropKeeps ==
  ASSUME ReservationsInv, NEW r \in Requests, Drop(r),
         UNCHANGED <<row, preference, writes, credential, machines, strays, job, overtaken>>
  PROVE  ReservationsInv'
<1>1. Unshared(Idle, row, overtaken)
  BY IdleOK DEF Unshared
<1> QED BY <1>1, IdleOK, MoveKeeps DEF Drop

LEMMA SubmitKeeps ==
  ASSUME ReservationsInv, NEW r \in Requests, NEW c \in Clusters \union {None}, Submit(r, c)
  PROVE  ReservationsInv'
<1>1. PICK config \in Configurations :
        req' = [req EXCEPT ![r] = [Idle EXCEPT !.pc = "form", !.cluster = c, !.config = config, !.own = Stored(c),
                                               !.destroyed = c # None /\ row[c].destroyed]]
  <2>1. TypeOK /\ Forms \subseteq Configurations
    BY ConstantsAssumption DEF ReservationsInv
  <2>2. Suggested(None, AllIds) \subseteq Configurations
    BY <2>1, SuggestedAreConfigurations
  <2> QED BY <2>1, <2>2 DEF Submit
<1> DEFINE own == Stored(c)
           destroyed == c # None /\ row[c].destroyed
           q == [Idle EXCEPT !.pc = "form", !.cluster = c, !.config = config, !.own = own, !.destroyed = destroyed]
<1>2. RequestOK(q) /\ ~InLoop(q) /\ Unshared(q, row, overtaken)
  <2> HIDE DEF own, destroyed
  <2>1. DOMAIN q = Fields /\ q.pc = "form" /\ q.cluster = c /\ q.credential = None /\ q.config = config
    BY IdleOK DEF Fields
  <2> HIDE DEF q
  <2> QED BY <2>1 DEF RequestOK, InLoop, Unshared
<1>3. req' = [req EXCEPT ![r] = q]
  BY <1>1
<1> HIDE DEF q
<1> QED BY <1>2, <1>3, MoveKeeps DEF Submit

LEMMA CheckFormKeeps ==
  ASSUME ReservationsInv, NEW r \in Requests, CheckForm(r)
  PROVE  ReservationsInv'
<1>1. CASE Drop(r)
  BY <1>1, DropKeeps DEF CheckForm
<1>2. CASE Move(r, "allocations") /\ ValidCluster(req[r].config)
  <2> DEFINE q == [req[r] EXCEPT !.pc = "allocations"]
  <2>1. RequestOK(req[r]) /\ req[r].pc = "form" /\ LoopFree
    BY RequestsOK DEF CheckForm
  <2>2. /\ DOMAIN q = Fields /\ q.pc = "allocations" /\ q.cluster = req[r].cluster
        /\ q.config = req[r].config /\ q.credential = req[r].credential
    BY <2>1 DEF RequestOK, Fields
  <2> HIDE DEF q
  <2>3. RequestOK(q) /\ Unshared(q, row, overtaken)
    BY <1>2, <2>1, <2>2 DEF RequestOK, Unshared
  <2>4. req' = [req EXCEPT ![r] = q]
    BY <1>2 DEF Move, q
  <2> QED BY <2>1, <2>3, <2>4, MoveKeeps DEF CheckForm
<1> QED BY <1>1, <1>2 DEF CheckForm

(* A configuration without conflicts shares nothing with the active ones.    *)
LEMMA NoConflict ==
  ASSUME NEW c, NEW own, NEW config, ~Conflicts(row, preference, c, own, config)
  PROVE  \A d \in Active(row) \ {c} : ~Share(config, row[d].config)
BY DEF Conflicts, UsedIps, UsedIds, Share

LEMMA CheckAllocationsKeeps ==
  ASSUME ReservationsInv, NEW r \in Requests, CheckAllocations(r)
  PROVE  ReservationsInv'
<1> DEFINE free == ~Conflicts(row, preference, req[r].cluster, req[r].own, req[r].config)
<1>1. CASE ~free
  BY <1>1, DropKeeps DEF CheckAllocations
<1>2. CASE free
  <2> DEFINE q == [req[r] EXCEPT !.pc = "save"]
  <2>1. /\ RequestOK(req[r]) /\ req[r].pc = "allocations"
        /\ \A d \in Active(row) \ {req[r].cluster} : ~Share(req[r].config, row[d].config)
    BY <1>2, RequestsOK, NoConflict DEF CheckAllocations
  <2>2. req' = [req EXCEPT ![r] = q]
    BY <1>2 DEF CheckAllocations, Move
  <2>3. /\ DOMAIN q = Fields /\ q.pc = "save" /\ q.cluster = req[r].cluster
        /\ q.config = req[r].config /\ q.credential = req[r].credential
    BY <2>1 DEF RequestOK, Fields
  <2> HIDE DEF q
  <2>4. RequestOK(q) /\ Unshared(q, row, overtaken) /\ InLoop(req[r])
    BY <2>1, <2>3 DEF RequestOK, Unshared, InLoop
  <2> QED BY <2>2, <2>4, MoveKeeps DEF CheckAllocations
<1> QED BY <1>1, <1>2

LEMMA BeginDeleteKeeps ==
  ASSUME ReservationsInv, NEW r \in Requests, BeginDeleteCredential(r)
  PROVE  ReservationsInv'
<1>1. PICK k \in credential :
        /\ UsersOf(k) = {}
        /\ req' = [req EXCEPT ![r] = [Idle EXCEPT !.pc = "delete", !.credential = k, !.used = UsersOf(k)]]
  BY DEF BeginDeleteCredential
<1> DEFINE q == [Idle EXCEPT !.pc = "delete", !.credential = k, !.used = {}]
<1>2. k \in Credentials
  BY DEF ReservationsInv, TypeOK
<1>3. RequestOK(q) /\ ~InLoop(q) /\ Unshared(q, row, overtaken)
  <2>1. DOMAIN q = Fields /\ q.pc = "delete" /\ q.cluster = None /\ q.used = {} /\ q.credential = k
    BY IdleOK DEF Fields
  <2> HIDE DEF q
  <2> QED BY <1>2, <2>1 DEF RequestOK, InLoop, Unshared
<1>4. req' = [req EXCEPT ![r] = q]
  BY <1>1
<1> QED BY <1>3, <1>4, MoveKeeps DEF BeginDeleteCredential

-----------------------------------------------------------------------------
(* The steps that write.                                                     *)

(* The history of one cluster is written anew, that of the others is kept.   *)
LEMMA HistoryOf ==
  ASSUME TypeOK, NEW c \in Clusters, NEW config, NEW outdated \in BOOLEAN
  PROVE  /\ History(c, config, outdated) \subseteq Clusters \X {"addresses", "credentials"}
         /\ <<c, "addresses">> \in History(c, config, outdated) <=> outdated
         /\ <<c, "credentials">> \in History(c, config, outdated) <=> ~(config.credentials \subseteq credential)
         /\ \A d \in Clusters \ {c} : \A x :
              <<d, x>> \in History(c, config, outdated) <=> <<d, x>> \in overtaken
BY DEF TypeOK, History

(* A row is written, with a history that tells whether it may share          *)
(* anything or lack its credentials.                                         *)
LEMMA WrittenRow ==
  ASSUME ReservationsInv, NEW c \in Clusters, NEW new,
         DOMAIN new = {"config", "destroyed", "planned"}, new.config \in Configurations, ValidCluster(new.config),
         new.destroyed \in BOOLEAN, new.planned \in BOOLEAN,
         row' = [row EXCEPT ![c] = new], credential' = credential,
         overtaken' \subseteq Clusters \X {"addresses", "credentials"},
         \A d \in Clusters \ {c} : \A x : <<d, x>> \in overtaken' <=> <<d, x>> \in overtaken,
         ~new.destroyed /\ <<c, "addresses">> \notin overtaken' =>
           \A d \in Active(row) \ {c} :
             <<d, "addresses">> \notin overtaken => ~Share(new.config, row[d].config),
         ~new.destroyed /\ <<c, "credentials">> \notin overtaken' => new.config.credentials \subseteq credential
  PROVE  /\ RowsInv' /\ SavedDisjoint' /\ CredentialsKept'
         /\ \A d \in Existing' : {row'[d].destroyed, row'[d].planned} \subseteq BOOLEAN
<1>1. RowsInv /\ SavedDisjoint /\ CredentialsKept /\ TypeOK
  BY DEF ReservationsInv
<1>2. /\ row' = [d \in Clusters |-> row'[d]] /\ DOMAIN row = Clusters
      /\ \A d \in Clusters : row'[d] = IF d = c THEN new ELSE row[d]
  BY <1>1 DEF RowsInv
<1>3. \A d \in Existing' : d \in Clusters /\ (d = c \/ d \in Existing)
  BY <1>2 DEF Existing
<1>4. ASSUME NEW d \in Existing'
      PROVE  /\ DOMAIN row'[d] = {"config", "destroyed", "planned"}
             /\ row'[d].config \in Configurations /\ ValidCluster(row'[d].config)
             /\ {row'[d].destroyed, row'[d].planned} \subseteq BOOLEAN
  <2>1. CASE d = c
    BY <1>2, <2>1
  <2>2. CASE d # c
    BY <1>1, <1>2, <1>3, <2>2 DEF RowsInv, TypeOK
  <2> QED BY <2>1, <2>2
<1>5. RowsInv'
  BY <1>2, <1>4 DEF RowsInv, ValidCluster
<1>6. \A d \in Active(row') : d \in Clusters /\ (d # c => d \in Active(row) /\ row'[d] = row[d])
  BY <1>2 DEF Active
<1>7. c \in Active(row') => row'[c] = new /\ ~new.destroyed
  BY <1>2 DEF Active
<1>8. \A f, g : Share(f, g) <=> Share(g, f)
  BY DEF Share
<1>9. ASSUME NEW d \in Active(row'), NEW e \in Active(row'), d # e,
             <<d, "addresses">> \notin overtaken', <<e, "addresses">> \notin overtaken'
      PROVE ~Share(row'[d].config, row'[e].config)
  <2>1. CASE d = c
    <3>1. e \in Clusters \ {c} /\ <<e, "addresses">> \notin overtaken /\ row'[e] = row[e]
      BY <1>6, <1>9, <2>1
    <3> QED BY <1>6, <1>7, <1>9, <2>1, <3>1
  <2>2. CASE e = c
    <3>1. d \in Clusters \ {c} /\ <<d, "addresses">> \notin overtaken /\ row'[d] = row[d]
      BY <1>6, <1>9, <2>2
    <3> QED BY <1>6, <1>7, <1>8, <1>9, <2>2, <3>1
  <2>3. CASE d # c /\ e # c
    <3>1. /\ d \in Active(row) /\ e \in Active(row) /\ row'[d] = row[d] /\ row'[e] = row[e]
          /\ <<d, "addresses">> \notin overtaken /\ <<e, "addresses">> \notin overtaken
      BY <1>6, <1>9, <2>3
    <3>2. {<<d, "addresses">>, <<e, "addresses">>} \intersect overtaken = {}
      BY <3>1
    <3> QED BY <1>1, <1>9, <3>1, <3>2 DEF SavedDisjoint
  <2> QED BY <2>1, <2>2, <2>3
<1>10. SavedDisjoint'
  BY <1>9 DEF SavedDisjoint, Share
<1>11. CredentialsKept'
  BY <1>1, <1>6, <1>7 DEF CredentialsKept
<1> QED BY <1>4, <1>5, <1>10, <1>11

(* The rows that are active now, and of which the history says nothing, were *)
(* so before, with the same configuration.                                   *)
NoneAppears ==
  \A d \in Active(row') : <<d, "addresses">> \notin overtaken' =>
    /\ d \in Active(row) /\ <<d, "addresses">> \notin overtaken
    /\ row'[d].config = row[d].config

LEMMA UnsharedKept ==
  ASSUME NoneAppears, NEW q, Unshared(q, row, overtaken)
  PROVE  Unshared(q, row', overtaken')
BY DEF NoneAppears, Unshared, Share

LEMMA SaveKeeps ==
  ASSUME ReservationsInv, NEW r \in Requests, NEW c \in Clusters, req[r].pc = "save", Save(r, c),
         req[r].cluster \in {c, None}, req[r].cluster = None => row[c] = None
  PROVE  ReservationsInv'
<1>1. TypeOK /\ RowsInv /\ RequestsInv /\ JobInv /\ MachinesDisjoint /\ SavedDisjoint /\ CredentialsKept
  BY DEF ReservationsInv
<1>2. /\ RequestsInv'
      /\ \A s \in Requests :
           /\ req'[s].pc \in {"idle", "form", "allocations", "save", "delete"}
           /\ req'[s].cluster \in Clusters \union {None}
           /\ req'[s].credential \in (IF req'[s].pc = "delete" THEN Credentials ELSE {None})
  <2>1. req' = [req EXCEPT ![r] = Idle]
    BY DEF Save, Drop
  <2>2. ASSUME NEW s \in Requests PROVE Unshared(req'[s], row', overtaken')
    <3>1. req'[s] = IF s = r THEN Idle ELSE req[s]
      BY <1>1, <2>1 DEF RequestsInv
    <3>2. s # r => ~InLoop(req[s])
      BY <1>1 DEF RequestsInv, InLoop
    <3> QED BY <3>1, <3>2, IdleOK DEF Unshared, InLoop
  <2> QED BY <2>1, <2>2, IdleOK, RequestsKeep
<1>3. JobInv' /\ MachinesDisjoint'
  BY <1>1 DEF Save, JobInv, Executes, MachinesDisjoint, ProxmoxFree, ForeignIds, ForeignIps, OfOthers, Running
<1>4. writes' \in 0 .. MaxWrites /\ UNCHANGED <<preference, credential, job>>
  BY <1>1, ConstantsAssumption DEF TypeOK, Save
<1>5. /\ RowsInv' /\ SavedDisjoint' /\ CredentialsKept'
      /\ \A d \in Existing' : {row'[d].destroyed, row'[d].planned} \subseteq BOOLEAN
      /\ overtaken' \subseteq Clusters \X {"addresses", "credentials"}
  <2>1. CASE req[r].config = req[r].own
    <3>1. UNCHANGED <<row, overtaken, credential>>
      BY <2>1 DEF Save
    <3>2. RowsInv'
      BY <1>1, <3>1 DEF RowsInv, Existing, ValidCluster
    <3>5. CredentialsKept'
      BY <1>1, <3>1 DEF CredentialsKept, Active
    <3>3. SavedDisjoint'
      BY <1>1, <3>1 DEF SavedDisjoint, Active
    <3>4. /\ \A d \in Existing' : {row'[d].destroyed, row'[d].planned} \subseteq BOOLEAN
          /\ overtaken' \subseteq Clusters \X {"addresses", "credentials"}
      BY <1>1, <3>1 DEF TypeOK, Existing
    <3> QED BY <3>2, <3>3, <3>4, <3>5
  <2>2. CASE req[r].config # req[r].own
    <3>0. PICK destroyed \in BOOLEAN :
            /\ row' = [row EXCEPT ![c] = [config |-> req[r].config, destroyed |-> destroyed, planned |-> FALSE]]
            /\ overtaken' = History(c, req[r].config, FALSE)
      BY <2>2 DEF Save
    <3> DEFINE config == req[r].config
               new == [config |-> config, destroyed |-> destroyed, planned |-> FALSE]
    <3>1. /\ row' = [row EXCEPT ![c] = new] /\ credential' = credential
          /\ overtaken' = History(c, config, FALSE)
      BY <3>0 DEF Save
    <3>2. config \in Configurations /\ ValidCluster(config)
      BY RequestsOK DEF RequestOK
    <3>3. \A d \in Active(row) \ {c} : <<d, "addresses">> \notin overtaken => ~Share(config, row[d].config)
      <4>1. Unshared(req[r], row, overtaken)
        BY RequestsOK
      <4>2. \A d \in Active(row) \ {c} : d # req[r].cluster
        BY <1>1, ConstantsAssumption DEF Active, RowsInv
      <4> QED BY <4>1, <4>2 DEF Unshared
    <3>4. /\ DOMAIN new = {"config", "destroyed", "planned"} /\ new.config = config
          /\ new.destroyed = destroyed /\ new.planned = FALSE
      OBVIOUS
    <3> HIDE DEF config, new
    <3>6. /\ overtaken' \subseteq Clusters \X {"addresses", "credentials"}
          /\ <<c, "credentials">> \in overtaken' <=> ~(config.credentials \subseteq credential)
          /\ \A d \in Clusters \ {c} : \A x : <<d, x>> \in overtaken' <=> <<d, x>> \in overtaken
      BY <1>1, <3>1, HistoryOf
    <3> QED BY <3>1, <3>2, <3>3, <3>4, <3>6, WrittenRow
  <2> QED BY <2>1, <2>2
<1>6. TypeOK'
  BY <1>1, <1>2, <1>4, <1>5 DEF TypeOK, RowsInv, ValidCluster, Existing, ValidPreferences, Save
<1> QED BY <1>2, <1>3, <1>5, <1>6 DEF ReservationsInv

LEMMA DeleteCredentialKeeps ==
  ASSUME ReservationsInv, NEW r \in Requests, DeleteCredential(r)
  PROVE  ReservationsInv'
<1> DEFINE k == req[r].credential
<1>1. TypeOK /\ RowsInv /\ RequestsInv /\ JobInv /\ MachinesDisjoint /\ SavedDisjoint /\ CredentialsKept
  BY DEF ReservationsInv
<1>2. /\ req[r].used = {} /\ credential' = credential \ {k}
      /\ overtaken' = overtaken \union (UsersOf(k) \X {"credentials"})
      /\ UNCHANGED <<row, preference, writes, machines, strays, job>>
  BY RequestsOK DEF DeleteCredential, RequestOK
<1>3. /\ RequestsInv'
      /\ \A s \in Requests :
           /\ req'[s].pc \in {"idle", "form", "allocations", "save", "delete"}
           /\ req'[s].cluster \in Clusters \union {None}
           /\ req'[s].credential \in (IF req'[s].pc = "delete" THEN Credentials ELSE {None})
  <2>1. req' = [req EXCEPT ![r] = Idle]
    BY DEF DeleteCredential, Drop
  <2>2. NoneAppears
    BY <1>2 DEF NoneAppears
  <2>3. ASSUME NEW s \in Requests PROVE Unshared(req'[s], row', overtaken')
    <3>1. req'[s] = Idle \/ req'[s] = req[s]
      BY <1>1, <2>1 DEF RequestsInv
    <3>2. Unshared(Idle, row, overtaken) /\ Unshared(req[s], row, overtaken)
      BY IdleOK, RequestsOK DEF Unshared
    <3>3. Unshared(req'[s], row, overtaken)
      BY <3>1, <3>2
    <3> QED BY <2>2, <3>3, UnsharedKept
  <2> QED BY <2>1, <2>3, IdleOK, RequestsKeep
<1>4. RowsInv' /\ JobInv' /\ MachinesDisjoint'
  <2>1. RowsInv'
    BY <1>1, <1>2 DEF RowsInv, Existing, ValidCluster
  <2>2. JobInv'
    BY <1>1, <1>2 DEF JobInv, ProxmoxFree, ForeignIds, ForeignIps, OfOthers, Running, Executes
  <2>3. MachinesDisjoint'
    BY <1>1, <1>2 DEF MachinesDisjoint, ForeignIds, ForeignIps, OfOthers, Running
  <2> QED BY <2>1, <2>2, <2>3
<1>5. UsersOf(k) \subseteq Clusters
  BY <1>1 DEF UsersOf, Active, RowsInv
<1>6. TypeOK'
  <2>1. credential' \subseteq Credentials /\ overtaken' \subseteq Clusters \X {"addresses", "credentials"}
    BY <1>1, <1>2, <1>5 DEF TypeOK
  <2> QED BY <1>1, <1>2, <1>3, <1>4, <2>1 DEF TypeOK, RowsInv, Existing, ValidCluster
<1>7. SavedDisjoint'
  <2>1. \A d : <<d, "addresses">> \in overtaken' <=> <<d, "addresses">> \in overtaken
    BY <1>2
  <2>2. \A c, d : {<<c, "addresses">>, <<d, "addresses">>} \intersect overtaken' = {}
                  => {<<c, "addresses">>, <<d, "addresses">>} \intersect overtaken = {}
    BY <2>1
  <2> QED BY <1>1, <1>2, <2>2 DEF SavedDisjoint, Share
<1>8. CredentialsKept'
  <2> SUFFICES ASSUME NEW c \in Active(row), <<c, "credentials">> \notin overtaken'
               PROVE row[c].config.credentials \subseteq credential'
    BY <1>2 DEF CredentialsKept
  <2>1. row[c].config.credentials \subseteq credential
    BY <1>1, <1>2 DEF CredentialsKept
  <2>2. c \notin UsersOf(k)
    BY <1>2
  <2>3. k \notin row[c].config.credentials
    BY <2>2 DEF UsersOf
  <2> QED BY <1>2, <2>1, <2>3
<1> QED BY <1>3, <1>4, <1>6, <1>7, <1>8 DEF ReservationsInv

LEMMA PreferencesKeep ==
  ASSUME ReservationsInv, UpdatePreferences
  PROVE  ReservationsInv'
<1>1. TypeOK /\ RowsInv /\ RequestsInv /\ JobInv /\ MachinesDisjoint /\ SavedDisjoint /\ CredentialsKept
  BY DEF ReservationsInv
<1>2. /\ preference' # None => preference' \in Settings /\ ValidPreferences(preference')
      /\ writes' \in 0 .. MaxWrites
      /\ UNCHANGED <<row, credential, req, machines, strays, job, overtaken>>
  BY <1>1, ConstantsAssumption DEF UpdatePreferences, TypeOK
<1>3. RowsInv' /\ RequestsInv' /\ JobInv' /\ MachinesDisjoint'
  <2>1. RowsInv'
    BY <1>1, <1>2 DEF RowsInv, Existing, ValidCluster
  <2>2. RequestsInv'
    BY <1>1, <1>2 DEF RequestsInv, RequestOK, Unshared, InLoop, ValidCluster, Share
  <2>3. JobInv' /\ MachinesDisjoint'
    BY <1>1, <1>2 DEF JobInv, MachinesDisjoint, ProxmoxFree, ForeignIds, ForeignIps, OfOthers, Running, Executes
  <2> QED BY <2>1, <2>2, <2>3
<1>4. SavedDisjoint' /\ CredentialsKept'
  BY <1>1, <1>2 DEF SavedDisjoint, CredentialsKept, Share
<1>5. TypeOK'
  <2>1. (preference # None => preference \in Settings /\ ValidPreferences(preference))'
    BY <1>2 DEF ValidPreferences
  <2> QED BY <1>1, <1>2, <2>1 DEF TypeOK, Existing, Quiet, ValidCluster
<1> QED BY <1>3, <1>4, <1>5 DEF ReservationsInv

-----------------------------------------------------------------------------
(* The worker.                                                               *)

(* What no step of the worker, and no deletion of a cluster, touches.        *)
LEMMA OthersKeep ==
  ASSUME ReservationsInv, UNCHANGED <<preference, writes, credential, req>>,
         RowsInv', \A c \in Existing' : {row'[c].destroyed, row'[c].planned} \subseteq BOOLEAN,
         overtaken' \subseteq Clusters \X {"addresses", "credentials"},
         NoneAppears,
         job' # None => /\ job'.cluster \in Clusters
                        /\ job'.kind \in {"PLAN", "APPLY", "DESTROY"} /\ job'.pc \in {"started", "running"}
  PROVE  TypeOK' /\ RequestsInv'
<1>1. TypeOK /\ RequestsInv
  BY DEF ReservationsInv
<1>2. RequestsInv'
  <2>1. ASSUME NEW s \in Requests PROVE Unshared(req'[s], row', overtaken')
    <3>1. Unshared(req'[s], row, overtaken)
      BY RequestsOK
    <3> QED BY <3>1, UnsharedKept
  <2> QED BY <1>1, <2>1 DEF RequestsInv, RequestOK, Unshared, InLoop, ValidCluster, Share
<1>3. TypeOK'
  <2>1. (Quiet => \A c \in Existing : ValidCluster(row[c].config))'
    BY DEF RowsInv
  <2>2. (preference # None => preference \in Settings /\ ValidPreferences(preference))'
    BY <1>1 DEF TypeOK, ValidPreferences
  <2> QED BY <1>1, <2>1, <2>2 DEF TypeOK
<1> QED BY <1>2, <1>3

(* What every job is.                                                        *)
JobOK(j) ==
  j # None => /\ j.cluster \in Clusters
              /\ j.kind \in {"PLAN", "APPLY", "DESTROY"} /\ j.pc \in {"started", "running"}

(* Nothing is built: the machines are still apart, and an apply that has     *)
(* begun has been checked.                                                   *)
LEMMA StillApart ==
  ASSUME ReservationsInv, UNCHANGED <<machines, strays>>,
         job' # None /\ job'.kind = "APPLY" /\ job'.pc = "running" => ProxmoxFree(job'.cluster, job'.config)
  PROVE  JobInv' /\ MachinesDisjoint'
<1>1. JobInv /\ MachinesDisjoint
  BY DEF ReservationsInv
<1>2. MachinesDisjoint'
  BY <1>1 DEF MachinesDisjoint, ForeignIds, ForeignIps, OfOthers, Running
<1>3. (Executes("APPLY", "running") => ProxmoxFree(job.cluster, job.config))'
  BY DEF Executes, ProxmoxFree, ForeignIds, ForeignIps, OfOthers, Running
<1> QED BY <1>1, <1>2, <1>3 DEF JobInv

(* The worker writes the status of a cluster, with a look at no other: if it *)
(* was DESTROYED, the history says so.                                       *)
LEMMA ActivateKeeps ==
  ASSUME ReservationsInv, NEW c \in Existing, NEW planned \in BOOLEAN, Activate(c, planned),
         UNCHANGED <<preference, writes, credential, req>>, JobOK(job')
  PROVE  TypeOK' /\ RowsInv' /\ RequestsInv' /\ SavedDisjoint' /\ CredentialsKept'
<1>1. TypeOK /\ RowsInv /\ SavedDisjoint /\ CredentialsKept
  BY DEF ReservationsInv
<1> DEFINE new == [row[c] EXCEPT !.destroyed = FALSE, !.planned = planned]
<1>2. /\ c \in Clusters /\ DOMAIN row[c] = {"config", "destroyed", "planned"}
      /\ row[c].config \in Configurations /\ ValidCluster(row[c].config) /\ row[c].destroyed \in BOOLEAN
  BY <1>1 DEF Existing, RowsInv, TypeOK
<1>3. /\ DOMAIN new = {"config", "destroyed", "planned"} /\ new.config = row[c].config
      /\ new.destroyed = FALSE /\ new.planned = planned
  BY <1>2
<1>4. /\ row' = [row EXCEPT ![c] = new]
      /\ overtaken' = IF row[c].destroyed THEN History(c, row[c].config, TRUE) ELSE overtaken
  BY <1>1, <1>2 DEF Activate, RowsInv
<1> HIDE DEF new
<1>5. /\ overtaken' \subseteq Clusters \X {"addresses", "credentials"}
      /\ \A d \in Clusters \ {c} : \A x : <<d, x>> \in overtaken' <=> <<d, x>> \in overtaken
      /\ row[c].destroyed =>
           /\ <<c, "addresses">> \in overtaken'
           /\ <<c, "credentials">> \in overtaken' <=> ~(row[c].config.credentials \subseteq credential)
  <2>1. CASE row[c].destroyed
    BY <1>1, <1>2, <1>4, <2>1, HistoryOf
  <2>2. CASE ~row[c].destroyed
    BY <1>1, <1>4, <2>2 DEF TypeOK
  <2> QED BY <2>1, <2>2
<1>6. ASSUME <<c, "addresses">> \notin overtaken', NEW d \in Active(row) \ {c},
             <<d, "addresses">> \notin overtaken
      PROVE ~Share(new.config, row[d].config)
  <2>1. ~row[c].destroyed /\ overtaken' = overtaken
    BY <1>4, <1>5, <1>6
  <2>2. c \in Active(row) /\ {<<c, "addresses">>, <<d, "addresses">>} \intersect overtaken = {}
    BY <1>1, <1>2, <1>6, <2>1 DEF Active, Existing, RowsInv
  <2> QED BY <1>1, <1>3, <1>6, <2>2 DEF SavedDisjoint
<1>7. <<c, "credentials">> \notin overtaken' => new.config.credentials \subseteq credential
  <2>1. CASE row[c].destroyed
    BY <1>3, <1>5, <2>1
  <2>2. CASE ~row[c].destroyed
    BY <1>1, <1>2, <1>3, <1>4, <2>2 DEF CredentialsKept, Active, Existing, RowsInv
  <2> QED BY <2>1, <2>2
<1>8. /\ RowsInv' /\ SavedDisjoint' /\ CredentialsKept'
      /\ \A d \in Existing' : {row'[d].destroyed, row'[d].planned} \subseteq BOOLEAN
  BY <1>2, <1>3, <1>4, <1>5, <1>6, <1>7, WrittenRow
<1>9. NoneAppears
  <2>1. /\ DOMAIN row = Clusters /\ DOMAIN row' = Clusters
        /\ \A d \in Clusters : row'[d] = IF d = c THEN new ELSE row[d]
    BY <1>1, <1>4 DEF RowsInv
  <2> SUFFICES ASSUME NEW d \in Active(row'), <<d, "addresses">> \notin overtaken'
               PROVE /\ d \in Active(row) /\ <<d, "addresses">> \notin overtaken
                     /\ row'[d].config = row[d].config
    BY DEF NoneAppears
  <2>2. CASE d = c
    BY <1>2, <1>3, <1>4, <1>5, <2>1, <2>2 DEF Active, Existing
  <2>3. CASE d # c
    BY <1>5, <2>1, <2>3 DEF Active
  <2> QED BY <2>2, <2>3
<1>10. TypeOK' /\ RequestsInv'
  BY <1>5, <1>8, <1>9, OthersKeep DEF JobOK
<1> QED BY <1>8, <1>10

(* A row gets or loses its plan, or is destroyed as well.                    *)
LEMMA ReplanKeeps ==
  ASSUME ReservationsInv, NEW c \in Existing, NEW new,
         UNCHANGED <<preference, writes, credential, req, overtaken>>, JobOK(job'),
         DOMAIN new = {"config", "destroyed", "planned"}, new.config = row[c].config,
         new.destroyed \in {row[c].destroyed, TRUE}, new.planned \in BOOLEAN,
         row' = [row EXCEPT ![c] = new]
  PROVE  TypeOK' /\ RowsInv' /\ RequestsInv' /\ SavedDisjoint' /\ CredentialsKept'
<1>1. TypeOK /\ RowsInv /\ SavedDisjoint /\ CredentialsKept
  BY DEF ReservationsInv
<1>2. c \in Clusters /\ new.config \in Configurations /\ ValidCluster(new.config) /\ new.destroyed \in BOOLEAN
  BY <1>1 DEF RowsInv, TypeOK, Existing
<1>3. ~new.destroyed => c \in Active(row)
  BY <1>1 DEF Active, Existing, RowsInv
<1>4. ASSUME ~new.destroyed, <<c, "addresses">> \notin overtaken', NEW d \in Active(row) \ {c},
             <<d, "addresses">> \notin overtaken
      PROVE ~Share(new.config, row[d].config)
  <2>1. {<<c, "addresses">>, <<d, "addresses">>} \intersect overtaken = {}
    BY <1>4
  <2> QED BY <1>1, <1>3, <1>4, <2>1 DEF SavedDisjoint
<1>5. ~new.destroyed /\ <<c, "credentials">> \notin overtaken' => new.config.credentials \subseteq credential
  BY <1>1, <1>3 DEF CredentialsKept
<1>6. overtaken' \subseteq Clusters \X {"addresses", "credentials"}
  BY <1>1 DEF TypeOK
<1>7. /\ RowsInv' /\ SavedDisjoint' /\ CredentialsKept'
      /\ \A d \in Existing' : {row'[d].destroyed, row'[d].planned} \subseteq BOOLEAN
  BY <1>2, <1>4, <1>5, <1>6, WrittenRow
<1>8. NoneAppears
  <2>1. /\ DOMAIN row = Clusters /\ DOMAIN row' = Clusters
        /\ \A d \in Clusters : row'[d] = IF d = c THEN new ELSE row[d]
    BY <1>1 DEF RowsInv
  <2> QED BY <1>3, <2>1 DEF NoneAppears, Active
<1>9. TypeOK' /\ RequestsInv'
  BY <1>6, <1>7, <1>8, OthersKeep DEF JobOK
<1> QED BY <1>7, <1>9

(* No row changes.                                                           *)
LEMMA SameRows ==
  ASSUME ReservationsInv, UNCHANGED <<row, preference, writes, credential, req, overtaken>>, JobOK(job')
  PROVE  TypeOK' /\ RowsInv' /\ RequestsInv' /\ SavedDisjoint' /\ CredentialsKept'
<1>1. TypeOK /\ RowsInv /\ SavedDisjoint /\ CredentialsKept
  BY DEF ReservationsInv
<1>2. RowsInv'
  BY <1>1 DEF RowsInv, Existing, ValidCluster
<1>3. SavedDisjoint' /\ CredentialsKept'
  BY <1>1 DEF SavedDisjoint, CredentialsKept, Share
<1>4. /\ \A d \in Existing' : {row'[d].destroyed, row'[d].planned} \subseteq BOOLEAN
      /\ overtaken' \subseteq Clusters \X {"addresses", "credentials"}
  BY <1>1 DEF TypeOK, Existing
<1>5. NoneAppears
  BY DEF NoneAppears
<1>6. TypeOK' /\ RequestsInv'
  BY <1>2, <1>4, <1>5, OthersKeep DEF JobOK
<1> QED BY <1>2, <1>3, <1>6

(* The cluster of a job whose row is there.                                  *)
LEMMA JobCluster ==
  ASSUME ReservationsInv, job # None
  PROVE  /\ JobOK(job) /\ job.cluster \in Clusters
         /\ row[job.cluster] # None => job.cluster \in Existing /\ row[job.cluster].planned \in BOOLEAN
BY DEF ReservationsInv, TypeOK, JobOK, Existing

LEMMA StartJobKeeps ==
  ASSUME ReservationsInv, NEW kind \in {"PLAN", "APPLY", "DESTROY"}, NEW c \in Clusters, StartJob(kind, c)
  PROVE  ReservationsInv'
<1>1. job'.kind = kind /\ job'.pc = "started" /\ job'.cluster = c
  BY DEF StartJob
<1>2. JobInv' /\ MachinesDisjoint'
  BY <1>1, StillApart DEF StartJob
<1>3. TypeOK' /\ RowsInv' /\ RequestsInv' /\ SavedDisjoint' /\ CredentialsKept'
  BY <1>1, SameRows DEF StartJob, JobOK
<1> QED BY <1>2, <1>3 DEF ReservationsInv

LEMMA FailJobKeeps ==
  ASSUME ReservationsInv, NEW c \in Clusters, FailJob(c)
  PROVE  ReservationsInv'
<1>1. c \in Existing /\ row[c].planned \in BOOLEAN
  BY DEF FailJob, Existing, ReservationsInv, TypeOK
<1>2. JobInv' /\ MachinesDisjoint'
  BY StillApart DEF FailJob
<1>3. TypeOK' /\ RowsInv' /\ RequestsInv' /\ SavedDisjoint' /\ CredentialsKept'
  BY <1>1, ActivateKeeps DEF FailJob, JobOK
<1> QED BY <1>2, <1>3 DEF ReservationsInv

LEMMA InvalidatePlanKeeps ==
  ASSUME ReservationsInv, InvalidatePlan
  PROVE  ReservationsInv'
<1>1. job # None /\ job.kind = "PLAN" /\ job.pc = "started" /\ JobOK(job)
  BY JobCluster DEF InvalidatePlan, Executes
<1>2. CASE job' = None /\ UNCHANGED <<row, overtaken>>
  <2>1. JobInv' /\ MachinesDisjoint'
    BY <1>2, StillApart DEF InvalidatePlan
  <2>2. TypeOK' /\ RowsInv' /\ RequestsInv' /\ SavedDisjoint' /\ CredentialsKept'
    BY <1>2, SameRows DEF InvalidatePlan, JobOK
  <2> QED BY <2>1, <2>2 DEF ReservationsInv
<1>3. CASE /\ row[job.cluster] # None /\ Activate(job.cluster, FALSE)
           /\ job' = [job EXCEPT !.pc = "running"]
  <2>1. job'.kind # "APPLY"
    BY <1>1, <1>3
  <2>2. JobOK(job')
    BY <1>1, <1>3 DEF JobOK
  <2>3. JobInv' /\ MachinesDisjoint'
    BY <2>1, StillApart DEF InvalidatePlan
  <2>4. TypeOK' /\ RowsInv' /\ RequestsInv' /\ SavedDisjoint' /\ CredentialsKept'
    BY <1>1, <1>3, <2>2, JobCluster, ActivateKeeps DEF InvalidatePlan
  <2> QED BY <2>3, <2>4 DEF ReservationsInv
<1> QED BY <1>2, <1>3 DEF InvalidatePlan

LEMMA FinishPlanKeeps ==
  ASSUME ReservationsInv, FinishPlan
  PROVE  ReservationsInv'
<1>1. job # None /\ RowsInv /\ TypeOK
  BY DEF FinishPlan, Executes, ReservationsInv
<1>2. JobInv' /\ MachinesDisjoint'
  BY StillApart DEF FinishPlan
<1>3. PICK c : c = job.cluster
  OBVIOUS
<1>4. CASE UNCHANGED row
  <2>1. TypeOK' /\ RowsInv' /\ RequestsInv' /\ SavedDisjoint' /\ CredentialsKept'
    BY <1>4, SameRows DEF FinishPlan, JobOK
  <2> QED BY <1>2, <2>1 DEF ReservationsInv
<1>5. CASE /\ row[c] # None
           /\ row' = [row EXCEPT ![c].planned = (row[c].config = job.config)]
  <2> DEFINE planned == row[c].config = job.config
             new == [row[c] EXCEPT !.planned = planned]
  <2>1. c \in Existing /\ DOMAIN row[c] = {"config", "destroyed", "planned"} /\ planned \in BOOLEAN
    BY <1>1, <1>3, <1>5, JobCluster DEF RowsInv
  <2> HIDE DEF planned
  <2>2. /\ DOMAIN new = {"config", "destroyed", "planned"} /\ new.config = row[c].config
        /\ new.destroyed = row[c].destroyed /\ new.planned = planned
    BY <2>1
  <2>3. row' = [row EXCEPT ![c] = new]
    BY <1>5 DEF planned
  <2> HIDE DEF new
  <2>4. TypeOK' /\ RowsInv' /\ RequestsInv' /\ SavedDisjoint' /\ CredentialsKept'
    BY <2>1, <2>2, <2>3, ReplanKeeps DEF FinishPlan, JobOK
  <2> QED BY <1>2, <2>4 DEF ReservationsInv
<1> QED BY <1>3, <1>4, <1>5 DEF FinishPlan

LEMMA BeginApplyKeeps ==
  ASSUME ReservationsInv, BeginApply
  PROVE  ReservationsInv'
<1>1. /\ job # None /\ JobOK(job) /\ row[job.cluster] # None /\ ProxmoxFree(job.cluster, job.config)
      /\ Activate(job.cluster, FALSE) /\ job' = [job EXCEPT !.pc = "running"]
  BY JobCluster DEF BeginApply, Executes
<1>2. job'.cluster = job.cluster /\ job'.config = job.config /\ JobOK(job')
  BY <1>1 DEF JobOK, ReservationsInv, TypeOK
<1>3. JobInv' /\ MachinesDisjoint'
  <2>1. ProxmoxFree(job'.cluster, job'.config)
    BY <1>1, <1>2
  <2> QED BY <2>1, StillApart DEF BeginApply
<1>4. TypeOK' /\ RowsInv' /\ RequestsInv' /\ SavedDisjoint' /\ CredentialsKept'
  BY <1>1, <1>2, JobCluster, ActivateKeeps DEF BeginApply
<1> QED BY <1>3, <1>4 DEF ReservationsInv

LEMMA BeginDestroyKeeps ==
  ASSUME ReservationsInv, BeginDestroy
  PROVE  ReservationsInv'
<1>1. /\ job # None /\ JobOK(job) /\ row[job.cluster] # None /\ job.kind = "DESTROY"
      /\ Activate(job.cluster, row[job.cluster].planned) /\ job' = [job EXCEPT !.pc = "running"]
  BY JobCluster DEF BeginDestroy, Executes
<1>2. job'.kind # "APPLY" /\ JobOK(job')
  BY <1>1 DEF JobOK, ReservationsInv, TypeOK
<1>3. JobInv' /\ MachinesDisjoint'
  BY <1>2, StillApart DEF BeginDestroy
<1>4. TypeOK' /\ RowsInv' /\ RequestsInv' /\ SavedDisjoint' /\ CredentialsKept'
  BY <1>1, <1>2, JobCluster, ActivateKeeps DEF BeginDestroy
<1> QED BY <1>3, <1>4 DEF ReservationsInv

(* Machines of the cluster go.                                               *)
LEMMA FewerMachines ==
  ASSUME ReservationsInv, NEW c \in Clusters, NEW left \in SUBSET machines[c],
         machines' = [machines EXCEPT ![c] = left], UNCHANGED strays, job' = None
  PROVE  JobInv' /\ MachinesDisjoint'
<1>1. JobInv /\ MachinesDisjoint
  BY DEF ReservationsInv
<1>2. /\ machines' = [d \in Clusters |-> machines'[d]]
      /\ \A d \in Clusters : machines'[d] \subseteq machines[d]
  BY <1>1 DEF JobInv
<1>3. JobInv'
  BY <1>1, <1>2 DEF JobInv, Executes
<1>4. \A d \in Clusters : Running(d)' \subseteq Running(d)
  BY <1>2 DEF Running
<1>5. \A d \in Clusters : OfOthers(d)' \subseteq OfOthers(d)
  BY <1>4 DEF OfOthers
<1>6. \A d \in Clusters : ForeignIds(d)' \subseteq ForeignIds(d) /\ ForeignIps(d)' \subseteq ForeignIps(d)
  BY <1>5 DEF ForeignIds, ForeignIps
<1>7. MachinesDisjoint'
  BY <1>1, <1>4, <1>6 DEF MachinesDisjoint
<1> QED BY <1>3, <1>7

LEMMA FinishDestroyKeeps ==
  ASSUME ReservationsInv, FinishDestroy
  PROVE  ReservationsInv'
<1>1. job # None /\ RowsInv /\ TypeOK
  BY DEF FinishDestroy, Executes, ReservationsInv
<1>2. PICK c : c = job.cluster
  OBVIOUS
<1>3. c \in Clusters
  BY <1>1, <1>2, JobCluster
<1>4. JobInv' /\ MachinesDisjoint'
  <2>1. PICK left \in SUBSET machines[c] : machines' = [machines EXCEPT ![c] = left]
    BY <1>2 DEF FinishDestroy
  <2> QED BY <1>3, <2>1, FewerMachines DEF FinishDestroy
<1>5. CASE UNCHANGED row
  <2>1. TypeOK' /\ RowsInv' /\ RequestsInv' /\ SavedDisjoint' /\ CredentialsKept'
    BY <1>5, SameRows DEF FinishDestroy, JobOK
  <2> QED BY <1>4, <2>1 DEF ReservationsInv
<1>6. CASE /\ row[c] # None
           /\ row' = [row EXCEPT ![c].destroyed = TRUE, ![c].planned = FALSE]
  <2> DEFINE new == [row[c] EXCEPT !.destroyed = TRUE, !.planned = FALSE]
  <2>1. c \in Existing /\ DOMAIN row[c] = {"config", "destroyed", "planned"}
    BY <1>1, <1>3, <1>6 DEF RowsInv, Existing
  <2>2. /\ DOMAIN new = {"config", "destroyed", "planned"} /\ new.config = row[c].config
        /\ new.destroyed = TRUE /\ new.planned = FALSE
    BY <2>1
  <2>3. row' = [row EXCEPT ![c] = new]
    BY <1>1, <1>3, <1>6 DEF RowsInv
  <2> HIDE DEF new
  <2>4. TypeOK' /\ RowsInv' /\ RequestsInv' /\ SavedDisjoint' /\ CredentialsKept'
    BY <2>1, <2>2, <2>3, ReplanKeeps DEF FinishDestroy, JobOK
  <2> QED BY <1>4, <2>4 DEF ReservationsInv
<1> QED BY <1>2, <1>5, <1>6 DEF FinishDestroy

LEMMA TerraformApplyKeeps ==
  ASSUME ReservationsInv, TerraformApply
  PROVE  ReservationsInv'
<1>0. PICK c, config : c = job.cluster /\ config = job.config
  OBVIOUS
<1>1. TypeOK /\ RowsInv /\ JobInv /\ MachinesDisjoint /\ SavedDisjoint /\ CredentialsKept
  BY DEF ReservationsInv
<1>2. /\ job # None /\ c \in Clusters /\ ProxmoxFree(c, config) /\ job' = None
      /\ UNCHANGED <<row, preference, writes, credential, req, overtaken>>
  BY <1>0, <1>1 DEF TerraformApply, TypeOK, JobInv, Executes
<1>3. /\ machines' = [d \in Clusters |-> machines'[d]]
      /\ strays' = [d \in Clusters |-> strays'[d]]
      /\ \A d \in Clusters \ {c} : Running(d)' = Running(d)
      /\ Running(c)' \subseteq Running(c) \union {config}
  <2>1. PICK made \in {{config}, machines[c] \union {config}, machines[c]} :
          machines' = [machines EXCEPT ![c] = made]
    BY <1>0 DEF TerraformApply
  <2>2. PICK stray \in SUBSET {config} : strays' = [strays EXCEPT ![c] = @ \union stray]
    BY <1>0 DEF TerraformApply
  <2> QED BY <1>1, <1>2, <2>1, <2>2 DEF JobInv, Running
<1>4. TypeOK' /\ RowsInv' /\ RequestsInv' /\ SavedDisjoint' /\ CredentialsKept'
  BY <1>2, SameRows DEF JobOK
<1>5. JobInv'
  BY <1>2, <1>3 DEF JobInv, Executes
<1>6. /\ OfOthers(c)' = OfOthers(c)
      /\ \A d \in Clusters \ {c} : OfOthers(d)' \subseteq OfOthers(d) \union {config}
  BY <1>2, <1>3 DEF OfOthers
<1>7. ASSUME NEW d \in Clusters, NEW m \in Running(d)'
      PROVE VmIds(m) \intersect ForeignIds(d)' = {} /\ Addresses(m) \intersect ForeignIps(d)' = {}
  <2>1. CASE d = c /\ m \in Running(c)
    BY <1>1, <1>2, <1>6, <2>1 DEF MachinesDisjoint, ForeignIds, ForeignIps
  <2>2. CASE d = c /\ m = config
    BY <1>2, <1>6, <2>2 DEF ProxmoxFree, ForeignIds, ForeignIps, Requested
  <2>3. CASE d # c
    <3>1. m \in Running(d) /\ m \in OfOthers(c)
      BY <1>2, <1>3, <2>3 DEF OfOthers
    <3>2. VmIds(m) \intersect ForeignIds(d) = {} /\ Addresses(m) \intersect ForeignIps(d) = {}
      BY <1>1, <3>1 DEF MachinesDisjoint
    <3>3. VmIds(m) \intersect VmIds(config) = {} /\ Addresses(m) \intersect Addresses(config) = {}
      BY <1>2, <3>1 DEF ProxmoxFree, ForeignIds, ForeignIps, Requested
    <3>4. OfOthers(d)' \subseteq OfOthers(d) \union {config}
      BY <1>6, <2>3
    <3>5. /\ ForeignIds(d)' \subseteq ForeignIds(d) \union VmIds(config)
          /\ ForeignIps(d)' \subseteq ForeignIps(d) \union Addresses(config)
      BY <3>4 DEF ForeignIds, ForeignIps
    <3> QED BY <3>2, <3>3, <3>5
  <2> QED BY <1>3, <2>1, <2>2, <2>3
<1>8. MachinesDisjoint'
  BY <1>7 DEF MachinesDisjoint, VmIds, Addresses
<1> QED BY <1>4, <1>5, <1>8 DEF ReservationsInv

LEMMA DeleteClusterKeeps ==
  ASSUME ReservationsInv, NEW c \in Clusters, DeleteCluster(c)
  PROVE  ReservationsInv'
<1>1. TypeOK /\ RowsInv /\ JobInv /\ MachinesDisjoint /\ SavedDisjoint /\ CredentialsKept
  BY DEF ReservationsInv
<1>2. /\ overtaken' = overtaken \ ({c} \X {"addresses", "credentials"})
      /\ UNCHANGED <<preference, writes, credential, req, machines, strays, job>>
      /\ row' = [row EXCEPT ![c] = None]
  BY DEF DeleteCluster
<1>3. /\ row' = [d \in Clusters |-> row'[d]] /\ DOMAIN row = Clusters
      /\ \A d \in Clusters : row'[d] = IF d = c THEN None ELSE row[d]
  BY <1>1, <1>2 DEF RowsInv
<1>4. \A d \in Existing' : d \in Existing /\ d # c /\ row'[d] = row[d]
  BY <1>3 DEF Existing
<1>5. \A d \in Active(row') : d \in Active(row) /\ d # c /\ d \in Clusters /\ row'[d] = row[d]
  BY <1>3 DEF Active
<1>6. \A d \in Clusters \ {c} : \A x : <<d, x>> \in overtaken' <=> <<d, x>> \in overtaken
  BY <1>2
<1>7. RowsInv'
  BY <1>1, <1>3, <1>4 DEF RowsInv, ValidCluster
<1>8. SavedDisjoint'
  <2> SUFFICES ASSUME NEW d \in Active(row'), NEW e \in Active(row'), d # e,
                      {<<d, "addresses">>, <<e, "addresses">>} \intersect overtaken' = {}
               PROVE ~Share(row'[d].config, row'[e].config)
    BY DEF SavedDisjoint, Share
  <2>1. {<<d, "addresses">>, <<e, "addresses">>} \intersect overtaken = {}
    BY <1>5, <1>6
  <2> QED BY <1>1, <1>5, <2>1 DEF SavedDisjoint
<1>9. CredentialsKept'
  BY <1>1, <1>2, <1>5, <1>6 DEF CredentialsKept
<1>10. JobInv' /\ MachinesDisjoint'
  BY <1>1, <1>2 DEF JobInv, Executes, MachinesDisjoint, ProxmoxFree, ForeignIds, ForeignIps, OfOthers, Running
<1>11. TypeOK' /\ RequestsInv'
  <2>1. \A d \in Existing' : {row'[d].destroyed, row'[d].planned} \subseteq BOOLEAN
    BY <1>1, <1>4 DEF TypeOK
  <2>2. overtaken' \subseteq Clusters \X {"addresses", "credentials"}
    BY <1>1, <1>2 DEF TypeOK
  <2>3. NoneAppears
    BY <1>5, <1>6 DEF NoneAppears
  <2> QED BY <1>1, <1>2, <1>7, <2>1, <2>2, <2>3, OthersKeep DEF TypeOK
<1> QED BY <1>7, <1>8, <1>9, <1>10, <1>11 DEF ReservationsInv

-----------------------------------------------------------------------------
(* The theorems about what is saved and built.                               *)

LEMMA ReservationsInit == Init => ReservationsInv
<1> SUFFICES ASSUME Init PROVE ReservationsInv
  OBVIOUS
<1>1. Existing = {} /\ Active(row) = {}
  BY DEF Init, Existing, Active
<1>2. \A r \in Requests : req[r] = Idle /\ RequestOK(req[r])
  BY IdleOK DEF Init
<1>3. Idle.pc = "idle" /\ Idle.cluster = None /\ Idle.credential = None
  BY DEF Idle
<1>4. TypeOK
  BY <1>1, <1>2, <1>3, ConstantsAssumption DEF Init, TypeOK
<1>5. RowsInv /\ SavedDisjoint /\ CredentialsKept
  BY <1>1 DEF Init, RowsInv, SavedDisjoint, CredentialsKept
<1>6. RequestsInv
  BY <1>2, IdleOK DEF Init, RequestsInv, Unshared
<1>7. JobInv /\ MachinesDisjoint
  BY DEF Init, JobInv, Executes, MachinesDisjoint, Running
<1> QED BY <1>4, <1>5, <1>6, <1>7 DEF ReservationsInv

LEMMA ReservationsStep == ReservationsInv /\ [Next]_vars => ReservationsInv'
<1> SUFFICES ASSUME ReservationsInv, [Next]_vars PROVE ReservationsInv'
  OBVIOUS
<1>1. ASSUME NEW r \in Requests, Request(r) PROVE ReservationsInv'
  <2>1. ASSUME NEW c \in Clusters \union {None}, Submit(r, c) PROVE ReservationsInv'
    BY <2>1, SubmitKeeps
  <2>2. CASE CheckForm(r)
    BY <2>2, CheckFormKeeps
  <2>3. CASE CheckAllocations(r)
    BY <2>3, CheckAllocationsKeeps
  <2>4. CASE SaveEdited(r)
    BY <2>4, ConstantsAssumption, SaveKeeps DEF SaveEdited, Existing
  <2>5. ASSUME NEW c \in Clusters, SaveNew(r, c) PROVE ReservationsInv'
    BY <2>5, SaveKeeps DEF SaveNew
  <2>6. CASE BeginDeleteCredential(r)
    BY <2>6, BeginDeleteKeeps
  <2>7. CASE DeleteCredential(r)
    BY <2>7, DeleteCredentialKeeps
  <2>8. CASE Fail(r)
    BY <2>8, DropKeeps DEF Fail
  <2> QED BY <1>1, <2>1, <2>2, <2>3, <2>4, <2>5, <2>6, <2>7, <2>8 DEF Request
<1>2. CASE UpdatePreferences
  BY <1>2, PreferencesKeep
<1>3. CASE Worker
  BY <1>3, StartJobKeeps, FailJobKeeps, InvalidatePlanKeeps, FinishPlanKeeps, BeginApplyKeeps,
     TerraformApplyKeeps, BeginDestroyKeeps, FinishDestroyKeeps DEF Worker
<1>4. ASSUME NEW c \in Clusters, DeleteCluster(c) PROVE ReservationsInv'
  BY <1>4, DeleteClusterKeeps
<1>5. CASE UNCHANGED vars
  <2>1. TypeOK /\ JobInv
    BY DEF ReservationsInv
  <2>2. TypeOK' /\ RowsInv' /\ RequestsInv' /\ SavedDisjoint' /\ CredentialsKept'
    BY <1>5, <2>1, SameRows DEF vars, JobOK, TypeOK
  <2>3. JobInv' /\ MachinesDisjoint'
    BY <1>5, <2>1, StillApart DEF vars, JobInv, Executes
  <2> QED BY <2>2, <2>3 DEF ReservationsInv
<1> QED BY <1>1, <1>2, <1>3, <1>4, <1>5 DEF Next

LEMMA ReservationsInvariant == Spec => []ReservationsInv
BY ReservationsInit, ReservationsStep, PTL DEF Spec

(* The rows hold valid configurations, and the settings valid preferences.   *)
THEOREM ReservationsTyped == Spec => []TypeOK
<1>1. ReservationsInv => TypeOK
  BY DEF ReservationsInv
<1> QED BY <1>1, ReservationsInvariant, PTL

(* Two clusters never have machines with the same VM id or address, whatever *)
(* saves and jobs overlap: the worker asks Proxmox right before it applies.  *)
THEOREM MachinesNeverCollide == Spec => []MachinesDisjoint
<1>1. ReservationsInv => MachinesDisjoint
  BY DEF ReservationsInv
<1> QED BY <1>1, ReservationsInvariant, PTL

(* Two active clusters share nothing, unless a job has made one of them      *)
(* active again that was DESTROYED: a plan, a failure, a second destruction. *)
THEOREM SavedShareNothing == Spec => []SavedDisjoint
<1>1. ReservationsInv => SavedDisjoint
  BY DEF ReservationsInv
<1> QED BY <1>1, ReservationsInvariant, PTL

(* An active cluster has its credentials, unless they were deleted around    *)
(* its save, or while it was DESTROYED and a job has made it active again.   *)
THEOREM CredentialsAreKept == Spec => []CredentialsKept
<1>1. ReservationsInv => CredentialsKept
  BY DEF ReservationsInv
<1> QED BY <1>1, ReservationsInvariant, PTL

(* An active cluster can be saved as it is, whatever has been reserved since *)
(* it was saved first.                                                       *)
THEOREM UnchangedCanBeSaved == Spec => []UnchangedIsAccepted
<1>1. ASSUME ReservationsInv PROVE UnchangedIsAccepted
  <2> SUFFICES ASSUME NEW c \in Active(row), {<<d, "addresses">> : d \in Clusters} \intersect overtaken = {}
               PROVE ~Conflicts(row, preference, c, row[c].config, row[c].config)
    BY DEF UnchangedIsAccepted
  <2>1. RowsInv /\ SavedDisjoint
    BY <1>1 DEF ReservationsInv
  <2>2. ASSUME NEW d \in Active(row) \ {c}
        PROVE /\ Requested(row[c].config) \intersect Requested(row[d].config) = {}
              /\ VmIds(row[c].config) \intersect VmIds(row[d].config) = {}
    <3>1. c \in Clusters /\ d \in Clusters
      BY <2>1 DEF Active, RowsInv
    <3>2. {<<c, "addresses">>, <<d, "addresses">>} \intersect overtaken = {}
      BY <3>1
    <3> QED BY <2>1, <3>2 DEF SavedDisjoint, Share
  <2>3. /\ Requested(row[c].config) \intersect UsedIps(row, c) = {}
        /\ VmIds(row[c].config) \intersect UsedIds(row, c) = {}
    BY <2>2 DEF UsedIps, UsedIds
  <2>4. row[c].config # None
    BY <2>1, ConstantsAssumption DEF RowsInv, Active, Existing
  <2> QED BY <2>3, <2>4 DEF Conflicts
<1> QED BY <1>1, ReservationsInvariant, PTL

-----------------------------------------------------------------------------
(* The theorems about what is suggested.                                     *)

(* The settings in force have been validated.                                *)
LEMMA SettingsInForce ==
  ASSUME TypeOK
  PROVE  /\ IsPreferences(Effective(preference)) /\ ValidPreferences(Effective(preference))
         /\ Effective(preference) \in Settings \union {Defaults}
BY SuggestionAssumption, ConstantsAssumption DEF TypeOK, Effective

(* What is suggested has no conflict with the allocations there are; and it  *)
(* is valid, if the rest of the configuration fits: the network and the      *)
(* gateway of the settings, and no template among the suggested ids.         *)
THEOREM SuggestionCanBeSaved == Spec => []SuggestionIsAccepted
<1>1. ASSUME ReservationsInv PROVE SuggestionIsAccepted
  <2> SUFFICES ASSUME Quiet, NEW c \in Existing \union {None}, NEW others, NEW config \in Suggested(c, others)
               PROVE /\ ~Conflicts(row, preference, c, Stored(c), config)
                     /\ /\ config.network = Effective(preference).network
                        /\ config.gateway = Effective(preference).gateway
                        /\ \/ config.templates \intersect VmIds(config) = {}
                           \/ config.templates \subseteq others
                        => ValidCluster(config)
    BY DEF SuggestionIsAccepted
  <2>1. PICK p : p = Effective(preference)
    OBVIOUS
  <2>2. IsPreferences(p) /\ ValidPreferences(p) /\ RowsInv
    BY <1>1, <2>1, SettingsInForce DEF ReservationsInv
  <2>3. PICK d, s :
          /\ d \in Drafts(c)
          /\ s = Suggestion(row, preference, d.count, c, others) /\ s # None
          /\ config = [d EXCEPT !.vip = s.vip, !.ip = s.ip, !.id = s.id]
    BY DEF Suggested
  <2>4. /\ d \in Configurations
        /\ d.count["lb"] \in 2 .. 10 /\ d.count["cp"] \in {3, 5, 7} /\ d.count["worker"] >= 1
    <3>1. CASE c = None
      <4>1. PICK f \in Forms : d = [f EXCEPT !.network = p.network, !.gateway = p.gateway, !.count = p.count]
        BY <2>1, <2>3, <3>1 DEF Drafts
      <4>2. f \in Configurations
        BY ConstantsAssumption
      <4>3. p.network \in Spans /\ p.gateway \in Int /\ p.count \in [Roles -> Nat]
        BY <2>2 DEF IsPreferences
      <4>4. d \in Configurations /\ d.count = p.count
        BY <4>1, <4>2, <4>3 DEF Configurations
      <4> QED BY <2>2, <4>4 DEF ValidPreferences
    <3>2. CASE c # None
      <4>1. c \in Existing /\ d = row[c].config
        BY <2>3, <3>2 DEF Drafts
      <4> QED BY <2>2, <4>1 DEF RowsInv, ValidCluster
    <3> QED BY <3>1, <3>2
  <2>5. /\ d.count \in [Roles -> Nat] /\ config.count = d.count
        /\ config.vip = s.vip /\ config.ip = s.ip /\ config.id = s.id
    BY <2>3, <2>4 DEF Configurations
  <2>6. PICK count \in [Roles -> Nat] : count = d.count /\ config.count = count
    BY <2>5
  <2> DEFINE ips == TakenIps(row, p, c)
             ids == UsedIds(row, c) \union others
  <2>7. /\ config.vip \in Free(p.ips["vip"], 1, ips)
        /\ \A k \in Roles : config.ip[k] \in Free(p.ips[k], count[k], ips)
        /\ \A k \in Roles : config.id[k] \in Free(p.ids[k], count[k], ids)
    <3>1. /\ s.vip \in Free(p.ips["vip"], 1, TakenIps(row, p, c))
          /\ \A k \in Roles : s.ip[k] \in Free(p.ips[k], count[k], TakenIps(row, p, c))
          /\ \A k \in Roles : s.id[k] \in Free(p.ids[k], count[k], UsedIds(row, c) \union others)
      <4> HIDE DEF ips, ids
      <4>1. s = Suggestion(row, preference, count, c, others) /\ s # None /\ IsPreferences(p)
        BY <2>2, <2>3, <2>6
      <4> QED BY <2>1, <4>1, SuggestedBlocks
    <3>2. ips = TakenIps(row, p, c) /\ ids = UsedIds(row, c) \union others
      OBVIOUS
    <3> HIDE DEF ips, ids
    <3> QED BY <2>5, <3>1, <3>2
  <2> HIDE DEF ips, ids
  <2>8. /\ Requested(config) \intersect ips = {} /\ VmIds(config) \intersect ids = {}
        /\ /\ config.network = p.network /\ config.gateway = p.gateway
           /\ config.templates \intersect VmIds(config) = {}
           /\ config.count["lb"] \in 2 .. 10 /\ config.count["cp"] \in {3, 5, 7}
           /\ config.count["worker"] >= 1
           => ValidCluster(config)
    <3>1. IsPreferences(p) /\ ValidPreferences(p)
      BY <2>2
    <3>2. /\ config.count \in [Roles -> Nat]
          /\ \A k \in Roles : config.ip[k] \in Free(p.ips[k], config.count[k], ips)
          /\ \A k \in Roles : config.id[k] \in Free(p.ids[k], config.count[k], ids)
      BY <2>6, <2>7
    <3> QED BY <2>7, <3>1, <3>2, FreeBlocksAreValid
  <2>9. /\ UsedIps(row, c) \union ParseReserved(p) \subseteq ips
        /\ UsedIds(row, c) \subseteq ids /\ others \subseteq ids
    BY DEF ips, ids, TakenIps
  <2>10. ~Conflicts(row, preference, c, Stored(c), config)
    BY <2>1, <2>8, <2>9 DEF Conflicts
  <2>11. config.templates \subseteq others => config.templates \intersect VmIds(config) = {}
    BY <2>8, <2>9
  <2> QED BY <2>1, <2>4, <2>6, <2>8, <2>10, <2>11
<1> QED BY <1>1, ReservationsInvariant, PTL

(* What is taken outside of a pool takes no room in it.                      *)
LEMMA RoomIsLeft ==
  ASSUME NEW pool \in Spans, NEW n \in Nat, NEW used, NEW more, Free(pool, n, used) # {},
         \A a \in Span(pool) : a \in more => a \in used
  PROVE  /\ Free(pool, n, more) # {}
         /\ FirstBlock(pool, n, more) \in Int /\ Block(FirstBlock(pool, n, more), n) \subseteq Span(pool)
<1>1. PICK s : s \in Free(pool, n, used)
  OBVIOUS
<1>2. Block(s, n) \subseteq Span(pool) /\ Block(s, n) \intersect used = {}
  BY <1>1, FreeBlock
<1>3. s \in Free(pool, n, more)
  BY <1>1, <1>2 DEF Free
<1>4. FirstBlock(pool, n, more) \in Free(pool, n, more) /\ FirstBlock(pool, n, more) \in Int
  BY <1>3, FirstBlockIsFree
<1> QED BY <1>3, <1>4, FreeBlock

(* A suggestion is made if there is room in every pool: the blocks of the    *)
(* other roles, the gateway and the ends of the network are outside of it.   *)
LEMMA RoomForSuggestion ==
  ASSUME NEW preference_, NEW p, p = Effective(preference_), IsPreferences(p), ValidPreferences(p),
         NEW rows, NEW exclude, NEW others,
         NEW ips, ips = UsedIps(rows, exclude) \union ParseReserved(p),
         NEW ids, ids = UsedIds(rows, exclude) \union others,
         Free(p.ips["vip"], 1, ips) # {},
         \A k \in Roles : Free(p.ips[k], p.count[k], ips) # {} /\ Free(p.ids[k], p.count[k], ids) # {}
  PROVE  Suggestion(rows, preference_, p.count, exclude, others) # None
<1> DEFINE count == p.count
           ips0 == UsedIps(rows, exclude) \union ParseReserved(p) \union Ends(p.network) \union {p.gateway}
           ids0 == UsedIds(rows, exclude) \union others
           vip == FirstBlock(p.ips["vip"], 1, ips0)
           ipsV == ips0 \union {vip}
           lbIp == FirstBlock(p.ips["lb"], count["lb"], ipsV)
           lbId == FirstBlock(p.ids["lb"], count["lb"], ids0)
           lbIps == Block(lbIp, count["lb"])
           lbIds == Block(lbId, count["lb"])
           ips1 == ips0 \union {vip} \union lbIps
           ids1 == ids0 \union lbIds
           cpIp == FirstBlock(p.ips["cp"], count["cp"], ips1)
           cpId == FirstBlock(p.ids["cp"], count["cp"], ids1)
           cpIps == Block(cpIp, count["cp"])
           cpIds == Block(cpId, count["cp"])
           ips2 == ips1 \union cpIps
           ids2 == ids1 \union cpIds
           workerIp == FirstBlock(p.ips["worker"], count["worker"], ips2)
           workerId == FirstBlock(p.ids["worker"], count["worker"], ids2)
           full == \/ Free(p.ips["vip"], 1, ips0) = {}
                   \/ Free(p.ips["lb"], count["lb"], ipsV) = {}
                   \/ Free(p.ids["lb"], count["lb"], ids0) = {}
                   \/ Free(p.ips["cp"], count["cp"], ips1) = {} \/ Free(p.ids["cp"], count["cp"], ids1) = {}
                   \/ Free(p.ips["worker"], count["worker"], ips2) = {}
                   \/ Free(p.ids["worker"], count["worker"], ids2) = {}
           ip == [r \in Roles |-> CASE r = "lb" -> lbIp [] r = "cp" -> cpIp [] r = "worker" -> workerIp]
           id == [r \in Roles |-> CASE r = "lb" -> lbId [] r = "cp" -> cpId [] r = "worker" -> workerId]
           s == Suggestion(rows, preference_, p.count, exclude, others)
<1>1. s = IF full THEN None ELSE [vip |-> vip, ip |-> ip, id |-> id, count |-> count]
  BY DEF Suggestion
<1>2. \A k \in Roles \union {"vip"} : \A a \in Span(p.ips[k]) : a \in ips0 <=> a \in ips
  BY PoolsOf
<1>3. ids0 = ids
  OBVIOUS
<1>4. /\ p.ips["vip"] \in Spans /\ 1 \in Nat
      /\ \A k \in Roles : p.ips[k] \in Spans /\ p.ids[k] \in Spans /\ count[k] \in Nat
      /\ count \in [Roles -> Nat]
      /\ "lb" \in Roles /\ "cp" \in Roles /\ "worker" \in Roles
      /\ "lb" # "cp" /\ "lb" # "worker" /\ "cp" # "worker" /\ "vip" \notin Roles
  BY DEF IsPreferences, Roles
<1>5. /\ \A k, l \in Roles \union {"vip"} : k # l => Span(p.ips[k]) \intersect Span(p.ips[l]) = {}
      /\ \A k, l \in Roles : k # l => Span(p.ids[k]) \intersect Span(p.ids[l]) = {}
  BY PoolsOf
<1> HIDE DEF ips0, ids0
<1>6. Free(p.ips["vip"], 1, ips0) # {} /\ vip \in Int /\ vip \in Span(p.ips["vip"])
  <2>1. Free(p.ips["vip"], 1, ips0) # {} /\ vip \in Int /\ Block(vip, 1) \subseteq Span(p.ips["vip"])
    BY <1>2, <1>4, RoomIsLeft
  <2> HIDE DEF vip
  <2>2. vip \in Block(vip, 1)
    BY <2>1 DEF Block
  <2> QED BY <2>1, <2>2
<1> HIDE DEF vip
<1>7. Free(p.ips["lb"], count["lb"], ipsV) # {} /\ lbIp \in Int /\ lbIps \subseteq Span(p.ips["lb"])
  <2>1. \A a \in Span(p.ips["lb"]) : a \in ipsV => a \in ips
    BY <1>2, <1>4, <1>5, <1>6
  <2> QED BY <1>4, <2>1, RoomIsLeft
<1>8. Free(p.ids["lb"], count["lb"], ids0) # {} /\ lbId \in Int /\ lbIds \subseteq Span(p.ids["lb"])
  BY <1>3, <1>4, RoomIsLeft
<1> HIDE DEF lbIp, lbId, lbIps, lbIds
<1>9. Free(p.ips["cp"], count["cp"], ips1) # {} /\ cpIp \in Int /\ cpIps \subseteq Span(p.ips["cp"])
  <2>1. \A a \in Span(p.ips["cp"]) : a \in ips1 => a \in ips
    BY <1>2, <1>4, <1>5, <1>6, <1>7
  <2> QED BY <1>4, <2>1, RoomIsLeft
<1>10. Free(p.ids["cp"], count["cp"], ids1) # {} /\ cpId \in Int /\ cpIds \subseteq Span(p.ids["cp"])
  <2>1. \A i \in Span(p.ids["cp"]) : i \in ids1 => i \in ids
    BY <1>3, <1>4, <1>5, <1>8
  <2> QED BY <1>4, <2>1, RoomIsLeft
<1> HIDE DEF cpIp, cpId, cpIps, cpIds
<1>11. Free(p.ips["worker"], count["worker"], ips2) # {} /\ workerIp \in Int
  <2>1. \A a \in Span(p.ips["worker"]) : a \in ips2 => a \in ips
    BY <1>2, <1>4, <1>5, <1>6, <1>7, <1>9
  <2> QED BY <1>4, <2>1, RoomIsLeft
<1>12. Free(p.ids["worker"], count["worker"], ids2) # {} /\ workerId \in Int
  <2>1. \A i \in Span(p.ids["worker"]) : i \in ids2 => i \in ids
    BY <1>3, <1>4, <1>5, <1>8, <1>10
  <2> QED BY <1>4, <2>1, RoomIsLeft
<1>13. ~full
  BY <1>6, <1>7, <1>8, <1>9, <1>10, <1>11, <1>12
<1> HIDE DEF workerIp, workerId, full
<1>14. ip \in [Roles -> Int] /\ id \in [Roles -> Int]
  BY <1>7, <1>8, <1>9, <1>10, <1>11, <1>12 DEF Roles
<1> HIDE DEF ip, id
<1>15. s \in [vip : Int, ip : [Roles -> Int], id : [Roles -> Int], count : [Roles -> Nat]]
  <2>1. s = [vip |-> vip, ip |-> ip, id |-> id, count |-> count]
    BY <1>1, <1>13
  <2> HIDE DEF s
  <2> QED BY <1>4, <1>6, <1>14, <2>1
<1> HIDE DEF s
<1>16. s # None
  BY <1>15, SuggestionAssumption
<1> QED BY <1>16 DEF s

(* A suggestion is made whenever every pool has a free block for its role.   *)
THEOREM RoomSuffices == Spec => []RoomIsSuggested
<1>1. ASSUME TypeOK PROVE RoomIsSuggested
  <2>1. PICK p : p = Effective(preference)
    OBVIOUS
  <2>2. PICK ips, ids : /\ ips = UsedIps(row, None) \union ParseReserved(p)
                        /\ ids = UsedIds(row, None) \union AllIds
    OBVIOUS
  <2> SUFFICES ASSUME Free(p.ips["vip"], 1, ips) # {},
                      \A k \in Roles : Free(p.ips[k], p.count[k], ips) # {} /\ Free(p.ids[k], p.count[k], ids) # {}
               PROVE Suggested(None, AllIds) # {}
    BY <2>1, <2>2 DEF RoomIsSuggested
  <2>3. IsPreferences(p) /\ ValidPreferences(p)
    BY <1>1, <2>1, SettingsInForce
  <2>4. Suggestion(row, preference, p.count, None, AllIds) # None
    BY <2>1, <2>2, <2>3, RoomForSuggestion
  <2>5. PICK f : f \in Forms
    BY ConstantsAssumption
  <2>6. PICK s : s = Suggestion(row, preference, p.count, None, AllIds)
    OBVIOUS
  <2>7. PICK d : d = [f EXCEPT !.network = p.network, !.gateway = p.gateway, !.count = p.count]
    OBVIOUS
  <2>8. d \in Configurations /\ d.count = p.count /\ d \in Drafts(None)
    <3>1. f \in Configurations
      BY <2>5, ConstantsAssumption
    <3>2. p.network \in Spans /\ p.gateway \in Int /\ p.count \in [Roles -> Nat]
      BY <2>3 DEF IsPreferences
    <3>3. d \in Configurations /\ d.count = p.count
      BY <2>7, <3>1, <3>2 DEF Configurations
    <3>4. d \in Drafts(None)
      BY <2>1, <2>5, <2>7 DEF Drafts
    <3> QED BY <3>3, <3>4
  <2>9. [d EXCEPT !.vip = s.vip, !.ip = s.ip, !.id = s.id] # None
    <3>1. s \in SuggestedShapes
      <4>1. p.count \in [Roles -> Nat]
        BY <2>3 DEF IsPreferences
      <4> QED BY <2>1, <2>3, <2>4, <2>6, <4>1, SuggestedBlocks
    <3>2. [d EXCEPT !.vip = s.vip, !.ip = s.ip, !.id = s.id] \in Configurations
      BY <2>8, <3>1 DEF Configurations, SuggestedShapes
    <3> QED BY <3>2, ConstantsAssumption
  <2>10. [d EXCEPT !.vip = s.vip, !.ip = s.ip, !.id = s.id] \in Suggested(None, AllIds)
    BY <2>4, <2>6, <2>8, <2>9 DEF Suggested
  <2> QED BY <2>10
<1> QED BY <1>1, ReservationsTyped, PTL
=============================================================================
