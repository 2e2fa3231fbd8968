------------------------ MODULE ManifestRevisionsProofs ------------------------
(***************************************************************************)
(* What is proved of ManifestRevisions: its types, and its three           *)
(* properties.  They hold together or not at all: a job deploys what was   *)
(* queued because the revision it names is the newest when the job is      *)
(* queued, and that revision is right because no other revision can have   *)
(* been committed since its version was chosen.                            *)
(***************************************************************************)
EXTENDS ManifestRevisions, FiniteSetTheorems, TLAPS

-----------------------------------------------------------------------------
(* The inductive invariant: what each transaction may rely on, what keeps    *)
(* two of them apart, and what the tables hold.                              *)

Editing == {"create", "save", "delete", "restore"}

(* What a transaction holds, by what it does and how far it is.              *)
TransactionOK(t) ==
  /\ t.pc = "idle" => t = Idle
  /\ t.pc = "flush" => t.op \in Editing /\ t.writes = NoWrites
  /\ t.pc \in {"max", "snapshot", "insert", "commit"} => t.op \in Editing \union {"start"}
  /\ t.pc = "payloads" => t.op = "prune"
  /\ t.pc = "erase" => t.op \in {"prune", "drop"}
  /\ t.op \in {"create", "save", "delete"} => t.path \in Paths
  /\ t.op \in {"create", "save"} => t.content \in Contents
  /\ t.op \in {"save", "delete", "restore"} => t.loaded \in [Paths -> Rows \union {None}]
  /\ t.op = "restore" => t.target \in Snapshots
  /\ t.op \in {"start", "prune", "drop", "none"} => t.writes = NoWrites
  /\ t.pc \in {"insert", "commit"} => t.snapshot \in Snapshots

(* No id and no version a transaction has read is above the count of ids.    *)
ReadIsIssued(t) == t.max <= issued /\ \A i \in t.list : i <= issued

(* The row that a save updates stays.                                        *)
SavedRowStays(t) == t.op = "save" => \A p \in DOMAIN t.writes : files[p] # None

(* The version of an inserted revision is no other revision's, and its       *)
(* application stays.                                                        *)
VersionIsFree(t) ==
  t.pc = "commit" => bundle = "live" /\ \A i \in DOMAIN revisions : revisions[i].version # t.max + 1

(* The highest version a transaction has read has not been undercut.         *)
MaxIsReached(t) ==
  bundle = "live" /\ t.pc \in {"snapshot", "insert", "commit"} =>
    \E i \in DOMAIN revisions : revisions[i].version >= t.max

(* As long as no version above the one it has read appears, what a           *)
(* transaction has written down as the files is what it will leave there.    *)
SnapshotIsFresh(t) ==
  /\ bundle = "live" /\ "late" \notin overtaken
  /\ t.pc \in {"insert", "commit"} /\ t.op \in {"create", "save", "start"}
  /\ \A i \in DOMAIN revisions : revisions[i].version <= t.max
  => t.snapshot = View(t)

(* A pruning that is about to erase has seen the job of every revision on    *)
(* its list.                                                                 *)
PruningSeesJobs(t) ==
  t.op = "prune" /\ t.pc = "erase" =>
    \A j \in DOMAIN jobs : jobs[j].revision \in t.list => jobs[j].revision \in t.refs

Stands(t) ==
  /\ TransactionOK(t) /\ ReadIsIssued(t) /\ SavedRowStays(t) /\ VersionIsFree(t)
  /\ MaxIsReached(t) /\ SnapshotIsFresh(t) /\ PruningSeesJobs(t)

(* Two transactions write neither the same row nor the same version.         *)
Apart(t, u) ==
  /\ DOMAIN t.writes \intersect DOMAIN u.writes = {}
  /\ t.pc = "commit" /\ u.pc = "commit" => t.max # u.max

TransactionsInv ==
  /\ \A r \in Requests : Stands(tx[r])
  /\ \A r \in Requests : \A q \in Requests \ {r} : Apart(tx[r], tx[q])

(* Before the application is created nothing has happened; while it lives    *)
(* it has a revision.                                                        *)
LifeInv ==
  /\ bundle = "none" =>
       /\ issued = 0 /\ DOMAIN revisions = {} /\ DOMAIN jobs = {}
       /\ \A r \in Requests : tx[r] = Idle
  /\ bundle = "live" => DOMAIN revisions # {}

IssuedInv ==
  /\ \A i \in DOMAIN revisions : i <= issued /\ revisions[i].version <= issued
  /\ \A j \in DOMAIN jobs : jobs[j].revision <= issued

(* The revision a job names holds what the job wants.                        *)
JobsHaveTheirRevision ==
  "late" \notin overtaken =>
    \A j \in DOMAIN jobs : jobs[j].revision \in DOMAIN revisions =>
      revisions[jobs[j].revision].snapshot = jobs[j].wanted

TablesInv ==
  /\ LifeInv /\ IssuedInv /\ JobsHaveTheirRevision
  /\ NewestRevisionIsCurrent /\ DeploysWhatWasQueued

RevisionsInv == TypeOK /\ TransactionsInv /\ TablesInv

-----------------------------------------------------------------------------
(* The data.                                                                 *)

(* A nonempty set of numbers below a bound has a greatest one: otherwise     *)
(* the numbers below its elements could be shifted up by one, into one       *)
(* number less.                                                              *)
LEMMA GreatestExists ==
  ASSUME NEW n \in Nat, NEW V \in SUBSET (1 .. n), V # {}
  PROVE  \E v \in V : \A w \in V : w <= v
<1> SUFFICES ASSUME \A v \in V : \E w \in V : w > v PROVE FALSE
  OBVIOUS
<1> DEFINE U == {k \in 1 .. n : \E v \in V : v >= k}
           f == [k \in U |-> k + 1]
<1>1. 1 \in U
  <2>1. PICK v \in V : TRUE
    OBVIOUS
  <2>2. v \in 1 .. n
    OBVIOUS
  <2> QED BY <2>1, <2>2
<1>2. \A k \in U : k + 1 \in U \ {1}
  <2> TAKE k \in U
  <2>1. PICK v \in V : v >= k
    OBVIOUS
  <2>2. PICK w \in V : w > v
    OBVIOUS
  <2> QED BY <2>1, <2>2
<1>3. f \in [U -> U \ {1}]
  BY <1>2
<1>4. IsFiniteSet(U)
  <2>1. IsFiniteSet(1 .. n)
    BY FS_Interval
  <2>2. U \in SUBSET (1 .. n)
    OBVIOUS
  <2> QED BY <2>1, <2>2, FS_Subset
<1>5. IsFiniteSet(U \ {1}) /\ Cardinality(U \ {1}) = Cardinality(U) - 1 /\ Cardinality(U) \in Nat
  BY <1>1, <1>4, FS_RemoveElement, FS_CardinalityType
<1>6. \E x, y \in U : x # y /\ f[x] = f[y]
  <2> HIDE DEF U, f
  <2>1. Cardinality(U \ {1}) < Cardinality(U)
    BY <1>5
  <2> QED BY <1>3, <1>4, <1>5, <2>1, FS_PigeonHole
<1> QED BY <1>6

(* Of the revisions in a set, one has a version that none exceeds.           *)
LEMMA SomeIsNewest ==
  ASSUME TypeOK, NEW S \in SUBSET DOMAIN revisions, S # {}
  PROVE  \E i \in S : \A k \in S : revisions[k].version <= revisions[i].version
<1> DEFINE V == {revisions[i].version : i \in S}
<1>1. V \in SUBSET (1 .. MaxRevisions) /\ V # {}
  BY DEF TypeOK, Revisions, RevisionIds
<1>2. PICK v \in V : \A w \in V : w <= v
  BY <1>1, GreatestExists, ConstantsAssumption
<1> QED BY <1>2

(* The writes of a transaction.                                              *)
LEMMA WritesOf ==
  ASSUME NEW t \in Transactions
  PROVE  /\ DOMAIN t.writes \subseteq Paths
         /\ \A p \in DOMAIN t.writes : t.writes[p] \in Contents \union {None}
         /\ t.writes = [p \in DOMAIN t.writes |-> t.writes[p]]
BY DEF Transactions

LEMMA WritesFit ==
  ASSUME NEW D \in SUBSET Paths, NEW f \in [D -> Contents \union {None}]
  PROVE  f \in UNION {[E -> Contents \union {None}] : E \in SUBSET Paths}
OBVIOUS

(* What a set of rows holds.                                                 *)
LEMMA ContentOf ==
  ASSUME NEW rows \in [Paths -> Rows \union {None}]
  PROVE  Content(rows) \in Snapshots
BY DEF Content, Rows, Snapshots

LEMMA IdleFits == Idle \in Transactions /\ NoWrites = [p \in {} |-> None] /\ DOMAIN NoWrites = {}
<1>1. NoWrites \in [{} -> Contents \union {None}] /\ DOMAIN NoWrites = {}
  BY DEF NoWrites
<1>2. NoWrites \in UNION {[E -> Contents \union {None}] : E \in SUBSET Paths}
  BY <1>1, WritesFit
<1>3. 0 \in 0 .. MaxRevisions
  BY ConstantsAssumption
<1>4. Idle \in Transactions
  BY <1>2, <1>3 DEF Idle, Transactions
<1> QED BY <1>1, <1>4 DEF NoWrites

-----------------------------------------------------------------------------
(* Steps that change one transaction only.                                   *)

(* Whatever stands still stands when no table changes.                       *)
LEMMA StandsOn ==
  ASSUME NEW t, Stands(t), UNCHANGED <<tables, history>>
  PROVE  Stands(t)'
<1> DEFINE u == t
<1> USE DEF tables, history
<1>1. TransactionOK(t)' /\ ReadIsIssued(t)' /\ SavedRowStays(t)' /\ VersionIsFree(t)'
  BY DEF Stands, TransactionOK, ReadIsIssued, SavedRowStays, VersionIsFree
<1>2. MaxIsReached(t)' /\ PruningSeesJobs(t)'
  BY DEF Stands, MaxIsReached, PruningSeesJobs
<1>3. SnapshotIsFresh(t)'
  BY DEF Stands, SnapshotIsFresh, View, Content
<1> QED BY <1>1, <1>2, <1>3 DEF Stands

LEMMA MoveKeeps ==
  ASSUME RevisionsInv, NEW r \in Requests, NEW t \in Transactions,
         bundle # "none" \/ t = Idle,
         Stands(t), \A q \in Requests \ {r} : Apart(tx[q], t),
         tx' = [tx EXCEPT ![r] = t], UNCHANGED <<tables, history>>
  PROVE  RevisionsInv'
<1>1. \A q \in Requests : tx'[q] = IF q = r THEN t ELSE tx[q]
  BY DEF RevisionsInv, TypeOK
<1>2. TypeOK'
  BY DEF RevisionsInv, TypeOK, tables, history
<1>3. ASSUME NEW q \in Requests PROVE Stands(tx[q])'
  <2>1. PICK u : u = tx'[q]
    OBVIOUS
  <2>2. Stands(u)
    BY <1>1, <2>1 DEF RevisionsInv, TransactionsInv
  <2>3. Stands(u)'
    BY <2>2, StandsOn
  <2> QED BY <2>1, <2>3
<1>4. ASSUME NEW p \in Requests, NEW q \in Requests \ {p} PROVE Apart(tx[p], tx[q])'
  <2>1. Apart(tx[p], tx[q]) /\ Apart(tx[q], tx[p])
    BY DEF RevisionsInv, TransactionsInv
  <2> QED BY <1>1, <2>1 DEF Apart
<1>5. TablesInv'
  <2>1. LifeInv'
    BY <1>1 DEF RevisionsInv, TablesInv, LifeInv, tables
  <2>2. IssuedInv' /\ JobsHaveTheirRevision' /\ DeploysWhatWasQueued'
    BY DEF RevisionsInv, TablesInv, IssuedInv, JobsHaveTheirRevision, DeploysWhatWasQueued,
           ActiveJobs, tables, history
  <2>3. NewestRevisionIsCurrent'
    BY DEF RevisionsInv, TablesInv, NewestRevisionIsCurrent, IsNewest, Content, tables, history
  <2> QED BY <2>1, <2>2, <2>3 DEF TablesInv
<1> QED BY <1>2, <1>3, <1>4, <1>5 DEF RevisionsInv, TransactionsInv

(* A transaction that has written nothing and read no version stands.        *)
LEMMA FreshStands ==
  ASSUME RevisionsInv, NEW t \in Transactions, TransactionOK(t),
         t.pc \in {"idle", "flush", "max", "payloads", "erase"}, t.pc = "erase" => t.op = "drop",
         t.writes = NoWrites, t.max = 0, \A i \in t.list : i <= issued
  PROVE  Stands(t) /\ \A u : Apart(u, t)
<1>1. issued \in Nat
  BY ConstantsAssumption DEF RevisionsInv, TypeOK
<1>2. DOMAIN NoWrites = {}
  BY IdleFits
<1>3. ReadIsIssued(t) /\ SavedRowStays(t) /\ VersionIsFree(t) /\ MaxIsReached(t)
  BY <1>1, <1>2 DEF ReadIsIssued, SavedRowStays, VersionIsFree, MaxIsReached
<1>4. SnapshotIsFresh(t) /\ PruningSeesJobs(t)
  BY DEF SnapshotIsFresh, PruningSeesJobs
<1> QED BY <1>2, <1>3, <1>4 DEF Stands, Apart

LEMMA BeginKeeps ==
  ASSUME RevisionsInv, NEW r \in Requests, NEW t \in Transactions, Begin(r, t), TransactionOK(t),
         t.pc \in {"flush", "max", "payloads", "erase"}, t.pc = "erase" => t.op = "drop",
         t.writes = NoWrites, t.max = 0, \A i \in t.list : i <= issued
  PROVE  RevisionsInv'
<1>1. Stands(t) /\ \A u : Apart(u, t)
  BY FreshStands
<1>2. tx' = [tx EXCEPT ![r] = t] /\ UNCHANGED <<tables, history>> /\ bundle # "none"
  BY DEF Begin
<1> QED BY <1>1, <1>2, MoveKeeps

LEMMA RollbackKeeps ==
  ASSUME RevisionsInv, NEW r \in Requests, Rollback(r)
  PROVE  RevisionsInv'
<1>1. Idle \in Transactions /\ TransactionOK(Idle)
  BY IdleFits DEF TransactionOK, Idle, Editing
<1>2. Stands(Idle) /\ \A u : Apart(u, Idle)
  BY <1>1, FreshStands DEF Idle
<1> QED BY <1>1, <1>2, MoveKeeps DEF Rollback

(* A file, read as a row, is one.                                            *)
LEMMA LoadedFits ==
  ASSUME RevisionsInv
  PROVE  /\ files \in [Paths -> Rows \union {None}]
         /\ \A i \in DOMAIN revisions : revisions[i].snapshot \in Snapshots /\ i \in RevisionIds /\ i <= issued
BY DEF RevisionsInv, TablesInv, IssuedInv, TypeOK, Revisions

LEMMA StartKeeps ==
  ASSUME RevisionsInv, NEW r \in Requests,
         \/ CreateFile(r) \/ SaveFile(r) \/ DeleteFile(r) \/ Restore(r) \/ StartJob(r)
         \/ Prune(r) \/ DeleteApplication(r)
  PROVE  RevisionsInv'
<1> USE LoadedFits, IdleFits
<1>1. CASE CreateFile(r)
  <2>1. PICK p \in Paths :
          Begin(r, [Idle EXCEPT !.op = "create", !.pc = "flush", !.path = p, !.content = Default])
    BY <1>1 DEF CreateFile
  <2> DEFINE t == [Idle EXCEPT !.op = "create", !.pc = "flush", !.path = p, !.content = Default]
  <2>2. t \in Transactions /\ TransactionOK(t)
    BY ConstantsAssumption DEF Transactions, TransactionOK, Idle, Editing
  <2> QED BY <2>1, <2>2, BeginKeeps DEF Idle
<1>2. CASE SaveFile(r)
  <2>1. PICK p \in Paths, c \in Contents :
          Begin(r, [Idle EXCEPT !.op = "save", !.pc = "flush", !.path = p, !.content = c,
                                !.loaded = [q \in Paths |-> IF q = p THEN files[p] ELSE None]])
    BY <1>2 DEF SaveFile
  <2> DEFINE l == [q \in Paths |-> IF q = p THEN files[p] ELSE None]
             t == [Idle EXCEPT !.op = "save", !.pc = "flush", !.path = p, !.content = c, !.loaded = l]
  <2>2. l \in [Paths -> Rows \union {None}]
    OBVIOUS
  <2> HIDE DEF l
  <2>3. t \in Transactions /\ TransactionOK(t)
    BY <2>2 DEF Transactions, TransactionOK, Idle, Editing
  <2> QED BY <2>1, <2>3, BeginKeeps DEF Idle, l
<1>3. CASE DeleteFile(r)
  <2>1. PICK p \in Paths :
          Begin(r, [Idle EXCEPT !.op = "delete", !.pc = "flush", !.path = p, !.loaded = files])
    BY <1>3 DEF DeleteFile
  <2> DEFINE t == [Idle EXCEPT !.op = "delete", !.pc = "flush", !.path = p, !.loaded = files]
  <2>2. t \in Transactions /\ TransactionOK(t)
    BY DEF Transactions, TransactionOK, Idle, Editing
  <2> QED BY <2>1, <2>2, BeginKeeps DEF Idle
<1>4. CASE Restore(r)
  <2>1. PICK i \in DOMAIN revisions :
          Begin(r, [Idle EXCEPT !.op = "restore", !.pc = "flush", !.loaded = files,
                                !.target = revisions[i].snapshot])
    BY <1>4 DEF Restore
  <2> DEFINE t == [Idle EXCEPT !.op = "restore", !.pc = "flush", !.loaded = files,
                               !.target = revisions[i].snapshot]
  <2>2. t \in Transactions /\ TransactionOK(t)
    BY DEF Transactions, TransactionOK, Idle, Editing
  <2> QED BY <2>1, <2>2, BeginKeeps DEF Idle
<1>5. CASE StartJob(r)
  <2> DEFINE t == [Idle EXCEPT !.op = "start", !.pc = "max"]
  <2>1. t \in Transactions /\ TransactionOK(t)
    BY DEF Transactions, TransactionOK, Idle, Editing
  <2> QED BY <1>5, <2>1, BeginKeeps DEF Idle, StartJob
<1>6. CASE Prune(r)
  <2> DEFINE t == [Idle EXCEPT !.op = "prune", !.pc = "payloads", !.list = DOMAIN revisions]
  <2>1. DOMAIN revisions \in SUBSET RevisionIds
    OBVIOUS
  <2>2. t \in Transactions /\ TransactionOK(t)
    BY <2>1 DEF Transactions, TransactionOK, Idle, Editing
  <2> QED BY <1>6, <2>2, BeginKeeps DEF Idle, Prune
<1>7. CASE DeleteApplication(r)
  <2> DEFINE t == [Idle EXCEPT !.op = "drop", !.pc = "erase"]
  <2>1. t \in Transactions /\ TransactionOK(t)
    BY DEF Transactions, TransactionOK, Idle, Editing
  <2> QED BY <1>7, <2>1, BeginKeeps DEF Idle, DeleteApplication
<1> QED BY <1>1, <1>2, <1>3, <1>4, <1>5, <1>6, <1>7

-----------------------------------------------------------------------------
(* The steps of a request up to its commit.                                  *)

(* A transaction that is under way.                                          *)
LEMMA UnderWay ==
  ASSUME RevisionsInv, NEW r \in Requests, tx[r].pc # "idle"
  PROVE  /\ bundle # "none" /\ tx[r] \in Transactions /\ Stands(tx[r])
         /\ \A q \in Requests \ {r} : Apart(tx[q], tx[r])
<1>1. bundle # "none"
  BY DEF RevisionsInv, TablesInv, LifeInv, Idle
<1> QED BY <1>1 DEF RevisionsInv, TypeOK, TransactionsInv

LEMMA FlushedFits ==
  ASSUME NEW t \in Transactions, TransactionOK(t), t.pc = "flush"
  PROVE  /\ FlushedWrites(t) \in UNION {[E -> Contents \union {None}] : E \in SUBSET Paths}
         /\ ~FlushFails(t) /\ t.op = "save" => \A p \in DOMAIN FlushedWrites(t) : files[p] # None
<1>1. t.op \in Editing
  BY DEF TransactionOK
<1>2. CASE t.op = "create"
  <2>1. FlushedWrites(t) = [p \in {t.path} |-> t.content]
    BY <1>2 DEF FlushedWrites
  <2>2. t.path \in Paths /\ t.content \in Contents
    BY <1>2 DEF TransactionOK
  <2> DEFINE f == [p \in {t.path} |-> t.content]
  <2>3. f \in [{t.path} -> Contents \union {None}]
    BY <2>2
  <2> QED BY <1>2, <2>1, <2>2, <2>3, WritesFit
<1>3. CASE t.op = "save"
  <2> DEFINE D == {t.path} \ {q \in {t.path} : t.loaded[q].content = t.content}
  <2>1. FlushedWrites(t) = [p \in D |-> t.content]
    BY <1>3 DEF FlushedWrites
  <2>2. t.path \in Paths /\ t.content \in Contents
    BY <1>3 DEF TransactionOK
  <2>3. [p \in D |-> t.content] \in [D -> Contents \union {None}]
    BY <2>2
  <2>4. FlushedWrites(t) \in UNION {[E -> Contents \union {None}] : E \in SUBSET Paths}
    <3>1. D \in SUBSET Paths
      BY <2>2
    <3> HIDE DEF D
    <3> QED BY <2>1, <2>3, <3>1, WritesFit
  <2>5. ~FlushFails(t) => \A p \in DOMAIN FlushedWrites(t) : files[p] # None
    <3> SUFFICES ASSUME ~FlushFails(t), NEW p \in DOMAIN FlushedWrites(t) PROVE files[p] # None
      OBVIOUS
    <3>1. p = t.path /\ DOMAIN FlushedWrites(t) # {}
      BY <2>1
    <3>2. SameRow(t, t.path)
      BY <1>3, <3>1 DEF FlushFails
    <3> QED BY <3>1, <3>2 DEF SameRow
  <2> QED BY <2>4, <2>5
<1>4. CASE t.op = "delete"
  <2> DEFINE D == {q \in {t.path} : SameRow(t, q)}
  <2>1. FlushedWrites(t) = [p \in D |-> None]
    BY <1>4 DEF FlushedWrites
  <2>2. D \in SUBSET Paths
    BY <1>4 DEF TransactionOK
  <2>3. [p \in D |-> None] \in [D -> Contents \union {None}]
    OBVIOUS
  <2> HIDE DEF D
  <2> QED BY <1>4, <2>1, <2>2, <2>3, WritesFit
<1>5. CASE t.op = "restore"
  <2> DEFINE D == {q \in Paths : SameRow(t, q)} \union Present(t.target)
  <2>1. FlushedWrites(t) = [p \in D |-> t.target[p]]
    BY <1>5 DEF FlushedWrites
  <2>2. D \in SUBSET Paths
    BY DEF Present
  <2>3. t.target \in Snapshots
    BY <1>5 DEF TransactionOK
  <2> HIDE DEF D
  <2>4. [p \in D |-> t.target[p]] \in [D -> Contents \union {None}]
    BY <2>2, <2>3 DEF Snapshots
  <2> QED BY <1>5, <2>1, <2>2, <2>4, WritesFit
<1> QED BY <1>1, <1>2, <1>3, <1>4, <1>5 DEF Editing

LEMMA FlushKeeps ==
  ASSUME RevisionsInv, NEW r \in Requests, Flush(r)
  PROVE  RevisionsInv'
<1>1. CASE FlushFails(tx[r])
  BY <1>1, RollbackKeeps DEF Flush
<1>2. CASE ~FlushFails(tx[r])
  <2> DEFINE w == FlushedWrites(tx[r])
             t == [tx[r] EXCEPT !.pc = "max", !.writes = w]
  <2>1. bundle # "none" /\ tx[r] \in Transactions /\ Stands(tx[r]) /\ tx[r].pc = "flush"
    BY UnderWay DEF Flush
  <2>2. /\ w \in UNION {[E -> Contents \union {None}] : E \in SUBSET Paths}
        /\ tx[r].op = "save" => \A p \in DOMAIN w : files[p] # None
    BY <1>2, <2>1, FlushedFits DEF Stands
  <2>3. \A q \in Requests \ {r} : DOMAIN tx[q].writes \intersect DOMAIN w = {}
    BY DEF Flush, Others
  <2>4. tx' = [tx EXCEPT ![r] = t] /\ UNCHANGED <<tables, history>>
    BY <1>2 DEF Flush, RevisionsInv, TypeOK
  <2> HIDE DEF w
  <2>5. t \in Transactions
    BY <2>1, <2>2 DEF Transactions
  <2>6. TransactionOK(t)
    BY <2>1 DEF Stands, TransactionOK, Transactions, Editing
  <2>7. ReadIsIssued(t) /\ SavedRowStays(t) /\ VersionIsFree(t) /\ MaxIsReached(t)
    BY <2>1, <2>2 DEF Stands, ReadIsIssued, SavedRowStays, VersionIsFree, MaxIsReached, Transactions
  <2>8. SnapshotIsFresh(t) /\ PruningSeesJobs(t)
    BY <2>1 DEF SnapshotIsFresh, PruningSeesJobs, Transactions
  <2>9. \A q \in Requests \ {r} : Apart(tx[q], t)
    BY <2>1, <2>3 DEF Apart, Transactions
  <2> QED BY <2>1, <2>4, <2>5, <2>6, <2>7, <2>8, <2>9, MoveKeeps DEF Stands
<1> QED BY <1>1, <1>2

LEMMA SelectMaxKeeps ==
  ASSUME RevisionsInv, NEW r \in Requests, SelectMax(r)
  PROVE  RevisionsInv'
<1>1. bundle # "none" /\ tx[r] \in Transactions /\ Stands(tx[r]) /\ tx[r].pc = "max"
  BY UnderWay DEF SelectMax
<1>2. PICK v \in 0 .. MaxRevisions :
        /\ \/ v = 0 /\ DOMAIN revisions = {}
           \/ \E i \in DOMAIN revisions : IsNewest(i) /\ v = revisions[i].version
        /\ tx' = [tx EXCEPT ![r].pc = "snapshot", ![r].max = v]
  BY DEF SelectMax
<1> DEFINE t == [tx[r] EXCEPT !.pc = "snapshot", !.max = v]
<1>3. tx' = [tx EXCEPT ![r] = t] /\ UNCHANGED <<tables, history>>
  BY <1>2 DEF SelectMax, RevisionsInv, TypeOK
<1>4. /\ v <= issued
      /\ bundle = "live" => \E i \in DOMAIN revisions : revisions[i].version >= v
  <2>1. \A i \in DOMAIN revisions : revisions[i].version \in Nat /\ revisions[i].version <= issued
    BY DEF RevisionsInv, TypeOK, Revisions, RevisionIds, TablesInv, IssuedInv
  <2>2. bundle = "live" => DOMAIN revisions # {}
    BY DEF RevisionsInv, TablesInv, LifeInv
  <2>3. issued \in Nat
    BY ConstantsAssumption DEF RevisionsInv, TypeOK
  <2> QED BY <1>2, <2>1, <2>2, <2>3
<1>5. t \in Transactions
  BY <1>1 DEF Transactions
<1>6. TransactionOK(t)
  BY <1>1 DEF Stands, TransactionOK, Transactions, Editing
<1>7. ReadIsIssued(t) /\ SavedRowStays(t) /\ VersionIsFree(t) /\ MaxIsReached(t)
  BY <1>1, <1>4 DEF Stands, ReadIsIssued, SavedRowStays, VersionIsFree, MaxIsReached, Transactions
<1>8. SnapshotIsFresh(t) /\ PruningSeesJobs(t)
  BY <1>1 DEF SnapshotIsFresh, PruningSeesJobs, Transactions
<1>9. \A q \in Requests \ {r} : Apart(tx[q], t)
  <2>1. t.writes = tx[r].writes /\ t.pc # "commit"
    BY <1>1 DEF Transactions
  <2>2. tx[r].pc # "idle"
    BY <1>1
  <2> QED BY <2>1, <2>2, UnderWay DEF Apart
<1> QED BY <1>1, <1>3, <1>5, <1>6, <1>7, <1>8, <1>9, MoveKeeps DEF Stands

LEMMA ViewOf ==
  ASSUME RevisionsInv, NEW t \in Transactions
  PROVE  View(t) \in Snapshots
<1>1. Content(files) \in Snapshots
  BY ContentOf DEF RevisionsInv, TypeOK
<1>2. \A p \in DOMAIN t.writes : t.writes[p] \in Contents \union {None}
  BY WritesOf
<1> QED BY <1>1, <1>2 DEF View, Snapshots

LEMMA SnapshotBundleKeeps ==
  ASSUME RevisionsInv, NEW r \in Requests, SnapshotBundle(r)
  PROVE  RevisionsInv'
<1>1. bundle # "none" /\ tx[r] \in Transactions /\ Stands(tx[r]) /\ tx[r].pc = "snapshot"
  BY UnderWay DEF SnapshotBundle
<1> DEFINE s == CASE tx[r].op = "delete" -> [Content(tx[r].loaded) EXCEPT ![tx[r].path] = None]
                  [] tx[r].op = "restore" -> tx[r].target
                  [] OTHER -> View(tx[r])
           t == [tx[r] EXCEPT !.pc = "insert", !.snapshot = s]
<1>2. tx' = [tx EXCEPT ![r] = t] /\ UNCHANGED <<tables, history>>
  BY DEF SnapshotBundle, RevisionsInv, TypeOK
<1>3. s \in Snapshots
  <2>1. CASE tx[r].op = "delete"
    <3>1. Content(tx[r].loaded) \in Snapshots /\ tx[r].path \in Paths
      BY <1>1, <2>1, ContentOf DEF Stands, TransactionOK
    <3>2. s = [Content(tx[r].loaded) EXCEPT ![tx[r].path] = None]
      BY <2>1
    <3> HIDE DEF s
    <3> QED BY <3>1, <3>2 DEF Snapshots
  <2>2. CASE tx[r].op = "restore"
    BY <1>1, <2>2 DEF Stands, TransactionOK
  <2>3. CASE tx[r].op \notin {"delete", "restore"}
    BY <1>1, <2>3, ViewOf
  <2> QED BY <2>1, <2>2, <2>3
<1>4. tx[r].op \in {"create", "save", "start"} => s = View(tx[r])
  OBVIOUS
<1> HIDE DEF s
<1>5. t \in Transactions
  BY <1>1, <1>3 DEF Transactions
<1>6. TransactionOK(t)
  BY <1>1, <1>3 DEF Stands, TransactionOK, Transactions, Editing
<1>7. ReadIsIssued(t) /\ SavedRowStays(t) /\ VersionIsFree(t) /\ MaxIsReached(t)
  BY <1>1 DEF Stands, ReadIsIssued, SavedRowStays, VersionIsFree, MaxIsReached, Transactions
<1>8. SnapshotIsFresh(t) /\ PruningSeesJobs(t)
  <2>1. View(t) = View(tx[r]) /\ t.snapshot = s /\ t.op = tx[r].op /\ t.pc = "insert"
    BY <1>1 DEF View, Transactions
  <2> QED BY <1>4, <2>1 DEF SnapshotIsFresh, PruningSeesJobs
<1>9. \A q \in Requests \ {r} : Apart(tx[q], t)
  <2>1. t.writes = tx[r].writes /\ t.pc # "commit"
    BY <1>1 DEF Transactions
  <2>2. tx[r].pc # "idle"
    BY <1>1
  <2> QED BY <2>1, <2>2, UnderWay DEF Apart
<1> QED BY <1>1, <1>2, <1>5, <1>6, <1>7, <1>8, <1>9, MoveKeeps DEF Stands

LEMMA InsertRevisionKeeps ==
  ASSUME RevisionsInv, NEW r \in Requests, InsertRevision(r)
  PROVE  RevisionsInv'
<1> DEFINE free == bundle = "live" /\ \A i \in DOMAIN revisions : revisions[i].version # tx[r].max + 1
<1>1. CASE ~free
  BY <1>1, RollbackKeeps DEF InsertRevision
<1>2. CASE free
  <2> DEFINE t == [tx[r] EXCEPT !.pc = "commit"]
  <2>1. bundle # "none" /\ tx[r] \in Transactions /\ Stands(tx[r]) /\ tx[r].pc = "insert"
    BY UnderWay DEF InsertRevision
  <2>2. tx' = [tx EXCEPT ![r] = t] /\ UNCHANGED <<tables, history>>
    BY <1>2 DEF InsertRevision, Move, RevisionsInv, TypeOK
  <2>3. t \in Transactions
    BY <2>1 DEF Transactions
  <2>4. TransactionOK(t)
    BY <2>1 DEF Stands, TransactionOK, Transactions, Editing
  <2>5. ReadIsIssued(t) /\ SavedRowStays(t) /\ VersionIsFree(t) /\ MaxIsReached(t)
    BY <1>2, <2>1 DEF Stands, ReadIsIssued, SavedRowStays, VersionIsFree, MaxIsReached, Transactions
  <2>6. SnapshotIsFresh(t) /\ PruningSeesJobs(t)
    <3>1. View(t) = View(tx[r]) /\ t.snapshot = tx[r].snapshot /\ t.max = tx[r].max /\ t.op = tx[r].op
      BY <2>1 DEF View, Transactions
    <3>2. SnapshotIsFresh(t)
      BY <2>1, <3>1 DEF Stands, SnapshotIsFresh
    <3> QED BY <2>1, <3>2 DEF PruningSeesJobs, Transactions
  <2>7. ASSUME NEW q \in Requests \ {r} PROVE Apart(tx[q], t)
    <3>1. t.writes = tx[r].writes /\ t.max = tx[r].max
      BY <2>1 DEF Transactions
    <3>2. DOMAIN tx[q].writes \intersect DOMAIN tx[r].writes = {}
      BY <2>1, UnderWay DEF Apart
    <3>3. tx[q].pc = "commit" => tx[q].max # tx[r].max
      BY DEF InsertRevision, Others, HoldsVersion
    <3> QED BY <3>1, <3>2, <3>3 DEF Apart
  <2> QED BY <2>1, <2>2, <2>3, <2>4, <2>5, <2>6, <2>7, MoveKeeps DEF Stands
<1> QED BY <1>1, <1>2

LEMMA ReadPayloadsKeeps ==
  ASSUME RevisionsInv, NEW r \in Requests, ReadPayloads(r)
  PROVE  RevisionsInv'
<1> DEFINE refs == {jobs[j].revision : j \in DOMAIN jobs}
           t == [tx[r] EXCEPT !.pc = "erase", !.refs = refs]
<1>1. bundle # "none" /\ tx[r] \in Transactions /\ Stands(tx[r]) /\ tx[r].pc = "payloads"
  BY UnderWay DEF ReadPayloads
<1>2. tx' = [tx EXCEPT ![r] = t] /\ UNCHANGED <<tables, history>>
  BY DEF ReadPayloads, RevisionsInv, TypeOK
<1>3. refs \subseteq RevisionIds /\ \A j \in DOMAIN jobs : jobs[j].revision \in refs
  BY DEF RevisionsInv, TypeOK, Jobs
<1> HIDE DEF refs
<1>4. t \in Transactions
  BY <1>1, <1>3 DEF Transactions
<1>5. TransactionOK(t)
  BY <1>1 DEF Stands, TransactionOK, Transactions, Editing
<1>6. ReadIsIssued(t) /\ SavedRowStays(t) /\ VersionIsFree(t) /\ MaxIsReached(t)
  BY <1>1 DEF Stands, ReadIsIssued, SavedRowStays, VersionIsFree, MaxIsReached, Transactions
<1>7. SnapshotIsFresh(t) /\ PruningSeesJobs(t)
  BY <1>1, <1>3 DEF SnapshotIsFresh, PruningSeesJobs, Transactions
<1>8. \A q \in Requests \ {r} : Apart(tx[q], t)
  <2>1. t.writes = tx[r].writes /\ t.pc # "commit"
    BY <1>1 DEF Transactions
  <2>2. tx[r].pc # "idle"
    BY <1>1
  <2> QED BY <2>1, <2>2, UnderWay DEF Apart
<1> QED BY <1>1, <1>2, <1>4, <1>5, <1>6, <1>7, <1>8, MoveKeeps DEF Stands

-----------------------------------------------------------------------------
(* The steps of the worker.                                                  *)

LEMMA JobsKeep ==
  ASSUME RevisionsInv, UNCHANGED <<bundle, files, revisions, issued, queued, tx, history>>,
         DOMAIN jobs' \subseteq DOMAIN jobs, jobs' \in [DOMAIN jobs' -> Jobs],
         \A k \in DOMAIN jobs' :
           /\ jobs'[k].revision = jobs[k].revision /\ jobs'[k].wanted = jobs[k].wanted
           /\ jobs'[k].status # "FINAL" => jobs[k].status # "FINAL"
           /\ "late" \notin overtaken => jobs'[k].deploys \in {None, jobs[k].wanted}
  PROVE  RevisionsInv'
<1> USE DEF history
<1>1. TypeOK'
  BY DEF RevisionsInv, TypeOK
<1>2. ASSUME NEW r \in Requests PROVE Stands(tx[r])'
  <2>1. Stands(tx[r])
    BY DEF RevisionsInv, TransactionsInv
  <2>2. TransactionOK(tx[r])' /\ ReadIsIssued(tx[r])' /\ SavedRowStays(tx[r])' /\ VersionIsFree(tx[r])'
    BY <2>1 DEF Stands, TransactionOK, ReadIsIssued, SavedRowStays, VersionIsFree
  <2>3. MaxIsReached(tx[r])' /\ PruningSeesJobs(tx[r])'
    BY <2>1 DEF Stands, MaxIsReached, PruningSeesJobs
  <2>4. SnapshotIsFresh(tx[r])'
    BY <2>1 DEF Stands, SnapshotIsFresh, View, Content
  <2> QED BY <2>2, <2>3, <2>4 DEF Stands
<1>3. ASSUME NEW p \in Requests, NEW q \in Requests \ {p} PROVE Apart(tx[p], tx[q])'
  BY DEF RevisionsInv, TransactionsInv, Apart
<1>4. LifeInv' /\ IssuedInv' /\ JobsHaveTheirRevision'
  BY DEF RevisionsInv, TablesInv, LifeInv, IssuedInv, JobsHaveTheirRevision
<1>5. NewestRevisionIsCurrent'
  BY DEF RevisionsInv, TablesInv, NewestRevisionIsCurrent, IsNewest, Content
<1>6. DeploysWhatWasQueued'
  BY DEF RevisionsInv, TablesInv, DeploysWhatWasQueued, ActiveJobs
<1> QED BY <1>1, <1>2, <1>3, <1>4, <1>5, <1>6 DEF RevisionsInv, TransactionsInv, TablesInv

LEMMA JobKeeps ==
  ASSUME RevisionsInv, NEW j \in DOMAIN jobs, Job(j)
  PROVE  RevisionsInv'
<1>1. /\ \A k \in DOMAIN jobs : jobs[k] \in Jobs
      /\ jobs = [k \in DOMAIN jobs |-> jobs[k]]
      /\ "late" \notin overtaken => \A k \in DOMAIN jobs : jobs[k].deploys \in {None, jobs[k].wanted}
  BY DEF RevisionsInv, TypeOK, TablesInv, DeploysWhatWasQueued
<1>2. CASE Claim(j)
  <2> DEFINE job == [jobs[j] EXCEPT !.status = "RUNNING"]
  <2>1. jobs' = [jobs EXCEPT ![j] = job] /\ jobs[j].status = "QUEUED"
    BY <1>2 DEF Claim
  <2>2. /\ job \in Jobs /\ job.revision = jobs[j].revision /\ job.wanted = jobs[j].wanted
        /\ job.deploys = jobs[j].deploys
    BY <1>1 DEF Jobs
  <2> HIDE DEF job
  <2>3. DOMAIN jobs' = DOMAIN jobs /\ \A k \in DOMAIN jobs : jobs'[k] = IF k = j THEN job ELSE jobs[k]
    BY <2>1, <1>1
  <2>4. jobs' \in [DOMAIN jobs' -> Jobs]
    BY <1>1, <2>1, <2>2
  <2> QED BY <1>1, <1>2, <2>1, <2>2, <2>3, <2>4, JobsKeep DEF Claim
<1>3. CASE LookUp(j) /\ jobs[j].revision \in DOMAIN revisions
  <2> DEFINE job == [jobs[j] EXCEPT !.deploys = revisions[jobs[j].revision].snapshot]
  <2>1. jobs' = [jobs EXCEPT ![j] = job] /\ jobs[j].status = "RUNNING"
    BY <1>3 DEF LookUp
  <2>2. "late" \notin overtaken => revisions[jobs[j].revision].snapshot = jobs[j].wanted
    BY <1>3 DEF RevisionsInv, TablesInv, JobsHaveTheirRevision
  <2>3. revisions[jobs[j].revision].snapshot \in Snapshots
    BY <1>3, LoadedFits
  <2>4. /\ job \in Jobs /\ job.revision = jobs[j].revision /\ job.wanted = jobs[j].wanted
        /\ "late" \notin overtaken => job.deploys = jobs[j].wanted
    BY <1>1, <2>2, <2>3 DEF Jobs
  <2> HIDE DEF job
  <2>5. DOMAIN jobs' = DOMAIN jobs /\ \A k \in DOMAIN jobs : jobs'[k] = IF k = j THEN job ELSE jobs[k]
    BY <2>1, <1>1
  <2>6. jobs' \in [DOMAIN jobs' -> Jobs]
    BY <1>1, <2>1, <2>4
  <2> QED BY <1>1, <1>3, <2>1, <2>4, <2>5, <2>6, JobsKeep DEF LookUp
<1>4. CASE Finish(j) \/ (LookUp(j) /\ jobs[j].revision \notin DOMAIN revisions)
  <2> DEFINE job == [jobs[j] EXCEPT !.status = "FINAL"]
  <2>1. /\ jobs' = [jobs EXCEPT ![j] = job]
        /\ UNCHANGED <<bundle, files, revisions, issued, queued, tx, history>>
    BY <1>4 DEF Finish, LookUp
  <2>2. /\ job \in Jobs /\ job.revision = jobs[j].revision /\ job.wanted = jobs[j].wanted
        /\ job.deploys = jobs[j].deploys /\ job.status = "FINAL"
    BY <1>1 DEF Jobs
  <2> HIDE DEF job
  <2>3. DOMAIN jobs' = DOMAIN jobs /\ \A k \in DOMAIN jobs : jobs'[k] = IF k = j THEN job ELSE jobs[k]
    BY <2>1, <1>1
  <2>4. jobs' \in [DOMAIN jobs' -> Jobs]
    BY <1>1, <2>1, <2>2
  <2> QED BY <1>1, <2>1, <2>2, <2>3, <2>4, JobsKeep
<1>5. CASE ForgetJob(j)
  <2>1. jobs' = [k \in DOMAIN jobs \ {j} |-> jobs[k]]
    BY <1>5 DEF ForgetJob
  <2>2. DOMAIN jobs' = DOMAIN jobs \ {j} /\ \A k \in DOMAIN jobs' : jobs'[k] = jobs[k]
    BY <2>1
  <2>3. jobs' \in [DOMAIN jobs' -> Jobs]
    BY <1>1, <2>1
  <2> QED BY <1>1, <1>5, <2>2, <2>3, JobsKeep DEF ForgetJob
<1> QED BY <1>2, <1>3, <1>4, <1>5 DEF Job

-----------------------------------------------------------------------------
(* The creation, and the end, of the application.                            *)

LEMMA CreateApplicationKeeps ==
  ASSUME RevisionsInv, CreateApplication
  PROVE  RevisionsInv'
<1>1. PICK paths \in Templates :
        /\ files' = [p \in Paths |-> IF p \in paths THEN [id |-> 1, content |-> Default] ELSE None]
        /\ revisions' = [i \in {1} |-> [version |-> 1, snapshot |-> Content(files')]]
  BY DEF CreateApplication
<1>2. /\ bundle' = "live" /\ issued' = 1 /\ issued = 0 /\ DOMAIN jobs = {}
      /\ jobs' = jobs /\ UNCHANGED <<queued, tx, history>> /\ issued < MaxRevisions
      /\ \A r \in Requests : tx[r] = Idle
  BY DEF CreateApplication, RevisionsInv, TablesInv, LifeInv
<1>3. 1 \in RevisionIds
  BY <1>2, ConstantsAssumption DEF RevisionIds
<1>4. files' \in [Paths -> Rows \union {None}]
  BY <1>1, <1>3, ConstantsAssumption DEF Rows
<1>5. Content(files') \in Snapshots
  BY <1>4, ContentOf
<1>6. DOMAIN revisions' = {1} /\ revisions'[1] = [version |-> 1, snapshot |-> Content(files')]
  BY <1>1
<1>7. TypeOK'
  <2>1. revisions' \in [DOMAIN revisions' -> Revisions] /\ DOMAIN revisions' \subseteq RevisionIds
    BY <1>1, <1>3, <1>5, <1>6 DEF Revisions
  <2>2. issued' \in 0 .. MaxRevisions
    BY <1>2, ConstantsAssumption
  <2> QED BY <1>2, <1>4, <2>1, <2>2 DEF RevisionsInv, TypeOK, history
<1>8. TransactionsInv'
  <2>1. \A r \in Requests : tx'[r] = Idle
    BY <1>2
  <2>2. Idle.writes = NoWrites /\ DOMAIN NoWrites = {} /\ Idle.pc = "idle" /\ Idle.op = "none"
        /\ Idle.max = 0 /\ Idle.list = {}
    BY IdleFits DEF Idle
  <2>3. ASSUME NEW r \in Requests PROVE Stands(tx[r])'
    BY <1>2, <2>1, <2>2 DEF Stands, TransactionOK, ReadIsIssued, SavedRowStays, VersionIsFree,
         MaxIsReached, SnapshotIsFresh, PruningSeesJobs
  <2>4. ASSUME NEW r \in Requests, NEW q \in Requests \ {r} PROVE Apart(tx[r], tx[q])'
    BY <2>1, <2>2 DEF Apart
  <2> QED BY <2>3, <2>4 DEF TransactionsInv
<1>9. TablesInv'
  <2>1. LifeInv' /\ IssuedInv' /\ JobsHaveTheirRevision'
    BY <1>2, <1>6 DEF LifeInv, IssuedInv, JobsHaveTheirRevision
  <2>2. NewestRevisionIsCurrent'
    <3>1. \A i \in DOMAIN revisions' : revisions'[i].snapshot = Content(files')
      BY <1>6
    <3> QED BY <3>1 DEF NewestRevisionIsCurrent, Content
  <2>3. DeploysWhatWasQueued'
    BY <1>2 DEF DeploysWhatWasQueued, ActiveJobs
  <2> QED BY <2>1, <2>2, <2>3 DEF TablesInv
<1> QED BY <1>7, <1>8, <1>9 DEF RevisionsInv

LEMMA EraseBundleKeeps ==
  ASSUME RevisionsInv, NEW r \in Requests, EraseBundle(r)
  PROVE  RevisionsInv'
<1>1. /\ bundle' = "deleted" /\ files' = [p \in Paths |-> None]
      /\ DOMAIN revisions' = {} /\ UNCHANGED <<issued, queued, outdated>> /\ jobs' = jobs
      /\ overtaken' = IF ActiveJobs # {} THEN overtaken \union {"queued"} ELSE overtaken
  BY DEF EraseBundle
<1>2. \A q \in Requests : tx'[q] = IF q = r THEN Idle ELSE tx[q]
  BY DEF EraseBundle, RevisionsInv, TypeOK
<1>3. /\ Idle \in Transactions /\ Idle.writes = NoWrites /\ DOMAIN NoWrites = {}
      /\ Idle.pc = "idle" /\ Idle.op = "none" /\ Idle.max = 0 /\ Idle.list = {}
  BY IdleFits DEF Idle
<1>4. \A q \in Requests \ {r} : tx[q].pc # "commit" /\ DOMAIN tx[q].writes = {}
  BY DEF EraseBundle, Others, HoldsVersion
<1>5. TypeOK'
  <2>1. revisions' \in [DOMAIN revisions' -> Revisions]
    BY DEF EraseBundle
  <2>2. tx' \in [Requests -> Transactions]
    BY <1>3 DEF EraseBundle, RevisionsInv, TypeOK
  <2>3. files' \in [Paths -> Rows \union {None}]
    BY <1>1
  <2> QED BY <1>1, <2>1, <2>2, <2>3 DEF RevisionsInv, TypeOK
<1>6. issued \in Nat
  BY ConstantsAssumption DEF RevisionsInv, TypeOK
<1>7. ASSUME NEW q \in Requests PROVE Stands(tx[q])'
  <2>1. CASE q = r
    BY <1>1, <1>2, <1>3, <1>6, <2>1 DEF Stands, TransactionOK, ReadIsIssued, SavedRowStays,
         VersionIsFree, MaxIsReached, SnapshotIsFresh, PruningSeesJobs
  <2>2. CASE q # r
    <3>1. Stands(tx[q]) /\ tx'[q] = tx[q] /\ tx[q].pc # "commit" /\ DOMAIN tx[q].writes = {}
      BY <1>2, <1>4, <2>2 DEF RevisionsInv, TransactionsInv
    <3> QED BY <1>1, <3>1 DEF Stands, TransactionOK, ReadIsIssued, SavedRowStays,
         VersionIsFree, MaxIsReached, SnapshotIsFresh, PruningSeesJobs
  <2> QED BY <2>1, <2>2
<1>8. ASSUME NEW p \in Requests, NEW q \in Requests \ {p} PROVE Apart(tx[p], tx[q])'
  <2>1. Apart(tx[p], tx[q])
    BY DEF RevisionsInv, TransactionsInv
  <2> QED BY <1>2, <1>3, <2>1 DEF Apart
<1>9. TablesInv'
  <2>1. LifeInv' /\ IssuedInv' /\ JobsHaveTheirRevision' /\ NewestRevisionIsCurrent'
    BY <1>1 DEF LifeInv, IssuedInv, JobsHaveTheirRevision, NewestRevisionIsCurrent,
         RevisionsInv, TablesInv
  <2>2. DeploysWhatWasQueued'
    BY <1>1 DEF RevisionsInv, TablesInv, DeploysWhatWasQueued, ActiveJobs
  <2> QED BY <2>1, <2>2 DEF TablesInv
<1> QED BY <1>5, <1>7, <1>8, <1>9 DEF RevisionsInv, TransactionsInv

-----------------------------------------------------------------------------
(* The pruning of the revisions.                                             *)

(* Of the revisions on the list the newest is retained, so that of any       *)
(* revision a version at least as high stays.                                *)
LEMMA NewestIsRetained ==
  ASSUME TypeOK, NEW list, NEW i \in DOMAIN revisions
  PROVE  \E k \in DOMAIN revisions :
           /\ revisions[k].version >= revisions[i].version
           /\ k \in list => k \in Retained(list)
<1> DEFINE S == list \intersect DOMAIN revisions
<1>1. \A k \in DOMAIN revisions : revisions[k].version \in Nat
  BY DEF TypeOK, Revisions, RevisionIds
<1>2. CASE i \notin list
  BY <1>1, <1>2
<1>3. CASE i \in list
  <2>1. PICK m \in S : \A k \in S : revisions[k].version <= revisions[m].version
    <3>1. S \in SUBSET DOMAIN revisions /\ S # {}
      BY <1>3
    <3> HIDE DEF S
    <3> QED BY <3>1, SomeIsNewest
  <2>2. {k \in S : revisions[k].version > revisions[m].version} = {}
    BY <1>1, <2>1
  <2>3. Cardinality({k \in S : revisions[k].version > revisions[m].version}) < RetentionKeep
    <3>1. Cardinality({}) = 0 /\ 0 < RetentionKeep
      BY FS_EmptySet, ConstantsAssumption
    <3> QED BY <2>2, <3>1
  <2>4. m \in Retained(list)
    BY <2>3 DEF Retained
  <2> QED BY <1>1, <1>3, <2>1, <2>4
<1> QED BY <1>2, <1>3

LEMMA ErasedRevisions ==
  ASSUME RevisionsInv, NEW r \in Requests, EraseRevisions(r)
  PROVE  /\ DOMAIN revisions' \subseteq DOMAIN revisions
         /\ \A i \in DOMAIN revisions' : revisions'[i] = revisions[i]
         /\ revisions' \in [DOMAIN revisions' -> Revisions]
         /\ \A i \in DOMAIN revisions :
              \E k \in DOMAIN revisions' : revisions'[k].version >= revisions[i].version
         /\ \A i \in DOMAIN revisions \ DOMAIN revisions' : i \in tx[r].list /\ i \notin tx[r].refs
<1> DEFINE list == tx[r].list
           gone == list \ (Retained(list) \union tx[r].refs)
<1>1. revisions' = [i \in DOMAIN revisions \ gone |-> revisions[i]]
  BY DEF EraseRevisions
<1>2. TypeOK
  BY DEF RevisionsInv
<1>3. DOMAIN revisions' = DOMAIN revisions \ gone /\ \A i \in DOMAIN revisions' : revisions'[i] = revisions[i]
  BY <1>1
<1>4. revisions' \in [DOMAIN revisions' -> Revisions]
  BY <1>1, <1>2 DEF TypeOK
<1>5. ASSUME NEW i \in DOMAIN revisions
      PROVE \E k \in DOMAIN revisions' : revisions'[k].version >= revisions[i].version
  <2>1. PICK k \in DOMAIN revisions :
          /\ revisions[k].version >= revisions[i].version
          /\ k \in list => k \in Retained(list)
    BY <1>2, NewestIsRetained
  <2>2. k \in DOMAIN revisions'
    BY <1>3, <2>1
  <2> QED BY <1>3, <2>1, <2>2
<1> QED BY <1>3, <1>4, <1>5

LEMMA EraseRevisionsKeeps ==
  ASSUME RevisionsInv, NEW r \in Requests, EraseRevisions(r)
  PROVE  RevisionsInv'
<1> USE DEF history
<1>1. /\ tx[r].op = "prune" /\ tx[r].pc = "erase"
      /\ UNCHANGED <<bundle, files, issued, jobs, queued, outdated, overtaken>>
  BY DEF EraseRevisions
<1>2. \A q \in Requests : tx'[q] = IF q = r THEN Idle ELSE tx[q]
  BY DEF EraseRevisions, RevisionsInv, TypeOK
<1>3. /\ Idle \in Transactions /\ Idle.writes = NoWrites /\ DOMAIN NoWrites = {}
      /\ Idle.pc = "idle" /\ Idle.op = "none" /\ Idle.max = 0 /\ Idle.list = {}
  BY IdleFits DEF Idle
<1>4. /\ issued \in Nat /\ \A i \in DOMAIN revisions : revisions[i].version \in Nat
      /\ \A q \in Requests : tx[q].max \in Nat
  BY ConstantsAssumption DEF RevisionsInv, TypeOK, Revisions, RevisionIds, Transactions
<1>5. TypeOK'
  <2>1. tx' \in [Requests -> Transactions]
    BY <1>3 DEF EraseRevisions, RevisionsInv, TypeOK
  <2> QED BY <1>1, <2>1, ErasedRevisions DEF RevisionsInv, TypeOK
<1>6. ASSUME NEW q \in Requests PROVE Stands(tx[q])'
  <2>1. CASE q = r
    BY <1>1, <1>2, <1>3, <1>4, <2>1 DEF Stands, TransactionOK, ReadIsIssued, SavedRowStays,
         VersionIsFree, MaxIsReached, SnapshotIsFresh, PruningSeesJobs
  <2>2. CASE q # r
    <3>1. Stands(tx[q]) /\ tx'[q] = tx[q]
      BY <1>2, <2>2 DEF RevisionsInv, TransactionsInv
    <3>2. TransactionOK(tx[q])' /\ ReadIsIssued(tx[q])' /\ SavedRowStays(tx[q])' /\ PruningSeesJobs(tx[q])'
      BY <1>1, <3>1 DEF Stands, TransactionOK, ReadIsIssued, SavedRowStays, PruningSeesJobs
    <3>3. VersionIsFree(tx[q])'
      BY <1>1, <3>1, ErasedRevisions DEF Stands, VersionIsFree
    <3>4. MaxIsReached(tx[q])'
      <4> SUFFICES ASSUME bundle = "live", tx[q].pc \in {"snapshot", "insert", "commit"}
                   PROVE \E i \in DOMAIN revisions' : revisions'[i].version >= tx[q].max
        BY <1>1, <3>1 DEF MaxIsReached
      <4>1. PICK i \in DOMAIN revisions : revisions[i].version >= tx[q].max
        BY <3>1 DEF Stands, MaxIsReached
      <4>2. PICK k \in DOMAIN revisions' : revisions'[k].version >= revisions[i].version
        BY ErasedRevisions
      <4> QED BY <1>4, <4>1, <4>2, ErasedRevisions
    <3>5. SnapshotIsFresh(tx[q])'
      <4> SUFFICES ASSUME bundle = "live", "late" \notin overtaken, tx[q].pc \in {"insert", "commit"},
                          tx[q].op \in {"create", "save", "start"},
                          \A i \in DOMAIN revisions' : revisions'[i].version <= tx[q].max
                   PROVE tx[q].snapshot = View(tx[q])'
        BY <1>1, <3>1 DEF SnapshotIsFresh
      <4>1. ASSUME NEW i \in DOMAIN revisions PROVE revisions[i].version <= tx[q].max
        <5>1. PICK k \in DOMAIN revisions' : revisions'[k].version >= revisions[i].version
          BY ErasedRevisions
        <5> QED BY <1>4, <5>1, ErasedRevisions
      <4>2. tx[q].snapshot = View(tx[q])
        BY <3>1, <4>1 DEF Stands, SnapshotIsFresh
      <4> QED BY <1>1, <3>1, <4>2 DEF View, Content
    <3> QED BY <3>2, <3>3, <3>4, <3>5 DEF Stands
  <2> QED BY <2>1, <2>2
<1>7. ASSUME NEW p \in Requests, NEW q \in Requests \ {p} PROVE Apart(tx[p], tx[q])'
  <2>1. Apart(tx[p], tx[q])
    BY DEF RevisionsInv, TransactionsInv
  <2> QED BY <1>2, <1>3, <2>1 DEF Apart
<1>8. LifeInv'
  <2>1. bundle # "none"
    BY <1>1, UnderWay
  <2> QED BY <1>1, <2>1, ErasedRevisions DEF RevisionsInv, TablesInv, LifeInv
<1>9. IssuedInv' /\ JobsHaveTheirRevision'
  BY <1>1, ErasedRevisions DEF RevisionsInv, TablesInv, IssuedInv, JobsHaveTheirRevision
<1>10. NewestRevisionIsCurrent'
  <2> SUFFICES ASSUME bundle = "live", "late" \notin overtaken, NEW i \in DOMAIN revisions',
                      IsNewest(i)', i \notin outdated
               PROVE revisions'[i].snapshot = Content(files)'
    BY <1>1 DEF NewestRevisionIsCurrent
  <2>1. i \in DOMAIN revisions /\ revisions'[i] = revisions[i]
    BY ErasedRevisions
  <2>2. ASSUME NEW k \in DOMAIN revisions PROVE revisions[k].version <= revisions[i].version
    <3>1. PICK m \in DOMAIN revisions' : revisions'[m].version >= revisions[k].version
      BY ErasedRevisions
    <3>2. revisions'[m].version <= revisions'[i].version
      BY DEF IsNewest
    <3> QED BY <1>4, <2>1, <3>1, <3>2, ErasedRevisions
  <2>3. revisions[i].snapshot = Content(files)
    BY <2>1, <2>2 DEF RevisionsInv, TablesInv, NewestRevisionIsCurrent, IsNewest
  <2> QED BY <1>1, <2>1, <2>3 DEF Content
<1>11. DeploysWhatWasQueued'
  <2>1. ASSUME "queued" \notin overtaken, NEW j \in ActiveJobs PROVE jobs[j].revision \in DOMAIN revisions'
    <3>1. j \in DOMAIN jobs /\ jobs[j].revision \in DOMAIN revisions
      BY <2>1 DEF RevisionsInv, TablesInv, DeploysWhatWasQueued, ActiveJobs
    <3>2. jobs[j].revision \in tx[r].list => jobs[j].revision \in tx[r].refs
      BY <1>1, <3>1 DEF RevisionsInv, TransactionsInv, Stands, PruningSeesJobs
    <3> QED BY <3>1, <3>2, ErasedRevisions
  <2> QED BY <1>1, <2>1 DEF RevisionsInv, TablesInv, DeploysWhatWasQueued, ActiveJobs
<1> QED BY <1>5, <1>6, <1>7, <1>8, <1>9, <1>10, <1>11 DEF RevisionsInv, TransactionsInv, TablesInv

-----------------------------------------------------------------------------
(* The commit.                                                               *)

(* What a commit leaves: the files its transaction has written, one revision *)
(* more, and at most one job more.                                           *)
LEMMA CommittedFiles ==
  ASSUME RevisionsInv, NEW r \in Requests, Commit(r)
  PROVE  /\ files' \in [Paths -> Rows \union {None}]
         /\ Content(files') = View(tx[r])
         /\ \A p \in Paths \ DOMAIN tx[r].writes : files'[p] = files[p]
<1> DEFINE t == tx[r]
           id == issued + 1
<1>1. t \in Transactions /\ Stands(t) /\ t.pc = "commit"
  BY UnderWay DEF Commit
<1>2. /\ DOMAIN t.writes \subseteq Paths
      /\ \A p \in DOMAIN t.writes : t.writes[p] \in Contents \union {None}
  BY <1>1, WritesOf
<1>3. id \in RevisionIds
  BY ConstantsAssumption DEF Commit, RevisionsInv, TypeOK, RevisionIds
<1>4. files \in [Paths -> Rows \union {None}] /\ files' = NewFiles(t, id)
  BY LoadedFits DEF Commit
<1>5. t.op = "save" => \A p \in DOMAIN t.writes : files[p] # None
  BY <1>1 DEF Stands, SavedRowStays
<1> HIDE DEF t, id
<1>6. ASSUME NEW p \in Paths
      PROVE  /\ files'[p] \in Rows \union {None}
             /\ p \notin DOMAIN t.writes => files'[p] = files[p]
             /\ p \in DOMAIN t.writes /\ t.writes[p] = None => files'[p] = None
             /\ p \in DOMAIN t.writes /\ t.writes[p] # None =>
                  files'[p] # None /\ files'[p].content = t.writes[p]
  <2>1. CASE p \notin DOMAIN t.writes
    BY <1>4, <2>1 DEF NewFiles
  <2>2. CASE p \in DOMAIN t.writes /\ t.writes[p] = None
    BY <1>4, <2>2 DEF NewFiles
  <2>3. CASE p \in DOMAIN t.writes /\ t.writes[p] # None
    <3> DEFINE k == IF t.op = "save" THEN files[p].id ELSE id
    <3>1. files'[p] = [id |-> k, content |-> t.writes[p]]
      BY <1>4, <2>3 DEF NewFiles
    <3>2. k \in RevisionIds
      BY <1>3, <1>4, <1>5, <2>3 DEF Rows
    <3>3. t.writes[p] \in Contents
      BY <1>2, <2>3
    <3> HIDE DEF k
    <3>4. files'[p] \in Rows
      BY <3>1, <3>2, <3>3 DEF Rows
    <3>5. files'[p] # None
      BY <3>4, ConstantsAssumption DEF Rows, RevisionIds
    <3> QED BY <2>3, <3>1, <3>4, <3>5
  <2> QED BY <2>1, <2>2, <2>3
<1>7. files' \in [Paths -> Rows \union {None}]
  BY <1>4, <1>6 DEF NewFiles
<1>8. Content(files') = View(t)
  BY <1>6 DEF Content, View
<1> QED BY <1>6, <1>7, <1>8 DEF t

LEMMA CommittedRevision ==
  ASSUME RevisionsInv, NEW r \in Requests, Commit(r)
  PROVE  /\ issued + 1 \in RevisionIds /\ issued + 1 \notin DOMAIN revisions /\ issued' = issued + 1
         /\ DOMAIN revisions' = DOMAIN revisions \union {issued + 1}
         /\ \A i \in DOMAIN revisions : revisions'[i] = revisions[i]
         /\ revisions'[issued + 1].version = tx[r].max + 1
         /\ revisions'[issued + 1].snapshot = tx[r].snapshot
         /\ tx[r].max + 1 \in RevisionIds /\ tx[r].max + 1 <= issued + 1
         /\ revisions' \in [DOMAIN revisions' -> Revisions]
<1> DEFINE t == tx[r]
           id == issued + 1
<1>1. t \in Transactions /\ Stands(t) /\ t.pc = "commit" /\ issued < MaxRevisions
  BY UnderWay DEF Commit
<1>2. issued \in Nat /\ id \in RevisionIds /\ id \notin DOMAIN revisions /\ issued' = id
  BY <1>1, ConstantsAssumption DEF Commit, RevisionsInv, TypeOK, RevisionIds, TablesInv, IssuedInv
<1>3. t.max \in Nat /\ t.max <= issued /\ t.snapshot \in Snapshots
  BY <1>1 DEF Transactions, Stands, ReadIsIssued, TransactionOK
<1>4. t.max + 1 \in RevisionIds /\ t.max + 1 <= id
  BY <1>1, <1>2, <1>3, ConstantsAssumption DEF RevisionIds
<1>5. revisions' = [i \in DOMAIN revisions \union {id} |->
         IF i \in DOMAIN revisions THEN revisions[i] ELSE [version |-> t.max + 1, snapshot |-> t.snapshot]]
  BY DEF Commit
<1>6. [version |-> t.max + 1, snapshot |-> t.snapshot] \in Revisions
  BY <1>3, <1>4 DEF Revisions
<1>7. \A i \in DOMAIN revisions : revisions[i] \in Revisions
  BY DEF RevisionsInv, TypeOK
<1> QED BY <1>2, <1>4, <1>5, <1>6, <1>7

LEMMA CommittedJob ==
  ASSUME RevisionsInv, NEW r \in Requests, Commit(r)
  PROVE  \/ tx[r].op # "start" /\ UNCHANGED <<jobs, queued>>
         \/ /\ tx[r].op = "start" /\ queued' \in 0 .. MaxJobs
            /\ DOMAIN jobs' \subseteq JobIds /\ jobs' \in [DOMAIN jobs' -> Jobs]
            /\ \A j \in DOMAIN jobs : j \in DOMAIN jobs' /\ jobs'[j] = jobs[j]
            /\ \A j \in DOMAIN jobs' \ DOMAIN jobs :
                 /\ jobs'[j].revision = issued + 1 /\ jobs'[j].wanted = Content(files)
                 /\ jobs'[j].deploys = None
<1>1. CASE tx[r].op # "start"
  BY <1>1 DEF Commit, QueueJob
<1>2. CASE tx[r].op = "start"
  <2> DEFINE new == [status |-> "QUEUED", revision |-> issued + 1, wanted |-> Content(files), deploys |-> None]
             k == queued + 1
  <2>1. /\ queued < MaxJobs /\ queued' = k
        /\ jobs' = [j \in DOMAIN jobs \union {k} |-> IF j \in DOMAIN jobs THEN jobs[j] ELSE new]
    BY <1>2 DEF Commit, QueueJob
  <2>2. k \in JobIds /\ k \in 0 .. MaxJobs /\ DOMAIN jobs \subseteq JobIds
    BY <2>1, ConstantsAssumption DEF RevisionsInv, TypeOK, JobIds
  <2>3. new \in Jobs
    <3>1. issued + 1 \in RevisionIds
      BY CommittedRevision
    <3>2. Content(files) \in Snapshots
      BY LoadedFits, ContentOf
    <3> QED BY <3>1, <3>2 DEF Jobs
  <2>4. \A j \in DOMAIN jobs : jobs[j] \in Jobs
    BY DEF RevisionsInv, TypeOK
  <2>5. /\ new.revision = issued + 1 /\ new.wanted = Content(files) /\ new.deploys = None
    OBVIOUS
  <2> HIDE DEF new, k
  <2>6. /\ jobs' \in [DOMAIN jobs' -> Jobs] /\ DOMAIN jobs' = DOMAIN jobs \union {k}
        /\ \A j \in DOMAIN jobs' : jobs'[j] = IF j \in DOMAIN jobs THEN jobs[j] ELSE new
    BY <2>1, <2>3, <2>4
  <2> QED BY <1>2, <2>1, <2>2, <2>5, <2>6
<1> QED BY <1>1, <1>2

(* Unless a version is late, the one committed is above all others, and the  *)
(* snapshot that comes with it is what the transaction has made of the files *)
(* or is marked as outdated.                                                 *)
LEMMA CommitIsNewest ==
  ASSUME RevisionsInv, NEW r \in Requests, Commit(r), "late" \notin overtaken'
  PROVE  /\ "late" \notin overtaken
         /\ \A i \in DOMAIN revisions : revisions[i].version <= tx[r].max
         /\ \/ tx[r].snapshot = View(tx[r])
            \/ tx[r].op # "start" /\ issued + 1 \in outdated'
<1> DEFINE t == tx[r]
<1>1. t \in Transactions /\ Stands(t) /\ t.pc = "commit"
  BY UnderWay DEF Commit
<1>2. "late" \notin overtaken /\ \A i \in DOMAIN revisions : ~(revisions[i].version > t.max + 1)
  BY DEF Commit
<1>3. bundle = "live" /\ \A i \in DOMAIN revisions : revisions[i].version # t.max + 1
  BY <1>1 DEF Stands, VersionIsFree
<1>4. t.max \in Nat /\ \A i \in DOMAIN revisions : revisions[i].version \in Nat
  BY <1>1 DEF Transactions, RevisionsInv, TypeOK, Revisions, RevisionIds
<1>5. \A i \in DOMAIN revisions : revisions[i].version <= t.max
  BY <1>2, <1>3, <1>4
<1>6. CASE t.op \in {"create", "save", "start"}
  BY <1>1, <1>2, <1>3, <1>5, <1>6 DEF Stands, SnapshotIsFresh
<1>7. CASE t.op \in {"delete", "restore"}
  <2>1. Content(files') = View(t)
    BY CommittedFiles
  <2> QED BY <1>2, <1>5, <1>7, <2>1 DEF Commit
<1> QED BY <1>1, <1>2, <1>5, <1>6, <1>7 DEF Stands, TransactionOK, Editing

LEMMA CommitTransactions ==
  ASSUME RevisionsInv, NEW r \in Requests, Commit(r)
  PROVE  TransactionsInv'
<1> DEFINE t == tx[r]
<1>1. t \in Transactions /\ Stands(t) /\ t.pc = "commit" /\ bundle' = bundle /\ issued' = issued + 1
  BY UnderWay DEF Commit
<1>2. \A q \in Requests : tx'[q] = IF q = r THEN Idle ELSE tx[q]
  BY DEF Commit, RevisionsInv, TypeOK
<1>3. /\ Idle \in Transactions /\ Idle.writes = NoWrites /\ DOMAIN NoWrites = {}
      /\ Idle.pc = "idle" /\ Idle.op = "none" /\ Idle.max = 0 /\ Idle.list = {}
  BY IdleFits DEF Idle
<1>4. /\ issued \in Nat /\ \A i \in DOMAIN revisions : revisions[i].version \in Nat
      /\ \A q \in Requests : tx[q].max \in Nat /\ tx[q].list \subseteq Nat
  BY ConstantsAssumption DEF RevisionsInv, TypeOK, Revisions, RevisionIds, Transactions
<1>5. ASSUME NEW q \in Requests \ {r} PROVE Stands(tx[q])'
  <2>1. Stands(tx[q]) /\ tx'[q] = tx[q] /\ tx[q] \in Transactions /\ Apart(tx[q], t)
    BY <1>2 DEF RevisionsInv, TypeOK, TransactionsInv
  <2>2. TransactionOK(tx[q])'
    BY <2>1 DEF Stands, TransactionOK
  <2>3. ReadIsIssued(tx[q])'
    BY <1>1, <1>4, <2>1 DEF Stands, ReadIsIssued
  <2>4. SavedRowStays(tx[q])'
    <3>1. \A p \in DOMAIN tx[q].writes : p \in Paths /\ p \notin DOMAIN t.writes
      BY <2>1, WritesOf DEF Apart
    <3>2. \A p \in DOMAIN tx[q].writes : files'[p] = files[p]
      BY <3>1, CommittedFiles
    <3> QED BY <2>1, <3>2 DEF Stands, SavedRowStays
  <2>5. VersionIsFree(tx[q])'
    <3>1. tx[q].pc = "commit" => tx[q].max # t.max
      BY <1>1, <2>1 DEF Apart
    <3> QED BY <1>1, <1>4, <2>1, <3>1, CommittedRevision DEF Stands, VersionIsFree
  <2>6. MaxIsReached(tx[q])'
    BY <1>1, <2>1, CommittedRevision DEF Stands, MaxIsReached
  <2>7. SnapshotIsFresh(tx[q])'
    <3> SUFFICES ASSUME bundle = "live", "late" \notin overtaken', tx[q].pc \in {"insert", "commit"},
                        \A i \in DOMAIN revisions' : revisions'[i].version <= tx[q].max
                 PROVE FALSE
      BY <1>1, <2>1 DEF SnapshotIsFresh
    <3>1. t.max + 1 <= tx[q].max
      BY CommittedRevision
    <3>2. PICK i \in DOMAIN revisions : revisions[i].version >= tx[q].max
      BY <2>1 DEF Stands, MaxIsReached
    <3>3. revisions[i].version <= t.max
      BY CommitIsNewest
    <3> QED BY <1>4, <3>1, <3>2, <3>3
  <2>8. PruningSeesJobs(tx[q])'
    <3> SUFFICES ASSUME tx[q].op = "prune", tx[q].pc = "erase", NEW j \in DOMAIN jobs',
                        jobs'[j].revision \in tx[q].list
                 PROVE jobs'[j].revision \in tx[q].refs
      BY <2>1 DEF PruningSeesJobs
    <3>1. jobs'[j].revision <= issued
      BY <2>1 DEF Stands, ReadIsIssued
    <3>2. j \in DOMAIN jobs /\ jobs'[j] = jobs[j]
      BY <1>4, <3>1, CommittedJob
    <3> QED BY <2>1, <3>2 DEF Stands, PruningSeesJobs
  <2> QED BY <2>2, <2>3, <2>4, <2>5, <2>6, <2>7, <2>8 DEF Stands
<1>6. Stands(tx[r])'
  BY <1>1, <1>2, <1>3, <1>4 DEF Stands, TransactionOK, ReadIsIssued, SavedRowStays,
     VersionIsFree, MaxIsReached, SnapshotIsFresh, PruningSeesJobs
<1>7. ASSUME NEW p \in Requests, NEW q \in Requests \ {p} PROVE Apart(tx[p], tx[q])'
  <2>1. Apart(tx[p], tx[q])
    BY DEF RevisionsInv, TransactionsInv
  <2> QED BY <1>2, <1>3, <2>1 DEF Apart
<1> QED BY <1>5, <1>6, <1>7 DEF TransactionsInv

LEMMA CommitTables ==
  ASSUME RevisionsInv, NEW r \in Requests, Commit(r)
  PROVE  TablesInv'
<1> DEFINE t == tx[r]
           id == issued + 1
<1>1. /\ t \in Transactions /\ Stands(t) /\ t.pc = "commit" /\ t.pc # "idle"
      /\ bundle' = bundle /\ bundle # "none" /\ bundle = "live"
  BY UnderWay DEF Commit, Stands, VersionIsFree
<1>2. /\ issued \in Nat /\ t.max \in Nat
      /\ \A i \in DOMAIN revisions : revisions[i].version \in Nat /\ i \in Nat
      /\ \A j \in DOMAIN jobs : jobs[j].revision \in Nat
  BY <1>1, ConstantsAssumption DEF RevisionsInv, TypeOK, Revisions, RevisionIds, Transactions, Jobs
<1>3. LifeInv'
  BY <1>1, CommittedRevision DEF LifeInv
<1>4. IssuedInv'
  <2>1. \A i \in DOMAIN revisions : i <= issued /\ revisions[i].version <= issued
    BY DEF RevisionsInv, TablesInv, IssuedInv
  <2>2. \A i \in DOMAIN revisions' : i <= issued' /\ revisions'[i].version <= issued'
    BY <1>2, <2>1, CommittedRevision
  <2>3. \A j \in DOMAIN jobs : jobs[j].revision <= issued
    BY DEF RevisionsInv, TablesInv, IssuedInv
  <2>4. \A j \in DOMAIN jobs' : jobs'[j].revision <= issued'
    BY <1>2, <2>3, CommittedJob, CommittedRevision
  <2> QED BY <2>2, <2>4 DEF IssuedInv
<1>5. JobsHaveTheirRevision'
  <2> SUFFICES ASSUME "late" \notin overtaken', NEW j \in DOMAIN jobs',
                      jobs'[j].revision \in DOMAIN revisions'
               PROVE revisions'[jobs'[j].revision].snapshot = jobs'[j].wanted
    BY DEF JobsHaveTheirRevision
  <2>1. CASE j \in DOMAIN jobs
    <3>1. jobs'[j] = jobs[j] /\ jobs[j].revision <= issued
      BY <2>1, CommittedJob DEF RevisionsInv, TablesInv, IssuedInv
    <3>2. jobs[j].revision \in DOMAIN revisions
      BY <1>2, <2>1, <3>1, CommittedRevision
    <3>3. "late" \notin overtaken
      BY CommitIsNewest
    <3> QED BY <2>1, <3>1, <3>2, <3>3, CommittedRevision DEF RevisionsInv, TablesInv, JobsHaveTheirRevision
  <2>2. CASE j \notin DOMAIN jobs
    <3>1. t.op = "start" /\ jobs'[j].revision = id /\ jobs'[j].wanted = Content(files)
      BY <2>2, CommittedJob
    <3>2. t.snapshot = View(t)
      BY <3>1, CommitIsNewest
    <3>3. DOMAIN t.writes = {}
      BY <1>1, <3>1, IdleFits DEF Stands, TransactionOK
    <3>4. View(t) = Content(files)
      BY <3>3 DEF View, Content
    <3> QED BY <3>1, <3>2, <3>4, CommittedRevision
  <2> QED BY <2>1, <2>2
<1>6. NewestRevisionIsCurrent'
  <2> SUFFICES ASSUME "late" \notin overtaken', NEW i \in DOMAIN revisions', IsNewest(i)', i \notin outdated'
               PROVE revisions'[i].snapshot = Content(files)'
    BY DEF NewestRevisionIsCurrent
  <2>1. i = id
    <3>1. revisions'[id].version = t.max + 1 /\ id \in DOMAIN revisions'
      BY CommittedRevision
    <3>2. t.max + 1 <= revisions'[i].version
      BY <3>1 DEF IsNewest
    <3>3. \A k \in DOMAIN revisions : revisions'[k] = revisions[k] /\ revisions[k].version <= t.max
      BY CommitIsNewest, CommittedRevision
    <3> QED BY <1>2, <3>2, <3>3, CommittedRevision
  <2>2. t.snapshot = View(t)
    BY <2>1, CommitIsNewest
  <2>3. Content(files)' = View(t)
    BY CommittedFiles DEF Content
  <2> QED BY <2>1, <2>2, <2>3, CommittedRevision
<1>7. DeploysWhatWasQueued'
  <2>1. ASSUME "late" \notin overtaken', NEW j \in DOMAIN jobs'
        PROVE jobs'[j].deploys \in {None, jobs'[j].wanted}
    BY <2>1, CommitIsNewest, CommittedJob DEF RevisionsInv, TablesInv, DeploysWhatWasQueued
  <2>2. ASSUME "queued" \notin overtaken', NEW j \in DOMAIN jobs', jobs'[j].status # "FINAL"
        PROVE jobs'[j].revision \in DOMAIN revisions'
    <3>1. "queued" \notin overtaken
      BY <2>2 DEF Commit
    <3>2. CASE j \in DOMAIN jobs
      <4>1. jobs'[j] = jobs[j]
        BY <3>2, CommittedJob
      <4>2. jobs[j].revision \in DOMAIN revisions
        BY <2>2, <3>1, <3>2, <4>1 DEF RevisionsInv, TablesInv, DeploysWhatWasQueued, ActiveJobs
      <4> QED BY <4>1, <4>2, CommittedRevision
    <3>3. CASE j \notin DOMAIN jobs
      BY <3>3, CommittedJob, CommittedRevision
    <3> QED BY <3>2, <3>3
  <2> QED BY <2>1, <2>2 DEF DeploysWhatWasQueued, ActiveJobs
<1> QED BY <1>3, <1>4, <1>5, <1>6, <1>7 DEF TablesInv

LEMMA CommitKeeps ==
  ASSUME RevisionsInv, NEW r \in Requests, Commit(r)
  PROVE  RevisionsInv'
<1>1. TypeOK'
  <2>1. /\ bundle' \in {"none", "live", "deleted"} /\ files' \in [Paths -> Rows \union {None}]
    BY CommittedFiles DEF Commit, RevisionsInv, TypeOK
  <2>2. /\ DOMAIN revisions' \subseteq RevisionIds /\ revisions' \in [DOMAIN revisions' -> Revisions]
        /\ issued' \in 0 .. MaxRevisions
    BY CommittedRevision, ConstantsAssumption DEF RevisionsInv, TypeOK, RevisionIds
  <2>3. DOMAIN jobs' \subseteq JobIds /\ jobs' \in [DOMAIN jobs' -> Jobs] /\ queued' \in 0 .. MaxJobs
    BY CommittedJob DEF RevisionsInv, TypeOK
  <2>4. tx' \in [Requests -> Transactions]
    BY IdleFits DEF Commit, RevisionsInv, TypeOK
  <2>5. outdated' \subseteq RevisionIds /\ overtaken' \subseteq {"late", "queued"}
    <3>1. issued + 1 \in RevisionIds
      BY CommittedRevision
    <3>2. outdated' \in {outdated, outdated \union {issued + 1}}
          /\ overtaken' \in {overtaken, overtaken \union {"late"}}
      BY DEF Commit
    <3> QED BY <3>1, <3>2 DEF RevisionsInv, TypeOK
  <2> QED BY <2>1, <2>2, <2>3, <2>4, <2>5 DEF TypeOK
<1> QED BY <1>1, CommitTransactions, CommitTables DEF RevisionsInv

-----------------------------------------------------------------------------
(* The theorems.                                                             *)

LEMMA RevisionsInit == Init => RevisionsInv
<1> SUFFICES ASSUME Init PROVE RevisionsInv
  OBVIOUS
<1>1. \A r \in Requests : tx[r] = Idle
  BY DEF Init
<1>2. /\ Idle \in Transactions /\ Idle.writes = NoWrites /\ DOMAIN NoWrites = {}
      /\ Idle.pc = "idle" /\ Idle.op = "none" /\ Idle.max = 0 /\ Idle.list = {}
  BY IdleFits DEF Idle
<1>3. DOMAIN revisions = {} /\ DOMAIN jobs = {} /\ issued = 0 /\ queued = 0 /\ bundle = "none"
  BY DEF Init
<1>4. TypeOK
  <2>1. tx \in [Requests -> Transactions]
    BY <1>2 DEF Init
  <2>2. issued \in 0 .. MaxRevisions /\ queued \in 0 .. MaxJobs
    BY <1>3, ConstantsAssumption
  <2>3. revisions \in [DOMAIN revisions -> Revisions] /\ jobs \in [DOMAIN jobs -> Jobs]
    BY DEF Init
  <2> QED BY <2>1, <2>2, <2>3 DEF Init, TypeOK
<1>5. ASSUME NEW r \in Requests PROVE Stands(tx[r])
  BY <1>1, <1>2, <1>3 DEF Stands, TransactionOK, ReadIsIssued, SavedRowStays,
     VersionIsFree, MaxIsReached, SnapshotIsFresh, PruningSeesJobs
<1>6. TransactionsInv
  BY <1>1, <1>2, <1>5 DEF TransactionsInv, Apart
<1>7. TablesInv
  BY <1>1, <1>3 DEF TablesInv, LifeInv, IssuedInv, JobsHaveTheirRevision, NewestRevisionIsCurrent,
     DeploysWhatWasQueued, ActiveJobs
<1> QED BY <1>4, <1>6, <1>7 DEF RevisionsInv

LEMMA RevisionsStep == RevisionsInv /\ [Next]_vars => RevisionsInv'
<1> SUFFICES ASSUME RevisionsInv, [Next]_vars PROVE RevisionsInv'
  OBVIOUS
<1>1. CASE CreateApplication
  BY <1>1, CreateApplicationKeeps
<1>2. ASSUME NEW r \in Requests, Request(r) PROVE RevisionsInv'
  <2>1. CASE \/ CreateFile(r) \/ SaveFile(r) \/ DeleteFile(r) \/ Restore(r) \/ StartJob(r)
             \/ Prune(r) \/ DeleteApplication(r)
    BY <2>1, StartKeeps
  <2>2. CASE Flush(r)
    BY <2>2, FlushKeeps
  <2>3. CASE SelectMax(r)
    BY <2>3, SelectMaxKeeps
  <2>4. CASE SnapshotBundle(r)
    BY <2>4, SnapshotBundleKeeps
  <2>5. CASE InsertRevision(r)
    BY <2>5, InsertRevisionKeeps
  <2>6. CASE Commit(r)
    BY <2>6, CommitKeeps
  <2>7. CASE ReadPayloads(r)
    BY <2>7, ReadPayloadsKeeps
  <2>8. CASE EraseRevisions(r)
    BY <2>8, EraseRevisionsKeeps
  <2>9. CASE EraseBundle(r)
    BY <2>9, EraseBundleKeeps
  <2>10. CASE Fail(r)
    BY <2>10, RollbackKeeps DEF Fail
  <2> QED BY <1>2, <2>1, <2>2, <2>3, <2>4, <2>5, <2>6, <2>7, <2>8, <2>9, <2>10 DEF Request
<1>3. ASSUME NEW j \in DOMAIN jobs, Job(j) PROVE RevisionsInv'
  BY <1>3, JobKeeps
<1>4. CASE UNCHANGED vars
  <2>1. UNCHANGED <<bundle, files, revisions, issued, queued, tx, history>> /\ jobs' = jobs
    BY <1>4 DEF vars, tables
  <2>2. /\ jobs \in [DOMAIN jobs -> Jobs]
        /\ "late" \notin overtaken => \A k \in DOMAIN jobs : jobs[k].deploys \in {None, jobs[k].wanted}
    BY DEF RevisionsInv, TypeOK, TablesInv, DeploysWhatWasQueued
  <2> QED BY <2>1, <2>2, JobsKeep
<1> QED BY <1>1, <1>2, <1>3, <1>4 DEF Next

LEMMA RevisionsInvariant == Spec => []RevisionsInv
BY RevisionsInit, RevisionsStep, PTL DEF Spec

(* The variables of the application's revisions keep their types.            *)
THEOREM RevisionsTyped == Spec => []TypeOK
<1>1. RevisionsInv => TypeOK
  BY DEF RevisionsInv
<1> QED BY <1>1, RevisionsInvariant, PTL

(* The newest revision holds the files there are, although create_revision   *)
(* locks neither the versions nor the files.                                 *)
THEOREM NewestIsCurrent == Spec => []NewestRevisionIsCurrent
<1>1. RevisionsInv => NewestRevisionIsCurrent
  BY DEF RevisionsInv, TablesInv
<1> QED BY <1>1, RevisionsInvariant, PTL

(* What execute_manifest_job deploys is what start_manifest_job queued, and  *)
(* no pruning takes it away before it has been read.                         *)
THEOREM QueuedIsDeployed == Spec => []DeploysWhatWasQueued
<1>1. RevisionsInv => DeploysWhatWasQueued
  BY DEF RevisionsInv, TablesInv
<1> QED BY <1>1, RevisionsInvariant, PTL

(* The one step that takes revisions away while the application lives leaves *)
(* the newest; no step changes one.                                          *)
LEMMA RevisionsStay ==
  ASSUME RevisionsInv, [Next]_vars
  PROVE  /\ \A i \in DOMAIN revisions \intersect DOMAIN revisions' : revisions'[i] = revisions[i]
         /\ bundle' = "live" => \A i \in DOMAIN revisions :
              \E k \in DOMAIN revisions' : revisions'[k].version >= revisions[i].version
<1>1. \A i \in DOMAIN revisions : revisions[i].version \in Nat
  BY DEF RevisionsInv, TypeOK, Revisions, RevisionIds
<1>2. CASE CreateApplication
  BY <1>2 DEF CreateApplication, RevisionsInv, TablesInv, LifeInv
<1>3. ASSUME NEW r \in Requests, Commit(r) PROVE DOMAIN revisions \subseteq DOMAIN revisions'
                                                 /\ \A i \in DOMAIN revisions : revisions'[i] = revisions[i]
  BY <1>3, CommittedRevision
<1>4. ASSUME NEW r \in Requests, EraseRevisions(r)
      PROVE /\ \A i \in DOMAIN revisions' : revisions'[i] = revisions[i]
            /\ \A i \in DOMAIN revisions : \E k \in DOMAIN revisions' : revisions'[k].version >= revisions[i].version
  BY <1>4, ErasedRevisions
<1>5. ASSUME NEW r \in Requests, EraseBundle(r) PROVE DOMAIN revisions' = {} /\ bundle' # "live"
  BY <1>5 DEF EraseBundle
<1>6. ASSUME NEW r \in Requests, Request(r), ~Commit(r), ~EraseRevisions(r), ~EraseBundle(r)
      PROVE revisions' = revisions
  BY <1>6 DEF Request, CreateFile, SaveFile, DeleteFile, Restore, StartJob, Prune, DeleteApplication,
     Begin, Flush, Rollback, SelectMax, SnapshotBundle, InsertRevision, Move, ReadPayloads, Fail, tables
<1>7. ASSUME NEW j \in DOMAIN jobs, Job(j) PROVE revisions' = revisions
  BY <1>7 DEF Job, Claim, LookUp, Finish, ForgetJob
<1>8. CASE UNCHANGED vars
  BY <1>1, <1>8 DEF vars, tables
<1> QED BY <1>1, <1>2, <1>3, <1>4, <1>5, <1>6, <1>7, <1>8 DEF Next

(* A revision never changes, and neither a pruning nor a commit lets the     *)
(* highest version fall.                                                     *)
THEOREM RevisionsNeverChange == Spec => RevisionsAreImmutable
<1> DEFINE Keeps ==
      /\ \A i \in DOMAIN revisions \intersect DOMAIN revisions' : revisions'[i] = revisions[i]
      /\ bundle' = "live" => \A i \in DOMAIN revisions :
           \E k \in DOMAIN revisions' : revisions'[k].version >= revisions[i].version
<1>1. RevisionsInv /\ [Next]_vars => [Keeps]_vars
  BY RevisionsStay
<1>2. Spec => [][Keeps]_vars
  BY <1>1, RevisionsInvariant, PTL DEF Spec
<1> QED BY <1>2 DEF RevisionsAreImmutable
=============================================================================
