----------------------------- MODULE RssProofs -----------------------------
(***************************************************************************)
(* Proofs about Rss, for any number of subscriptions, feeds, imports,      *)
(* publishes, edits and failures: types and unique keys, that nothing is   *)
(* lost, and that an uploaded key is known.                                *)
(***************************************************************************)
EXTENDS Rss, FiniteSetTheorems, WellFoundedInduction, TLAPS

-----------------------------------------------------------------------------
(* The invariants. *)

Pcs == {"idle", "import", "stop", "backup", "feeds", "subs", "assign", "upload", "restart",
        "finish", "done"}
KeyedRow == [name : Names, key : Keys, feed : Feeds \cup {None}, on : BOOLEAN]
Tx == [rows : [Ids -> KeyedRow \cup {None}], feeds : SUBSET Feeds]
RunRecord == [pc : Pcs, raw : Config, tx : Tx, out : Config, keyed : SUBSET (Ids \X Keys),
              raised : BOOLEAN]

\* The variables, and the memory of the runs; a run that has not imported has
\* written nothing, and the row of a transaction has a key.
Types ==
  /\ rows \in [Ids -> Row \cup {None}]
  /\ feeds \in [Feeds -> {"none", "active", "inactive"}]
  /\ file \in Config \cup {Torn}
  /\ deluge \in Config \cup {Down}
  /\ saved \subseteq Names
  /\ run \in [Runs -> RunRecord]
  /\ \A r \in Runs : run[r].pc \in {"idle", "import"} => run[r].tx = NoTx

\* A key belongs to one committed row.
UniqueKeys == \A i, j \in Rowed(rows) \ Stubs(rows) : rows[i].key = rows[j].key => i = j

\* The uncommitted row of r under an id, or None.
Written(r, i) == run[r].tx.rows[i]

\* A row is locked by one run; no other row has the key of an uncommitted one; and
\* the uncommitted version of a row keeps its name and its key.
Locks ==
  /\ \A r, q \in Runs, i \in Ids : Written(r, i) # None /\ Written(q, i) # None => r = q
  /\ \A r, q \in Runs, i, j \in Ids :
       Written(r, i) # None /\ Written(q, j) # None /\ Written(r, i).key = Written(q, j).key => i = j
  /\ \A r \in Runs, i, j \in Ids :
       Written(r, i) # None /\ rows[j] # None /\ Written(r, i).key = rows[j].key => i = j
  /\ \A r \in Runs, i \in Ids :
       Written(r, i) # None /\ rows[i] # None =>
         rows[i].name = Written(r, i).name /\ rows[i].key \in {None, Written(r, i).key}

\* A publish makes up one key for a row, and different keys for different rows.
OneKeyEach == \A p \in Runs : \A a, b \in run[p].keyed : a[1] = b[1] <=> a[2] = b[2]

\* What was in the remote file and is in no backup is in the file, in Deluge and in
\* what each publish has downloaded, none of which is beyond its backup.
Early == {"import", "stop", "backup"}
Late == {"feeds", "subs", "assign", "upload"}
Unsaved == seen \ (gone \cup late \cup saved)
StillThere ==
  /\ \A n \in Unsaved :
       /\ n \in NamesIn(file)
       /\ deluge = Down \/ n \in NamesIn(deluge)
       /\ \A p \in Publishes : /\ run[p].pc \notin Late
                               /\ run[p].pc \in Early => n \in NamesIn(run[p].raw)
  /\ \A r \in Imports : run[r].pc \in {"idle", "import", "finish", "done"}

\* The keys that a publish made up: known, or yet to be assigned to the row of the
\* name, unless the user gave the name up or it has got a second key.
Forsaken == gone \cup rekeyed
KeyIn(view, k, n) == \E i \in Rowed(view) : view[i].key = k /\ view[i].name = n
KnownKeys ==
  /\ \A pair \in given : pair[1] \in Keys /\ (pair[2] \in Forsaken \/ KeyIn(rows, pair[1], pair[2]))
  /\ \A p \in Runs : \A pair \in run[p].keyed :
       LET n == run[p].out.subs[pair[2]].name IN
       /\ run[p].pc = "assign" => n \in Forsaken \/ (rows[pair[1]] # None /\ rows[pair[1]].name = n)
       /\ run[p].pc = "upload" => n \in Forsaken \/ KeyIn(rows, pair[2], n)
       /\ run[p].pc \in {"assign", "upload"}

-----------------------------------------------------------------------------
(* Lemmas about numbers, configurations and rows. *)

\* A set of naturals that is not empty has a smallest element ...
LEMMA LeastNatural == ASSUME NEW S \in SUBSET Nat, S # {} PROVE \E m \in S : \A k \in S : m <= k
<1>1. PICK m \in S : \A k \in S : <<k, m>> \notin OpToRel(<, Nat)
  BY WFMin, NatLessThanWellFounded, Zenon
<1>2. ASSUME NEW k \in S PROVE m <= k
  <2>1. k \in Nat /\ m \in Nat
    OBVIOUS
  <2>2. ~(k < m)
    BY <1>1, <2>1, Zenon DEF OpToRel
  <2> QED
    BY <2>1, <2>2
<1> QED
  BY <1>2

LEMMA MinOfNaturals == ASSUME NEW S \in SUBSET Nat, S # {} PROVE Min(S) \in S
  BY LeastNatural DEF Min

\* ... and one with a bound has a largest.
LEMMA MaxOfNaturals ==
  ASSUME NEW S \in SUBSET Nat, S # {}, NEW b \in Nat, \A k \in S : k <= b
  PROVE  Max(S) \in S /\ \A k \in S : Max(S) >= k
<1> DEFINE T == {j \in Nat : b - j \in S}
<1>1. PICK k \in S : TRUE
  OBVIOUS
<1>2. k \in Nat /\ b - k \in Nat /\ b - (b - k) = k
  OBVIOUS
<1>3. T \subseteq Nat /\ T # {}
  BY <1>2
<1>4. PICK j \in T : \A i \in T : j <= i
  BY <1>3, LeastNatural
<1>5. ASSUME NEW n \in S PROVE b - j >= n
  <2>1. n \in Nat /\ b - n \in Nat /\ b - (b - n) = n
    OBVIOUS
  <2>2. b - n \in T
    BY <2>1
  <2> QED
    BY <1>4, <2>1, <2>2
<1>6. b - j \in S /\ \A n \in S : b - j >= n
  BY <1>4, <1>5
<1> QED
  BY <1>6 DEF Max

\* The empty configuration and the empty transaction are well formed.
LEMMA EmptyTyped == Empty \in Config /\ NoTx \in Tx
  BY DEF Empty, Config, NoTx, Tx

\* A configuration is not one of the two special values.
LEMMA ConfigIsNoMark == \A c \in Config : c \notin {Torn, Down} /\ NamesIn(c) \subseteq Names
  BY RssConstants DEF NamesIn, Config, Subscription

LEMMA LoadedTyped == \A c \in Config \cup {Torn} : Loaded(c) \in Config
  BY EmptyTyped DEF Loaded

\* None is neither a row nor a subscription.
LEMMA NoneIsNoRow == \A x \in Row \cup KeyedRow : x # None
  BY RssConstants DEF Row, KeyedRow

\* What a transaction sees has the type of the rows, and shows every row that is there.
LEMMA ViewTyped ==
  ASSUME Types, NEW r \in Runs
  PROVE  /\ View(r) \in [Ids -> Row \cup {None}]
         /\ ViewFeeds(r) \in [Feeds -> {"none", "active", "inactive"}]
         /\ \A i \in Ids : Written(r, i) \in KeyedRow \cup {None}
  BY DEF Types, View, ViewFeeds, Written, RunRecord, Tx, KeyedRow, Row

\* A row that an import writes is new, or promotes a row without a key that has the
\* name, or updates a row in place.
Created(r, i, w) ==
  /\ w.key \in ToCreate(r) /\ Target(r)[w.key] = i
  /\ \/ i \in FreeIds
     \/ i \in Stubs(rows) /\ rows[i].name = w.name
Updated(r, i, w) ==
  i \in ToUpdate(r) /\ w.key = rows[i].key /\ w.name = rows[i].name

LEMMA ReconciledRow ==
  ASSUME Types, NEW r \in Runs, Targets(r) # {}, NEW i \in Ids, Reconciled(r)[i] # None
  PROVE  /\ Reconciled(r)[i] \in KeyedRow
         /\ Created(r, i, Reconciled(r)[i]) \/ Updated(r, i, Reconciled(r)[i])
<1> DEFINE w == Reconciled(r)[i]
           t == Target(r)
           taken == {k \in DOMAIN t : t[k] = i}
           k == CHOOSE k \in taken : TRUE
           feed == IF Resolve(r, k) = None /\ rows[i] # None THEN rows[i].feed ELSE Resolve(r, k)
<1>1. t \in Targets(r)
  BY DEF Target
<1>2. run[r].raw \in Config /\ rows[i] \in Row \cup {None}
  BY DEF Types, RunRecord
<1>3. \A l \in Keys : Resolve(r, l) \in Feeds \cup {None}
  BY <1>2 DEF Resolve, Config
<1>4. CASE taken # {}
  <2>1. k \in ToCreate(r) /\ t[k] = i
    BY <1>1, <1>4 DEF Targets
  <2>2. w = [name |-> run[r].raw.subs[k].name, key |-> k, feed |-> feed, on |-> TRUE]
    <3>1. t[k] \in FreeIds \cup Stubs(rows)
      BY <1>1, <2>1 DEF Targets, StubFor
    <3>2. i \notin ToUpdate(r)
      BY <2>1, <3>1 DEF FreeIds, ToUpdate, Rowed, Stubs
    <3> QED
      BY <1>4, <3>2 DEF Reconciled
  <2>3. k \in Keys /\ run[r].raw.subs[k] \in Subscription
    BY <1>2, <2>1 DEF ToCreate, Config
  <2>4. feed \in Feeds \cup {None}
    BY <1>2, <1>3, <2>3 DEF Row
  <2>5. w \in KeyedRow
    BY <2>2, <2>3, <2>4 DEF KeyedRow, Subscription
  <2>6. i \in IF StubFor(r, k) # {} THEN StubFor(r, k) ELSE FreeIds
    BY <1>1, <2>1 DEF Targets
  <2>7. w.key = k /\ w.name = run[r].raw.subs[k].name
    BY <2>2
  <2>8. i \in FreeIds \/ (i \in Stubs(rows) /\ rows[i].name = w.name)
    BY <2>6, <2>7 DEF StubFor
  <2> QED
    BY <2>1, <2>5, <2>7, <2>8 DEF Created
<1>5. CASE taken = {}
  <2>1. /\ i \in ToUpdate(r) /\ Resolve(r, rows[i].key) \notin {None, rows[i].feed}
        /\ w = [rows[i] EXCEPT !.feed = Resolve(r, rows[i].key)]
    BY <1>5 DEF Reconciled
  <2>2. rows[i] \in Row /\ rows[i].key \in Keys
    BY <1>2, <2>1 DEF ToUpdate, Rowed, Stubs, Row
  <2>3. w \in KeyedRow /\ w.key = rows[i].key /\ w.name = rows[i].name
    BY <1>3, <2>1, <2>2 DEF Row, KeyedRow
  <2> QED
    BY <2>1, <2>3 DEF Updated
<1> QED
  BY <1>4, <1>5

\* A commit keeps the types.
LEMMA CommitTyped ==
  ASSUME Types, NEW r \in Runs, NEW keyed \in SUBSET (Ids \X Keys),
         \A pair \in keyed : View(r)[pair[1]] # None, Commit(r, keyed)
  PROVE  /\ rows' \in [Ids -> Row \cup {None}]
         /\ feeds' \in [Feeds -> {"none", "active", "inactive"}]
<1>1. View(r) \in [Ids -> Row \cup {None}] /\ ViewFeeds(r) \in [Feeds -> {"none", "active", "inactive"}]
  BY ViewTyped
<1>2. ASSUME NEW i \in Ids, NEW k \in Keys, <<i, k>> \in keyed
      PROVE  /\ (CHOOSE l \in Keys : <<i, l>> \in keyed) \in Keys
             /\ View(r)[i] \in Row
  <2>1. <<i, k>>[1] = i
    OBVIOUS
  <2> QED
    BY <1>1, <1>2, <2>1
<1>3. \A i \in Ids : rows'[i] \in Row \cup {None}
  <2> SUFFICES ASSUME NEW i \in Ids PROVE rows'[i] \in Row \cup {None}
    OBVIOUS
  <2>1. CASE \E k \in Keys : <<i, k>> \in keyed
    <3> DEFINE key == CHOOSE k \in Keys : <<i, k>> \in keyed
    <3>1. key \in Keys /\ View(r)[i] \in Row
      BY <1>2, <2>1
    <3>2. rows'[i] = [View(r)[i] EXCEPT !.key = key]
      BY <2>1 DEF Commit
    <3> HIDE DEF key
    <3> QED
      BY <3>1, <3>2 DEF Row
  <2>2. CASE ~\E k \in Keys : <<i, k>> \in keyed
    BY <1>1, <2>2 DEF Commit
  <2> QED
    BY <2>1, <2>2
<1> QED
  BY <1>1, <1>3 DEF Commit

-----------------------------------------------------------------------------
(* Types. *)

LEMMA AtTyped ==
  ASSUME NEW pc \in Pcs, NEW tx \in Tx, NEW raised \in BOOLEAN
  PROVE  At(pc, tx, raised) \in RunRecord
  BY EmptyTyped DEF At, RunRecord

LEMMA TypesInitial == Init => Types
<1> SUFFICES ASSUME Init PROVE Types
  OBVIOUS
<1>1. At("idle", NoTx, FALSE) \in RunRecord /\ At("idle", NoTx, FALSE).tx = NoTx
  BY EmptyTyped, AtTyped DEF Pcs, At
<1>2. Empty \in Config
  BY EmptyTyped
<1> QED
  BY <1>1, <1>2 DEF Init, Types

\* A step that changes the memory of a run to another one with the right types.
LEMMA RunStep ==
  ASSUME Types, NEW r \in Runs, NEW x \in RunRecord, x.pc \in {"idle", "import"} => x.tx = NoTx,
         run' = [run EXCEPT ![r] = x]
  PROVE  /\ run' \in [Runs -> RunRecord]
         /\ \A q \in Runs : run'[q].pc \in {"idle", "import"} => run'[q].tx = NoTx
  BY DEF Types

\* The variables of the configurations, after a stop of Deluge.
LEMMA StoppedTyped ==
  ASSUME Types, Stopped
  PROVE  file' \in Config \cup {Torn} /\ deluge' \in Config \cup {Down}
  BY DEF Types, Stopped

\* The steps of a run keep the types.
LEMMA TypesImport ==
  ASSUME Types, NEW r \in Runs, Download(r) \/ Reconcile(r) \/ Clash(r) \/ Kill(r) \/ Finish(r)
  PROVE  Types'
<1>1. run[r] \in RunRecord /\ run[r].tx \in Tx /\ run[r].raised \in BOOLEAN
  BY DEF Types, RunRecord
<1>2. Over \in RunRecord /\ Over.pc = "done"
  BY EmptyTyped, AtTyped DEF Over, Pcs, At
<1>3. CASE Download(r)
  <2> DEFINE x == [run[r] EXCEPT !.pc = IF file = Torn THEN "done" ELSE "import", !.raw = Loaded(file)]
  <2>1. Loaded(file) \in Config
    BY LoadedTyped DEF Types
  <2>2. x \in RunRecord
    BY <1>1, <2>1 DEF RunRecord, Pcs
  <2>3. x.tx = NoTx
    BY <1>1, <1>3 DEF RunRecord, Types, Download
  <2>4. run' = [run EXCEPT ![r] = x]
    BY <1>3 DEF Download
  <2> HIDE DEF x
  <2> QED
    BY <1>3, <2>2, <2>3, <2>4, RunStep DEF Types, Download
<1>4. CASE Reconcile(r)
  <2> DEFINE tx == [rows |-> Reconciled(r), feeds |-> {f \in run[r].raw.feeds : feeds[f] = "none"}]
             x == [run[r] EXCEPT !.pc = IF r \in Imports THEN "finish" ELSE "stop", !.tx = tx]
  <2>1. Reconciled(r) = [i \in Ids |-> Reconciled(r)[i]]
    BY DEF Reconciled
  <2>2. \A i \in Ids : Reconciled(r)[i] \in KeyedRow \cup {None}
    BY <1>4, ReconciledRow DEF Reconcile
  <2>3. Reconciled(r) \in [Ids -> KeyedRow \cup {None}]
    <3> DEFINE f == Reconciled(r)
    <3> HIDE DEF f
    <3> QED
      BY <2>1, <2>2 DEF f
  <2>4. tx \in Tx
    BY <1>1, <2>3 DEF Tx, RunRecord, Config
  <2>5. x \in RunRecord /\ x.pc \notin {"idle", "import"}
    BY <1>1, <2>4 DEF RunRecord, Pcs
  <2>6. run' = [run EXCEPT ![r] = x]
    BY <1>4 DEF Reconcile
  <2> HIDE DEF x
  <2> QED
    BY <1>4, <2>5, <2>6, RunStep DEF Types, Reconcile
<1>5. CASE Clash(r)
  BY <1>2, <1>5, RunStep DEF Types, Clash
<1>6. CASE Kill(r)
  BY <1>2, <1>6, RunStep DEF Types, Kill
<1>7. CASE Finish(r)
  <2>1. CASE run[r].raised
    BY <1>2, <1>7, <2>1, RunStep DEF Types, Finish
  <2>2. CASE ~run[r].raised
    <3>1. Commit(r, {})
      BY <1>7, <2>2 DEF Finish
    <3>2. rows' \in [Ids -> Row \cup {None}] /\ feeds' \in [Feeds -> {"none", "active", "inactive"}]
      BY <3>1, CommitTyped
    <3> QED
      BY <1>2, <1>7, <3>2, RunStep DEF Types, Finish
  <2> QED
    BY <2>1, <2>2
<1> QED
  BY <1>3, <1>4, <1>5, <1>6, <1>7

LEMMA TypesComposed ==
  ASSUME Types, NEW p \in Runs, BuildFeeds(p) \/ BuildSubscriptions(p) \/ AssignKeys(p)
  PROVE  Types'
<1>1. run[p] \in RunRecord /\ run[p].tx \in Tx /\ run[p].out \in Config
  BY DEF Types, RunRecord
<1>2. View(p) \in [Ids -> Row \cup {None}]
  BY ViewTyped
<1>3. CASE BuildFeeds(p)
  <2> DEFINE fs == {f \in Feeds : \/ ViewFeeds(p)[f] = "active"
                                  \/ /\ ViewFeeds(p)[f] = "inactive"
                                     /\ f \in {View(p)[i].feed : i \in {i \in Rowed(View(p)) : View(p)[i].on}}}
             x == [run[p] EXCEPT !.pc = "subs", !.out.feeds = fs]
  <2>1. [run[p].out EXCEPT !.feeds = fs] \in Config
    BY <1>1 DEF Config
  <2>2. x \in RunRecord /\ x.pc = "subs"
    BY <1>1, <2>1 DEF RunRecord, Pcs
  <2>3. run' = [run EXCEPT ![p] = x]
    BY <1>3 DEF BuildFeeds
  <2> HIDE DEF x
  <2> QED
    BY <1>3, <2>2, <2>3, RunStep DEF Types, BuildFeeds
<1>4. CASE BuildSubscriptions(p)
  <2> DEFINE view == View(p)
             enabled == {i \in Rowed(view) : view[i].on}
             stubs == enabled \cap Stubs(view)
             key == [i \in enabled |-> IF i \in stubs THEN NewKey(p, i, stubs) ELSE view[i].key]
             subs == [k \in Keys |-> IF \E i \in enabled : key[i] = k
                             THEN LET i == CHOOSE i \in enabled : key[i] = k
                                  IN [name |-> view[i].name, feed |-> view[i].feed]
                             ELSE None]
             keyed == {<<i, key[i]>> : i \in stubs}
             x == [run[p] EXCEPT !.pc = IF stubs = {} THEN "upload" ELSE "assign",
                                 !.keyed = keyed, !.out.subs = subs]
  <2>1. (\A i \in stubs : key[i] \in Keys) /\ run' = [run EXCEPT ![p] = x]
    BY <1>4 DEF BuildSubscriptions
  <2>2. keyed \in SUBSET (Ids \X Keys)
    <3>1. stubs \subseteq Ids
      BY DEF Rowed
    <3> HIDE DEF stubs, key
    <3> QED
      BY <2>1, <3>1
  <2>3. \A i \in enabled : view[i] \in Row
    BY <1>2 DEF Rowed
  <2>4. \A k \in Keys : subs[k] \in Subscription \cup {None}
    <3> HIDE DEF enabled, key
    <3> QED
      BY <2>3 DEF Row, Subscription
  <2>5. subs \in [Keys -> Subscription \cup {None}]
    BY <2>4
  <2>6. [run[p].out EXCEPT !.subs = subs] \in Config
    <3> HIDE DEF subs
    <3> QED
      BY <1>1, <2>5 DEF Config
  <2>7. x \in RunRecord /\ x.pc \notin {"idle", "import"}
    <3> HIDE DEF subs, keyed, stubs
    <3> QED
      BY <1>1, <2>2, <2>6 DEF RunRecord, Pcs
  <2> HIDE DEF x
  <2> QED
    BY <1>4, <2>1, <2>7, RunStep DEF Types, BuildSubscriptions
<1>5. CASE AssignKeys(p)
  <2> DEFINE x == [run[p] EXCEPT !.pc = "upload", !.tx = NoTx]
  <2>1. x \in RunRecord /\ x.pc = "upload"
    BY <1>1, EmptyTyped DEF RunRecord, Pcs
  <2>2. run' = [run EXCEPT ![p] = x]
    BY <1>5 DEF AssignKeys
  <2>3. rows' \in [Ids -> Row \cup {None}] /\ feeds' \in [Feeds -> {"none", "active", "inactive"}]
    BY <1>1, <1>5, CommitTyped DEF AssignKeys, Assignable, RunRecord
  <2> HIDE DEF x
  <2> QED
    BY <1>5, <2>1, <2>2, <2>3, RunStep DEF Types, AssignKeys
<1> QED
  BY <1>3, <1>4, <1>5

LEMMA TypesPublish ==
  ASSUME Types, NEW p \in Runs,
         \/ Stop(p) \/ StopFails(p) \/ Backup(p) \/ AssignFails(p) \/ Upload(p) \/ UploadTorn(p)
         \/ Restart(p) \/ RestartFails(p) \/ Interrupt(p)
  PROVE  Types'
<1>1. /\ run[p] \in RunRecord /\ run[p].tx \in Tx /\ run[p].out \in Config
      /\ run[p].raised \in BOOLEAN /\ run[p].raw \in Config
  BY DEF Types, RunRecord
<1>2. \A pc \in {"restart", "finish"}, raised \in BOOLEAN :
        LET x == At(pc, run[p].tx, raised) IN x \in RunRecord /\ x.pc \notin {"idle", "import"}
  BY <1>1, AtTyped DEF Pcs, At
<1>3. \A pc \in {"backup", "feeds"} :
        LET x == [run[p] EXCEPT !.pc = pc] IN x \in RunRecord /\ x.pc \notin {"idle", "import"}
  BY <1>1 DEF Pcs, RunRecord
<1>4. CASE Stop(p)
  BY <1>3, <1>4, RunStep, StoppedTyped DEF Types, Stop
<1>5. CASE StopFails(p)
  <2>1. file' \in Config \cup {Torn} /\ deluge' \in Config \cup {Down}
    BY <1>5, StoppedTyped DEF Types, StopFails
  <2> QED
    BY <1>2, <1>5, <2>1, RunStep DEF Types, StopFails
<1>6. CASE Backup(p)
  <2>1. NamesIn(run[p].raw) \subseteq Names
    BY <1>1, ConfigIsNoMark
  <2> QED
    BY <1>3, <1>6, <2>1, RunStep DEF Types, Backup
<1>7. CASE AssignFails(p)
  BY <1>2, <1>7, RunStep DEF Types, AssignFails
<1>8. CASE Upload(p)
  BY <1>1, <1>2, <1>8, RunStep DEF Types, Upload
<1>9. CASE UploadTorn(p)
  BY <1>2, <1>9, RunStep DEF Types, UploadTorn
<1>10. CASE Restart(p)
  <2>1. deluge' \in Config \cup {Down}
    BY <1>10, LoadedTyped DEF Types, Restart
  <2> QED
    BY <1>1, <1>2, <1>10, <2>1, RunStep DEF Types, Restart
<1>11. CASE RestartFails(p)
  BY <1>1, <1>2, <1>11, RunStep DEF Types, RestartFails
<1>12. CASE Interrupt(p)
  <2>1. file' \in Config \cup {Torn} /\ deluge' \in Config \cup {Down}
    BY <1>12, StoppedTyped DEF Types, Interrupt
  <2> QED
    BY <1>2, <1>12, <2>1, RunStep DEF Types, Interrupt
<1> QED
  BY <1>4, <1>5, <1>6, <1>7, <1>8, <1>9, <1>10, <1>11, <1>12

\* A new configuration of YaRSS2.
LEMMA ConfigWith ==
  ASSUME NEW c \in Config, NEW k \in Keys, NEW x \in Subscription \cup {None}, NEW g \in SUBSET Feeds
  PROVE  /\ [c EXCEPT !.subs[k] = x, !.feeds = g] \in Config
         /\ [c EXCEPT !.subs[k] = x] \in Config
  BY DEF Config

LEMMA TypesRemote ==
  ASSUME Types,
         \/ \E k \in Keys, n \in Names, f \in Feeds : RemoteAdd(k, n, f)
         \/ \E k \in Keys : RemoteRemove(k)
  PROVE  Types'
<1>1. ASSUME NEW k \in Keys, NEW n \in Names, NEW f \in Feeds, RemoteAdd(k, n, f) PROVE Types'
  <2>1. deluge \in Config
    BY <1>1 DEF RemoteAdd, Types
  <2>2. [name |-> n, feed |-> f] \in Subscription /\ deluge.feeds \cup {f} \in SUBSET Feeds
    BY <2>1 DEF Subscription, Config
  <2>3. file' \in Config /\ deluge' \in Config
    BY <1>1, <2>1, <2>2, ConfigWith DEF RemoteAdd, Save
  <2> QED
    BY <1>1, <2>3 DEF RemoteAdd, Save, Types
<1>2. ASSUME NEW k \in Keys, RemoteRemove(k) PROVE Types'
  <2>1. deluge \in Config
    BY <1>2 DEF RemoteRemove, Types
  <2>2. file' \in Config /\ deluge' \in Config
    BY <1>2, <2>1, ConfigWith DEF RemoteRemove, Save
  <2> QED
    BY <1>2, <2>2 DEF RemoteRemove, Save, Types
<1> QED
  BY <1>1, <1>2

\* A new row is inserted at a free id.
LEMMA InsertAtFreeId ==
  ASSUME Types, NEW n, NEW f, NEW on, Insert(n, f, on)
  PROVE  /\ Min(FreeIds) \in FreeIds
         /\ rows' = [rows EXCEPT ![Min(FreeIds)] = [name |-> n, key |-> None, feed |-> f, on |-> on]]
<1>1. FreeIds \subseteq Nat /\ FreeIds # {}
  BY RssConstants DEF Insert, FreeIds, Ids
<1> QED
  BY <1>1, MinOfNaturals DEF Insert

\* The user changes one row, which no run holds: makes it, removes it, or keeps its
\* name and its key; what is removed is given up.
EditOf(i) ==
  /\ \A r \in Runs : Written(r, i) = None
  /\ \A j \in Ids \ {i} : rows'[j] = rows[j]
  /\ \/ rows[i] = None /\ rows'[i] # None /\ rows'[i].key = None
     \/ rows[i] # None /\ rows'[i] = None /\ rows[i].name \in gone'
     \/ /\ rows[i] # None /\ rows'[i] # None
        /\ rows'[i].name = rows[i].name /\ rows'[i].key = rows[i].key

UserStep ==
  \/ \E n \in Names, f \in Feeds, on \in BOOLEAN : CreateSubscription(n, f, on)
  \/ \E n \in Names : EnsureStub(n)
  \/ \E n \in Names, f \in Feeds, on \in BOOLEAN : Onboard(n, f, on)
  \/ \E i \in Ids, on \in BOOLEAN : SetEnabled(i, on)
  \/ \E i \in Ids, f \in Feeds : Relink(i, f)
  \/ \E i \in Ids : DeleteSubscription(i)
  \/ \E f \in Feeds, active \in {"active", "inactive"} : SetActive(f, active)
  \/ \E f \in Feeds : DeleteFeed(f)

LEMMA InsertIsAnEdit ==
  ASSUME Types, NEW n \in Names, NEW f \in Feeds \cup {None}, NEW on \in BOOLEAN, Insert(n, f, on)
  PROVE  rows' \in [Ids -> Row \cup {None}] /\ \E i \in Ids : EditOf(i)
<1> DEFINE i == Min(FreeIds)
           x == [name |-> n, key |-> None, feed |-> f, on |-> on]
<1>1. i \in FreeIds /\ rows' = [rows EXCEPT ![i] = x]
  BY InsertAtFreeId
<1>2. x \in Row /\ x.key = None
  BY DEF Row
<1>3. x # None
  BY <1>2, NoneIsNoRow
<1> HIDE DEF i, x
<1>4. i \in Ids /\ rows[i] = None /\ \A r \in Runs : Written(r, i) = None
  BY <1>1 DEF FreeIds, Held, Written
<1>5. rows'[i] = x /\ \A j \in Ids \ {i} : rows'[j] = rows[j]
  BY <1>1, <1>4 DEF Types
<1> QED
  BY <1>1, <1>2, <1>3, <1>4, <1>5 DEF EditOf, Types

LEMMA UserEdits ==
  ASSUME Types, UserStep
  PROVE  /\ rows' \in [Ids -> Row \cup {None}]
         /\ feeds' \in [Feeds -> {"none", "active", "inactive"}]
         /\ UNCHANGED <<run, file, deluge, saved, seen, late, given, rekeyed>>
         /\ gone \subseteq gone'
         /\ rows' = rows \/ \E i \in Ids : EditOf(i)
<1> DEFINE Goal == /\ rows' \in [Ids -> Row \cup {None}]
                   /\ feeds' \in [Feeds -> {"none", "active", "inactive"}]
                   /\ UNCHANGED <<run, file, deluge, saved, seen, late, given, rekeyed>>
                   /\ gone \subseteq gone'
                   /\ rows' = rows \/ \E i \in Ids : EditOf(i)
<1>1. ASSUME NEW n \in Names, NEW f \in Feeds, NEW on \in BOOLEAN, CreateSubscription(n, f, on)
      PROVE  Goal
  BY <1>1, InsertIsAnEdit DEF CreateSubscription, Edit, Types
<1>2. ASSUME NEW n \in Names, EnsureStub(n) PROVE Goal
  BY <1>2, InsertIsAnEdit DEF EnsureStub, Edit, Types
<1>3. ASSUME NEW i \in Ids, NEW x, rows[i] # None, ~Held(i), rows' = [rows EXCEPT ![i] = x],
             x \in Row, x.name = rows[i].name, x.key = rows[i].key
      PROVE  rows' \in [Ids -> Row \cup {None}] /\ EditOf(i)
  <2>1. x # None
    BY <1>3, NoneIsNoRow
  <2>2. \A r \in Runs : Written(r, i) = None
    BY <1>3 DEF Held, Written
  <2>3. rows'[i] = x /\ \A j \in Ids \ {i} : rows'[j] = rows[j]
    BY <1>3 DEF Types
  <2> QED
    BY <1>3, <2>1, <2>2, <2>3 DEF EditOf, Types
<1>4. ASSUME NEW n \in Names, NEW f \in Feeds, NEW on \in BOOLEAN, Onboard(n, f, on) PROVE Goal
  <2>1. CASE \E i \in RowsOf(n) : rows[i].feed = None
    <3>1. PICK i \in RowsOf(n) : /\ ~Held(i)
                                 /\ rows' = [rows EXCEPT ![i].feed = f, ![i].on = @ \/ on]
      BY <1>4, <2>1 DEF Onboard
    <3>2. i \in Ids /\ rows[i] \in Row /\ rows[i] # None
      BY DEF RowsOf, Rowed, Types
    <3> DEFINE x == [rows[i] EXCEPT !.feed = f, !.on = @ \/ on]
    <3>3. x \in Row /\ x.name = rows[i].name /\ x.key = rows[i].key
      BY <3>2 DEF Row
    <3>4. rows' = [rows EXCEPT ![i] = x]
      BY <3>1
    <3> HIDE DEF x
    <3>5. rows' \in [Ids -> Row \cup {None}] /\ EditOf(i)
      BY <1>3, <3>1, <3>2, <3>3, <3>4
    <3> QED
      BY <1>4, <3>2, <3>5 DEF Onboard, Edit, Types
  <2>2. CASE ~\E i \in RowsOf(n) : rows[i].feed = None
    BY <1>4, <2>2, InsertIsAnEdit DEF Onboard, Edit, Types
  <2> QED
    BY <2>1, <2>2
<1>5. ASSUME NEW i \in Ids, NEW on \in BOOLEAN, SetEnabled(i, on) PROVE Goal
  <2> DEFINE x == [rows[i] EXCEPT !.on = on]
  <2>1. rows[i] # None /\ rows[i] \in Row /\ ~Held(i) /\ rows' = [rows EXCEPT ![i] = x]
    BY <1>5 DEF SetEnabled, Types
  <2>2. x \in Row /\ x.name = rows[i].name /\ x.key = rows[i].key
    BY <2>1 DEF Row
  <2> HIDE DEF x
  <2>3. rows' \in [Ids -> Row \cup {None}] /\ EditOf(i)
    BY <1>3, <2>1, <2>2
  <2> QED
    BY <1>5, <2>3 DEF SetEnabled, Edit, Types
<1>6. ASSUME NEW i \in Ids, NEW f \in Feeds, Relink(i, f) PROVE Goal
  <2> DEFINE x == [rows[i] EXCEPT !.feed = f]
  <2>1. rows[i] # None /\ rows[i] \in Row /\ ~Held(i) /\ rows' = [rows EXCEPT ![i] = x]
    BY <1>6 DEF Relink, Types
  <2>2. x \in Row /\ x.name = rows[i].name /\ x.key = rows[i].key
    BY <2>1 DEF Row
  <2> HIDE DEF x
  <2>3. rows' \in [Ids -> Row \cup {None}] /\ EditOf(i)
    BY <1>3, <2>1, <2>2
  <2> QED
    BY <1>6, <2>3 DEF Relink, Edit, Types
<1>7. ASSUME NEW i \in Ids, DeleteSubscription(i) PROVE Goal
  <2>1. rows[i] # None /\ \A r \in Runs : Written(r, i) = None
    BY <1>7 DEF DeleteSubscription, Held, Written
  <2>2. rows'[i] = None /\ \A j \in Ids \ {i} : rows'[j] = rows[j]
    BY <1>7 DEF DeleteSubscription, Types
  <2>3. EditOf(i)
    BY <1>7, <2>1, <2>2 DEF EditOf, DeleteSubscription
  <2> QED
    BY <1>7, <2>3 DEF DeleteSubscription, Edit, Types
<1>8. ASSUME NEW f \in Feeds, NEW active \in {"active", "inactive"}, SetActive(f, active) PROVE Goal
  BY <1>8 DEF SetActive, Edit, Types
<1>9. ASSUME NEW f \in Feeds, DeleteFeed(f) PROVE Goal
  BY <1>9 DEF DeleteFeed, Edit, Types
<1> QED
  BY <1>1, <1>2, <1>4, <1>5, <1>6, <1>7, <1>8, <1>9 DEF UserStep

LEMMA TypesStep == ASSUME Types, [Next]_vars PROVE Types'
<1>1. CASE UserStep
  BY <1>1, UserEdits DEF Types
<1>2. CASE \/ \E k \in Keys, n \in Names, f \in Feeds : RemoteAdd(k, n, f)
           \/ \E k \in Keys : RemoteRemove(k)
  BY <1>2, TypesRemote
<1>3. ASSUME NEW r \in Runs, Step(r) \/ Kill(r) PROVE Types'
  BY <1>3, TypesImport, TypesComposed, TypesPublish DEF Step
<1>4. ASSUME NEW p \in Publishes, StopFails(p) \/ UploadTorn(p) \/ RestartFails(p) \/ Interrupt(p)
      PROVE  Types'
  BY <1>4, TypesPublish DEF Runs
<1>5. CASE UNCHANGED vars
  BY <1>5 DEF vars, Types
<1> QED
  BY <1>1, <1>2, <1>3, <1>4, <1>5 DEF Next, UserStep

\* Every variable keeps its type, whatever the runs, YaRSS2 and the user do.
LEMMA TypesInvariant == Spec => []Types
<1>1. Types /\ [Next]_vars => Types'
  BY TypesStep
<1> QED
  BY TypesInitial, <1>1, PTL DEF Spec

-----------------------------------------------------------------------------
(* Keys. *)

\* The keys that a publish makes up lie above those of the file and of the rows,
\* and no two rows get the same.
LEMMA NewKeys ==
  ASSUME Types, NEW p \in Runs, NEW stubs \in SUBSET Ids
  PROVE  /\ HighestKey(p) \in Nat
         /\ \A i \in stubs : NewKey(p, i, stubs) \in Nat /\ NewKey(p, i, stubs) \notin KeysOf(View(p))
         /\ \A i, j \in stubs : NewKey(p, i, stubs) = NewKey(p, j, stubs) => i = j
<1> DEFINE S == {0} \cup {k + 1 : k \in KeysOf(View(p)) \cup {k \in Keys : run[p].raw.subs[k] # None}}
<1>1. KeysOf(View(p)) \subseteq Keys
  BY ViewTyped DEF KeysOf, Rowed, Stubs, Row
<1>2. S \subseteq Nat /\ S # {} /\ MaxEdits + 2 \in Nat /\ \A k \in S : k <= MaxEdits + 2
  <2> DEFINE K == KeysOf(View(p)) \cup {k \in Keys : run[p].raw.subs[k] # None}
  <2>1. K \subseteq Keys
    BY <1>1
  <2> HIDE DEF K
  <2>2. S = {0} \cup {k + 1 : k \in K}
    BY DEF K
  <2> QED
    BY <2>1, <2>2, RssConstants DEF Keys
<1>3. Max(S) \in S /\ \A k \in S : Max(S) >= k
  <2> HIDE DEF S
  <2> QED
    BY <1>2, MaxOfNaturals
<1>4. HighestKey(p) = Max(S)
  BY DEF HighestKey
<1>5. \A k \in KeysOf(View(p)) : k \in Nat /\ k + 1 <= Max(S)
  BY <1>1, <1>3 DEF Keys
<1>6. ASSUME NEW i \in stubs
      PROVE  IsFiniteSet({j \in stubs : j < i}) /\ Cardinality({j \in stubs : j < i}) \in Nat
  <2>1. IsFiniteSet(Ids)
    BY RssConstants, FS_Interval DEF Ids
  <2>2. IsFiniteSet({j \in stubs : j < i})
    BY <2>1, FS_Subset
  <2> QED
    BY <2>2, FS_CardinalityType
<1>7. \A i \in stubs : NewKey(p, i, stubs) \in Nat /\ NewKey(p, i, stubs) \notin KeysOf(View(p))
  <2> SUFFICES ASSUME NEW i \in stubs
               PROVE  NewKey(p, i, stubs) \in Nat /\ NewKey(p, i, stubs) \notin KeysOf(View(p))
    OBVIOUS
  <2> DEFINE m == Max(S)
             c == Cardinality({j \in stubs : j < i})
  <2>1. m \in Nat /\ c \in Nat /\ NewKey(p, i, stubs) = m + c
    BY <1>2, <1>3, <1>4, <1>6 DEF NewKey
  <2>2. \A k \in KeysOf(View(p)) : k \in Nat /\ k + 1 <= m
    BY <1>5
  <2> HIDE DEF m, c
  <2> QED
    BY <2>1, <2>2
<1>8. ASSUME NEW i \in stubs, NEW j \in stubs, i < j
      PROVE  NewKey(p, i, stubs) # NewKey(p, j, stubs)
  <2> DEFINE A == {l \in stubs : l < i}
             B == {l \in stubs : l < j}
  <2>1. A \subseteq B /\ i \in B /\ i \notin A
    <3>1. \A l \in stubs : l \in Int
      BY DEF Ids
    <3>2. i \in Int /\ j \in Int /\ i < j
      BY <1>8, <3>1
    <3>3. i \in B /\ i \notin A
      BY <1>8, <3>2
    <3>4. ASSUME NEW l \in A PROVE l \in B
      BY <3>1, <3>2, <3>4
    <3> QED
      BY <3>3, <3>4
  <2>2. IsFiniteSet(B) /\ IsFiniteSet(A) /\ Cardinality(A) \in Nat /\ Cardinality(B) \in Nat
    BY <1>6
  <2>3. Cardinality(A) # Cardinality(B)
    BY <2>1, <2>2, FS_Subset
  <2>4. HighestKey(p) \in Nat
    BY <1>2, <1>3, <1>4
  <2> HIDE DEF A, B
  <2>5. NewKey(p, i, stubs) = HighestKey(p) + Cardinality(A) /\ NewKey(p, j, stubs) = HighestKey(p) + Cardinality(B)
    BY DEF NewKey, A, B
  <2> QED
    BY <2>2, <2>3, <2>4, <2>5
<1>9. \A i, j \in stubs : i < j \/ j < i \/ i = j
  BY RssConstants DEF Ids
<1> QED
  BY <1>2, <1>3, <1>4, <1>7, <1>8, <1>9

\* What a publish composes: the enabled rows under their keys, and those without one
\* under a key each that it made up.
LEMMA ComposedKeys ==
  ASSUME Types, NEW p \in Runs, BuildSubscriptions(p)
  PROVE  /\ \A pair \in run'[p].keyed : pair[1] \in Stubs(View(p))
         /\ \A a, b \in run'[p].keyed : a[1] = b[1] <=> a[2] = b[2]
<1> DEFINE view == View(p)
           enabled == {i \in Rowed(view) : view[i].on}
           stubs == enabled \cap Stubs(view)
           key == [i \in enabled |-> IF i \in stubs THEN NewKey(p, i, stubs) ELSE view[i].key]
<1>1. run'[p].keyed = {<<i, key[i]>> : i \in stubs}
  BY DEF BuildSubscriptions, Types, RunRecord
<1>2. stubs \in SUBSET Ids /\ stubs \subseteq Stubs(view)
  BY DEF Rowed
<1>3. \A i \in stubs : key[i] = NewKey(p, i, stubs)
  OBVIOUS
<1>4. \A i, j \in stubs : key[i] = key[j] => i = j
  <2> HIDE DEF stubs, key
  <2> QED
    BY <1>2, <1>3, NewKeys
<1> HIDE DEF stubs, key, view
<1> QED
  BY <1>1, <1>2, <1>4 DEF view

\* What a step does to the transactions and to the keys made up.  A quiet one leaves
\* the rows alone, and may drop what a run has written and the keys.
Quiet ==
  /\ rows' = rows
  /\ \A r \in Runs, i \in Ids : run'[r].tx.rows[i] \in {Written(r, i), None}
  /\ \A r \in Runs : run'[r].keyed \in {run[r].keyed, {}}

LEMMA QuietRun ==
  ASSUME Types, NEW r \in Runs, NEW x, run' = [run EXCEPT ![r] = x], rows' = rows,
         \A i \in Ids : x.tx.rows[i] \in {Written(r, i), None}, x.keyed \in {run[r].keyed, {}}
  PROVE  Quiet
  BY DEF Types, Quiet, Written

LEMMA QuietSteps ==
  ASSUME Types, NEW r \in Runs,
         \/ Download(r) \/ Clash(r) \/ Kill(r) \/ Stop(r) \/ StopFails(r) \/ Backup(r)
         \/ BuildFeeds(r) \/ AssignFails(r) \/ Upload(r) \/ UploadTorn(r) \/ Restart(r)
         \/ RestartFails(r) \/ Interrupt(r) \/ (Finish(r) /\ run[r].raised)
  PROVE  Quiet
<1>1. run[r] \in RunRecord
  BY DEF Types
<1>2. /\ Over.keyed = {} /\ \A i \in Ids : Over.tx.rows[i] = None
      /\ \A pc, raised : LET x == At(pc, run[r].tx, raised) IN
           x.keyed = {} /\ \A i \in Ids : x.tx.rows[i] = Written(r, i)
  BY DEF Over, At, NoTx, Written
<1>3. CASE Clash(r) \/ Kill(r) \/ (Finish(r) /\ run[r].raised)
  BY <1>2, <1>3, QuietRun DEF Clash, Kill, Finish
<1>4. CASE StopFails(r) \/ AssignFails(r) \/ Upload(r) \/ UploadTorn(r) \/ Restart(r)
           \/ RestartFails(r) \/ Interrupt(r)
  <2>1. rows' = rows /\ \E pc, raised : run' = [run EXCEPT ![r] = At(pc, run[r].tx, raised)]
    <3>1. CASE StopFails(r)
      BY <3>1 DEF StopFails
    <3>2. CASE AssignFails(r)
      BY <3>2 DEF AssignFails
    <3>3. CASE Upload(r)
      BY <3>3 DEF Upload
    <3>4. CASE UploadTorn(r)
      BY <3>4 DEF UploadTorn
    <3>5. CASE Restart(r)
      BY <3>5 DEF Restart
    <3>6. CASE RestartFails(r)
      BY <3>6 DEF RestartFails
    <3>7. CASE Interrupt(r)
      BY <3>7 DEF Interrupt
    <3> QED
      BY <1>4, <3>1, <3>2, <3>3, <3>4, <3>5, <3>6, <3>7
  <2>2. PICK pc, raised : run' = [run EXCEPT ![r] = At(pc, run[r].tx, raised)]
    BY <2>1
  <2> DEFINE x == At(pc, run[r].tx, raised)
  <2>3. rows' = rows /\ run' = [run EXCEPT ![r] = x]
    BY <2>1, <2>2
  <2>4. x.keyed \in {run[r].keyed, {}} /\ \A i \in Ids : x.tx.rows[i] \in {Written(r, i), None}
    BY <1>2
  <2> HIDE DEF x
  <2> QED
    BY <2>3, <2>4, QuietRun
<1>5. CASE Download(r)
  <2> DEFINE x == [run[r] EXCEPT !.pc = IF file = Torn THEN "done" ELSE "import", !.raw = Loaded(file)]
  <2>1. run' = [run EXCEPT ![r] = x] /\ x.tx = run[r].tx /\ x.keyed = run[r].keyed
    BY <1>1, <1>5 DEF Download, RunRecord
  <2> HIDE DEF x
  <2> QED
    BY <1>5, <2>1, QuietRun DEF Download, Written
<1>6. CASE Stop(r) \/ Backup(r)
  <2>1. PICK pc \in Pcs : run' = [run EXCEPT ![r].pc = pc]
    BY <1>6 DEF Stop, Backup, Pcs
  <2> DEFINE x == [run[r] EXCEPT !.pc = pc]
  <2>2. run' = [run EXCEPT ![r] = x] /\ x.tx = run[r].tx /\ x.keyed = run[r].keyed
    BY <1>1, <2>1 DEF RunRecord
  <2> HIDE DEF x
  <2> QED
    BY <1>6, <2>2, QuietRun DEF Stop, Backup, Written
<1>7. CASE BuildFeeds(r)
  <2>1. PICK fs : run' = [run EXCEPT ![r].pc = "subs", ![r].out.feeds = fs]
    BY <1>7 DEF BuildFeeds
  <2> DEFINE x == [run[r] EXCEPT !.pc = "subs", !.out.feeds = fs]
  <2>2. run' = [run EXCEPT ![r] = x] /\ x.tx = run[r].tx /\ x.keyed = run[r].keyed
    BY <1>1, <2>1 DEF RunRecord
  <2> HIDE DEF x
  <2> QED
    BY <1>7, <2>2, QuietRun DEF BuildFeeds, Written
<1> QED
  BY <1>3, <1>4, <1>5, <1>6, <1>7

\* A step is quiet, or an edit of a row, or one of the four that write rows or keys.
LEMMA StepKinds ==
  ASSUME Types, [Next]_vars
  PROVE  \/ Quiet
         \/ UNCHANGED run /\ \E i \in Ids : EditOf(i)
         \/ \E r \in Runs : \/ Reconcile(r) \/ BuildSubscriptions(r) \/ AssignKeys(r)
                           \/ (Finish(r) /\ ~run[r].raised)
<1>1. rows' = rows /\ run' = run => Quiet
  BY DEF Quiet, Written
<1>2. CASE UserStep
  BY <1>1, <1>2, UserEdits
<1>3. ASSUME NEW k \in Keys, NEW n \in Names, NEW f \in Feeds, RemoteAdd(k, n, f) PROVE Quiet
  BY <1>1, <1>3 DEF RemoteAdd, Save
<1>4. ASSUME NEW k \in Keys, RemoteRemove(k) PROVE Quiet
  BY <1>1, <1>4 DEF RemoteRemove, Save
<1>5. CASE UNCHANGED vars
  BY <1>1, <1>5 DEF vars
<1>6. ASSUME NEW r \in Runs, Step(r) \/ Kill(r)
      PROVE  Quiet \/ Reconcile(r) \/ BuildSubscriptions(r) \/ AssignKeys(r) \/ (Finish(r) /\ ~run[r].raised)
  BY <1>6, QuietSteps DEF Step
<1>7. ASSUME NEW p \in Publishes, StopFails(p) \/ UploadTorn(p) \/ RestartFails(p) \/ Interrupt(p)
      PROVE  Quiet
  BY <1>7, QuietSteps DEF Runs
<1>8. \/ UserStep \/ UNCHANGED vars
      \/ \E k \in Keys, n \in Names, f \in Feeds : RemoteAdd(k, n, f)
      \/ \E k \in Keys : RemoteRemove(k)
      \/ \E r \in Runs : Step(r) \/ Kill(r)
      \/ \E p \in Publishes : StopFails(p) \/ UploadTorn(p) \/ RestartFails(p) \/ Interrupt(p)
  BY DEF Next, UserStep
<1>9. CASE \E r \in Runs : Step(r) \/ Kill(r)
  <2>1. PICK r \in Runs : Step(r) \/ Kill(r)
    BY <1>9
  <2> QED
    BY <1>6, <2>1
<1> QED
  BY <1>2, <1>3, <1>4, <1>5, <1>7, <1>8, <1>9

\* The keys of a run are those of its composition, or given up.
LEMMA OneKeyEachStep == ASSUME Types, OneKeyEach, [Next]_vars PROVE OneKeyEach'
<1>1. ASSUME Quiet PROVE OneKeyEach'
  BY <1>1 DEF Quiet, OneKeyEach, Runs
<1>2. CASE UNCHANGED run
  BY <1>2 DEF OneKeyEach
<1>3. ASSUME NEW r \in Runs, Reconcile(r) \/ AssignKeys(r) \/ BuildSubscriptions(r) \/ Finish(r)
      PROVE  OneKeyEach'
  <2>1. run[r] \in RunRecord /\ run \in [Runs -> RunRecord]
    BY DEF Types
  <2>2. \A q \in Runs \ {r} : run'[q].keyed = run[q].keyed
    BY <1>3, <2>1 DEF Reconcile, AssignKeys, BuildSubscriptions, Finish
  <2>3. \A a, b \in run'[r].keyed : a[1] = b[1] <=> a[2] = b[2]
    <3>1. CASE BuildSubscriptions(r)
      BY <3>1, ComposedKeys
    <3>2. CASE Finish(r)
      BY <2>1, <3>2 DEF Finish, Over, At
    <3>3. CASE Reconcile(r) \/ AssignKeys(r)
      <4>1. run'[r].keyed = run[r].keyed
        BY <2>1, <3>3 DEF Reconcile, AssignKeys, RunRecord
      <4> QED
        BY <4>1 DEF OneKeyEach
    <3> QED
      BY <1>3, <3>1, <3>2, <3>3
  <2> QED
    BY <2>2, <2>3 DEF OneKeyEach
<1> QED
  BY <1>1, <1>2, <1>3, StepKinds

LEMMA LocksInitial == Init => UniqueKeys /\ Locks /\ OneKeyEach
<1> SUFFICES ASSUME Init PROVE UniqueKeys /\ Locks /\ OneKeyEach
  OBVIOUS
<1>1. \A i \in Ids : rows[i] = None
  BY DEF Init
<1>2. \A r \in Runs : run[r].keyed = {} /\ \A i \in Ids : Written(r, i) = None
  BY DEF Init, At, NoTx, Written
<1> QED
  BY <1>1, <1>2 DEF UniqueKeys, Locks, OneKeyEach, Rowed

\* The import takes no row that another run holds and no key that one has written,
\* and keeps the names and the keys of the rows it updates.
LEMMA LocksReconcile ==
  ASSUME Types, UniqueKeys, Locks, NEW r \in Runs, Reconcile(r)
  PROVE  UniqueKeys' /\ Locks'
<1> DEFINE w(i) == Reconciled(r)[i]
<1>1. run[r] \in RunRecord /\ run[r].tx = NoTx
  BY DEF Types, Reconcile
<1>2. \A i \in Ids : Written(r, i)' = w(i) /\ Written(r, i) = None
  BY <1>1 DEF Written, Types, Reconcile, RunRecord, NoTx
<1>3. \A q \in Runs \ {r}, i \in Ids : Written(q, i)' = Written(q, i)
  BY DEF Written, Types, Reconcile
<1>4. rows' = rows
  BY DEF Reconcile
<1>5. ASSUME NEW i \in Ids, w(i) # None
      PROVE  /\ w(i).key \in Keys
             /\ \A q \in Runs : Written(q, i) = None
             /\ \/ /\ w(i).key \in ToCreate(r) /\ Target(r)[w(i).key] = i
                   /\ rows[i] # None => rows[i].key = None /\ rows[i].name = w(i).name
                \/ rows[i] # None /\ rows[i].key = w(i).key /\ rows[i].name = w(i).name
  <2>1. w(i) \in KeyedRow /\ (Created(r, i, w(i)) \/ Updated(r, i, w(i)))
    BY <1>5, ReconciledRow DEF Reconcile
  <2>2. i \in FreeIds \/ i \in ToUpdate(r) \cup Stubs(rows)
    BY <2>1 DEF Created, Updated
  <2>3. ~Held(i)
    BY <2>2 DEF Reconcile, FreeIds
  <2> HIDE DEF w
  <2> QED
    BY <2>1, <2>3 DEF KeyedRow, Held, Written, Created, Updated, FreeIds, Stubs, Rowed, ToUpdate
<1>6. \A k \in ToCreate(r), j \in Ids : rows[j] # None => rows[j].key # k
  BY RssConstants DEF ToCreate, KeysOf, Rowed, Stubs
<1>7. \A k \in ToCreate(r), q \in Runs \ {r}, j \in Ids : Written(q, j) # None => Written(q, j).key # k
  BY DEF Reconcile, Clashes, Written, Rowed
<1>8. \A i, j \in Ids : rows[i] # None /\ rows[j] # None /\ rows[i].key \in Keys /\ rows[i].key = rows[j].key => i = j
  BY RssConstants DEF UniqueKeys, Rowed, Stubs
<1> HIDE DEF w
<1>9. \A q \in Runs, s \in Runs, i \in Ids : Written(q, i)' # None /\ Written(s, i)' # None => q = s
  BY <1>2, <1>3, <1>5 DEF Locks
<1>10. ASSUME NEW q \in Runs, NEW s \in Runs, NEW i \in Ids, NEW j \in Ids,
              Written(q, i)' # None, Written(s, j)' # None, Written(q, i)'.key = Written(s, j)'.key
       PROVE  i = j
  <2>1. CASE q # r /\ s # r
    BY <1>3, <1>10, <2>1 DEF Locks
  <2>2. CASE q = r /\ s = r
    BY <1>2, <1>5, <1>6, <1>8, <1>10, <2>2
  <2>3. CASE q = r /\ s # r
    BY <1>2, <1>3, <1>5, <1>7, <1>10, <2>3 DEF Locks
  <2>4. CASE q # r /\ s = r
    BY <1>2, <1>3, <1>5, <1>7, <1>10, <2>4 DEF Locks
  <2> QED
    BY <2>1, <2>2, <2>3, <2>4
<1>11. ASSUME NEW q \in Runs, NEW i \in Ids, NEW j \in Ids,
              Written(q, i)' # None, rows[j] # None, Written(q, i)'.key = rows[j].key
       PROVE  i = j
  <2>1. CASE q # r
    BY <1>3, <1>11, <2>1 DEF Locks
  <2>2. CASE q = r
    BY <1>2, <1>5, <1>6, <1>8, <1>11, <2>2
  <2> QED
    BY <2>1, <2>2
<1>12. ASSUME NEW q \in Runs, NEW i \in Ids, Written(q, i)' # None, rows[i] # None
       PROVE  rows[i].name = Written(q, i)'.name /\ rows[i].key \in {None, Written(q, i)'.key}
  <2>1. CASE q # r
    BY <1>3, <1>12, <2>1 DEF Locks
  <2>2. CASE q = r
    BY <1>2, <1>5, <1>12, <2>2
  <2> QED
    BY <2>1, <2>2
<1>13. Locks'
  BY <1>4, <1>9, <1>10, <1>11, <1>12 DEF Locks
<1> QED
  BY <1>4, <1>13 DEF UniqueKeys, Rowed, Stubs

\* What a transaction sees: the name of every row, its key if it has one, and no key
\* twice.
LEMMA ViewKeeps ==
  ASSUME Types, UniqueKeys, Locks, NEW r \in Runs
  PROVE  /\ \A i \in Ids : rows[i] # None =>
              /\ View(r)[i] # None /\ View(r)[i].name = rows[i].name
              /\ rows[i].key # None => View(r)[i].key = rows[i].key
         /\ \A i, j \in Ids : View(r)[i] # None /\ View(r)[j] # None /\ View(r)[i].key # None
                              /\ View(r)[i].key = View(r)[j].key => i = j
<1>1. \A i \in Ids : View(r)[i] = IF Written(r, i) # None THEN Written(r, i) ELSE rows[i]
  BY DEF View, Written
<1>2. \A i, j \in Ids : rows[i] # None /\ rows[j] # None /\ rows[i].key # None /\ rows[i].key = rows[j].key => i = j
  BY DEF UniqueKeys, Rowed, Stubs
<1> QED
  BY <1>1, <1>2 DEF Locks

\* A commit with the keys of a publish, which nobody else may have written.
Commits(r, keyed) ==
  /\ Commit(r, keyed)
  /\ \A pair \in keyed : View(r)[pair[1]] # None
  /\ \A i, j \in Ids, k \in Keys : <<i, k>> \in keyed /\ <<j, k>> \in keyed => i = j
  /\ \A i \in Ids, k, l \in Keys : <<i, k>> \in keyed /\ <<i, l>> \in keyed => k = l
  /\ \A i, j \in Ids, k \in Keys : <<i, k>> \in keyed /\ View(r)[j] # None => View(r)[j].key # k
  /\ \A q \in Runs \ {r}, i \in Ids, k \in Keys : <<i, k>> \in keyed =>
       Written(q, i) = None /\ \A j \in Ids : Written(q, j) # None => Written(q, j).key # k
  /\ \A i \in Ids : Written(r, i)' = None
  /\ \A q \in Runs \ {r}, i \in Ids : Written(q, i)' = Written(q, i)

\* A committed row is what the transaction saw, with its new key if it got one.
LEMMA CommittedRow ==
  ASSUME Types, NEW r \in Runs, NEW keyed \in SUBSET (Ids \X Keys), Commits(r, keyed), NEW i \in Ids
  PROVE  /\ rows'[i] = None <=> View(r)[i] = None
         /\ View(r)[i] # None => rows'[i].name = View(r)[i].name
         /\ \A k \in Keys : <<i, k>> \in keyed => rows'[i].key = k
         /\ (\A k \in Keys : <<i, k>> \notin keyed) => rows'[i] = View(r)[i]
<1>1. View(r) \in [Ids -> Row \cup {None}]
  BY ViewTyped
<1>2. CASE \E k \in Keys : <<i, k>> \in keyed
  <2>1. PICK k \in Keys : <<i, k>> \in keyed
    BY <1>2
  <2>2. View(r)[i] # None /\ View(r)[i] \in Row
    <3>1. <<i, k>>[1] = i
      OBVIOUS
    <3> QED
      BY <1>1, <2>1, <3>1 DEF Commits
  <2>3. \A l \in Keys : <<i, l>> \in keyed => l = k
    BY <2>1 DEF Commits
  <2>4. (CHOOSE l \in Keys : <<i, l>> \in keyed) = k
    BY <2>1, <2>3
  <2>5. rows'[i] = [View(r)[i] EXCEPT !.key = k]
    BY <1>2, <2>4 DEF Commits, Commit
  <2>6. rows'[i] \in Row /\ rows'[i].key = k /\ rows'[i].name = View(r)[i].name
    BY <2>2, <2>5 DEF Row
  <2> QED
    BY <2>1, <2>2, <2>3, <2>6, NoneIsNoRow
<1>3. CASE \A k \in Keys : <<i, k>> \notin keyed
  BY <1>3 DEF Commits, Commit
<1> QED
  BY <1>2, <1>3

LEMMA LocksCommit ==
  ASSUME Types, UniqueKeys, Locks, NEW r \in Runs, NEW keyed \in SUBSET (Ids \X Keys),
         Commits(r, keyed)
  PROVE  UniqueKeys' /\ Locks'
<1>1. \A i \in Ids : View(r)[i] = IF Written(r, i) # None THEN Written(r, i) ELSE rows[i]
  BY DEF View, Written
<1>2. ASSUME NEW i \in Ids, NEW j \in Ids, rows'[i] # None, rows'[j] # None,
             rows'[i].key # None, rows'[i].key = rows'[j].key
      PROVE  i = j
  <2>1. View(r)[i] # None /\ View(r)[j] # None
    BY <1>2, CommittedRow
  <2>2. CASE (\A k \in Keys : <<i, k>> \notin keyed) /\ (\A k \in Keys : <<j, k>> \notin keyed)
    BY <1>2, <2>1, <2>2, CommittedRow, ViewKeeps
  <2>3. ASSUME NEW k \in Keys, <<i, k>> \in keyed PROVE i = j
    BY <1>2, <2>1, <2>3, CommittedRow DEF Commits
  <2>4. ASSUME NEW k \in Keys, <<j, k>> \in keyed PROVE i = j
    BY <1>2, <2>1, <2>4, CommittedRow DEF Commits
  <2> QED
    BY <2>2, <2>3, <2>4
<1>3. UniqueKeys'
  BY <1>2 DEF UniqueKeys, Rowed, Stubs
<1>4. ASSUME NEW q \in Runs, NEW i \in Ids, NEW j \in Ids,
             Written(q, i)' # None, rows'[j] # None, Written(q, i)'.key = rows'[j].key
      PROVE  i = j
  <2>1. q # r /\ Written(q, i)' = Written(q, i)
    BY <1>4 DEF Commits
  <2>2. View(r)[j] # None
    BY <1>4, CommittedRow
  <2>3. CASE \A k \in Keys : <<j, k>> \notin keyed
    BY <1>1, <1>4, <2>1, <2>2, <2>3, CommittedRow DEF Locks
  <2>4. ASSUME NEW k \in Keys, <<j, k>> \in keyed PROVE i = j
    BY <1>4, <2>1, <2>4, CommittedRow DEF Commits
  <2> QED
    BY <2>3, <2>4
<1>5. ASSUME NEW q \in Runs, NEW i \in Ids, Written(q, i)' # None, rows'[i] # None
      PROVE  rows'[i].name = Written(q, i)'.name /\ rows'[i].key \in {None, Written(q, i)'.key}
  <2>1. q # r /\ Written(q, i)' = Written(q, i) /\ Written(r, i) = None
    BY <1>5 DEF Commits, Locks
  <2>2. \A k \in Keys : <<i, k>> \notin keyed
    BY <1>5, <2>1 DEF Commits
  <2>3. rows'[i] = rows[i]
    BY <1>1, <2>1, <2>2, CommittedRow
  <2> QED
    BY <1>5, <2>1, <2>3 DEF Locks
<1>6. \A q, s \in Runs, i \in Ids : Written(q, i)' # None /\ Written(s, i)' # None => q = s
  BY DEF Commits, Locks
<1>7. \A q, s \in Runs, i, j \in Ids :
        Written(q, i)' # None /\ Written(s, j)' # None /\ Written(q, i)'.key = Written(s, j)'.key => i = j
  BY DEF Commits, Locks
<1>8. Locks'
  BY <1>4, <1>5, <1>6, <1>7 DEF Locks
<1> QED
  BY <1>3, <1>8

LEMMA AssignCommits ==
  ASSUME Types, OneKeyEach, NEW p \in Runs, AssignKeys(p)
  PROVE  run[p].keyed \in SUBSET (Ids \X Keys) /\ Commits(p, run[p].keyed)
<1> DEFINE keyed == run[p].keyed
<1>1. run[p] \in RunRecord /\ keyed \in SUBSET (Ids \X Keys)
  BY DEF Types, RunRecord
<1>2. \A i \in Ids, k \in Keys : <<i, k>> \in keyed => <<i, k>>[1] = i /\ <<i, k>>[2] = k
  OBVIOUS
<1>3. \A a, b \in keyed : a[1] = b[1] <=> a[2] = b[2]
  BY DEF OneKeyEach
<1>4. \A pair \in keyed : View(p)[pair[1]] # None
  BY DEF AssignKeys, Assignable
<1>5. \A i \in Ids, k \in Keys : <<i, k>> \in keyed => k \in Assigned(p)
  BY <1>2 DEF Assigned
<1>6. ASSUME NEW i \in Ids, NEW j \in Ids, NEW k \in Keys, <<i, k>> \in keyed, View(p)[j] # None
      PROVE  View(p)[j].key # k
  <2>1. k \notin KeysOf(View(p)) /\ k # None
    BY <1>5, <1>6, RssConstants DEF AssignKeys, Assignable
  <2> QED
    BY <1>6, <2>1 DEF KeysOf, Rowed, Stubs
<1>7. ASSUME NEW q \in Runs \ {p}, NEW i \in Ids, NEW k \in Keys, <<i, k>> \in keyed
      PROVE  Written(q, i) = None /\ \A j \in Ids : Written(q, j) # None => Written(q, j).key # k
  <2>1. k \in Assigned(p) /\ <<i, k>>[1] = i
    BY <1>5, <1>7
  <2> QED
    BY <1>7, <2>1 DEF AssignKeys, Written, Rowed
<1>8. \A i \in Ids : Written(p, i)' = None
  BY <1>1 DEF Written, AssignKeys, Types, RunRecord, NoTx
<1>9. \A q \in Runs \ {p}, i \in Ids : Written(q, i)' = Written(q, i)
  BY DEF Written, AssignKeys, Types
<1>10. Commit(p, keyed)
  BY DEF AssignKeys
<1> HIDE DEF keyed
<1>11. /\ \A i, j \in Ids, k \in Keys : <<i, k>> \in keyed /\ <<j, k>> \in keyed => i = j
       /\ \A i \in Ids, k, l \in Keys : <<i, k>> \in keyed /\ <<i, l>> \in keyed => k = l
  BY <1>2, <1>3
<1>12. Commits(p, keyed)
  BY <1>4, <1>6, <1>7, <1>8, <1>9, <1>10, <1>11 DEF Commits
<1> QED
  BY <1>1, <1>12 DEF keyed

LEMMA FinishCommits ==
  ASSUME Types, NEW r \in Runs, Finish(r), ~run[r].raised
  PROVE  Commits(r, {})
  BY DEF Commits, Finish, Written, Types, Over, At, NoTx

LEMMA LocksStep ==
  ASSUME Types, UniqueKeys, Locks, OneKeyEach, [Next]_vars
  PROVE  UniqueKeys' /\ Locks'
<1>1. ASSUME rows' = rows, \A r \in Runs, i \in Ids : Written(r, i)' \in {Written(r, i), None}
      PROVE  UniqueKeys' /\ Locks'
  BY <1>1 DEF UniqueKeys, Locks, Rowed, Stubs
<1>2. CASE Quiet
  BY <1>1, <1>2 DEF Quiet, Written
<1>3. ASSUME UNCHANGED run, NEW i \in Ids, EditOf(i) PROVE UniqueKeys' /\ Locks'
  <2>1. \A r \in Runs, j \in Ids : Written(r, j)' = Written(r, j)
    BY <1>3 DEF Written
  <2>2. UniqueKeys'
    BY <1>3 DEF UniqueKeys, Rowed, Stubs, EditOf
  <2>3. ASSUME NEW r \in Runs, NEW j \in Ids, NEW l \in Ids,
               Written(r, j) # None, rows'[l] # None, Written(r, j).key = rows'[l].key
        PROVE  j = l
    <3>1. Written(r, j).key # None
      BY <2>3, ViewTyped, RssConstants DEF KeyedRow
    <3>2. rows[l] # None /\ rows[l].key = rows'[l].key
      BY <1>3, <2>3, <3>1 DEF EditOf
    <3> QED
      BY <2>3, <3>2 DEF Locks
  <2>4. ASSUME NEW r \in Runs, NEW j \in Ids, Written(r, j) # None, rows'[j] # None
        PROVE  rows'[j].name = Written(r, j).name /\ rows'[j].key \in {None, Written(r, j).key}
    <3>1. j # i
      BY <1>3, <2>4 DEF EditOf
    <3> QED
      BY <1>3, <2>4, <3>1 DEF EditOf, Locks
  <2>5. Locks'
    BY <2>1, <2>3, <2>4 DEF Locks
  <2> QED
    BY <2>2, <2>5
<1>4. ASSUME NEW r \in Runs, Reconcile(r) PROVE UniqueKeys' /\ Locks'
  BY <1>4, LocksReconcile
<1>5. ASSUME NEW r \in Runs, BuildSubscriptions(r) PROVE UniqueKeys' /\ Locks'
  <2>1. rows' = rows /\ \A q \in Runs : run'[q].tx = run[q].tx
    <3>1. PICK pc, keyed, subs :
            run' = [run EXCEPT ![r].pc = pc, ![r].keyed = keyed, ![r].out.subs = subs]
      BY <1>5 DEF BuildSubscriptions
    <3> DEFINE x == [run[r] EXCEPT !.pc = pc, !.keyed = keyed, !.out.subs = subs]
    <3>2. run' = [run EXCEPT ![r] = x] /\ x.tx = run[r].tx
      BY <3>1 DEF Types, RunRecord
    <3> HIDE DEF x
    <3> QED
      BY <1>5, <3>2 DEF BuildSubscriptions, Types
  <2> QED
    BY <1>1, <2>1 DEF Written
<1>6. ASSUME NEW r \in Runs, AssignKeys(r) PROVE UniqueKeys' /\ Locks'
  BY <1>6, AssignCommits, LocksCommit
<1>7. ASSUME NEW r \in Runs, Finish(r), ~run[r].raised PROVE UniqueKeys' /\ Locks'
  BY <1>7, FinishCommits, LocksCommit
<1> QED
  BY <1>2, <1>3, <1>4, <1>5, <1>6, <1>7, StepKinds

LEMMA KeysInvariant == Spec => [](Types /\ UniqueKeys /\ Locks /\ OneKeyEach)
<1> DEFINE Inv == Types /\ UniqueKeys /\ Locks /\ OneKeyEach
<1>1. Init => Inv
  BY TypesInitial, LocksInitial
<1>2. Inv /\ [Next]_vars => Inv'
  BY TypesStep, LocksStep, OneKeyEachStep
<1> HIDE DEF Inv
<1>3. Spec => []Inv
  BY <1>1, <1>2, PTL DEF Spec
<1> QED
  BY <1>3 DEF Inv

\* The variables keep their types, and no two committed rows have one key, however
\* many imports and publishes write rows and keys at the same time and fail.
THEOREM RssTyped == Spec => []TypeOK
<1>1. Types /\ UniqueKeys => TypeOK
  BY DEF Types, UniqueKeys, TypeOK
<1> QED
  BY <1>1, KeysInvariant, PTL

-----------------------------------------------------------------------------
(* Subscriptions. *)

LEMMA NamesWith ==
  ASSUME NEW c \in Config, NEW k \in Keys, NEW x \in Subscription \cup {None},
         NEW d \in Config, d.subs = [c.subs EXCEPT ![k] = x]
  PROVE  /\ \A n \in NamesIn(c) : n \in NamesIn(d) \/ (c.subs[k] # None /\ n = c.subs[k].name)
         /\ x # None => x.name \in NamesIn(d)
<1>1. d \notin {Torn, Down} /\ c \notin {Torn, Down}
  BY ConfigIsNoMark
<1>2. DOMAIN c.subs = Keys
  BY DEF Config
<1>3. /\ NamesIn(c) = {c.subs[l].name : l \in {l \in Keys : c.subs[l] # None}}
      /\ NamesIn(d) = {d.subs[l].name : l \in {l \in Keys : d.subs[l] # None}}
  BY <1>1 DEF NamesIn
<1>4. d.subs[k] = x /\ \A l \in Keys \ {k} : d.subs[l] = c.subs[l]
  BY <1>2
<1> QED
  BY <1>3, <1>4

\* A step of one run, after which what is unsaved was so before and is still there.
LEMMA StillThereRun ==
  ASSUME Types, StillThere, NEW r \in Runs, NEW x, run' = [run EXCEPT ![r] = x],
         UNCHANGED <<seen, gone, late>>, saved \subseteq saved',
         r \in Imports => x.pc \in {"idle", "import", "finish", "done"},
         r \in Publishes => \A n \in Unsaved :
           x.pc \notin Late /\ (x.pc \in Early => n \in NamesIn(x.raw)),
         \A n \in Unsaved : n \in NamesIn(file') /\ (deluge' = Down \/ n \in NamesIn(deluge'))
  PROVE  StillThere'
<1>1. Unsaved' \subseteq Unsaved
  BY DEF Unsaved
<1>2. \A q \in Runs : run'[q] = IF q = r THEN x ELSE run[q]
  BY DEF Types
<1>3. ASSUME NEW n \in Unsaved', NEW p \in Publishes
      PROVE  /\ run'[p].pc \notin Late
             /\ run'[p].pc \in Early => n \in NamesIn(run'[p].raw)
  <2>1. p \in Runs /\ n \in Unsaved
    BY <1>1, <1>3 DEF Runs
  <2>2. CASE p = r
    <3>1. r \in Publishes
      BY <1>3, <2>2
    <3>2. x.pc \notin Late /\ (x.pc \in Early => n \in NamesIn(x.raw))
      BY <2>1, <3>1
    <3>3. run'[p] = x
      BY <1>2, <2>1, <2>2
    <3> QED
      BY <3>2, <3>3
  <2>3. CASE p # r
    BY <1>2, <2>1, <2>3 DEF StillThere
  <2> QED
    BY <2>2, <2>3
<1>4. \A q \in Imports : run'[q].pc \in {"idle", "import", "finish", "done"}
  BY <1>2 DEF StillThere, Runs
<1> QED
  BY <1>1, <1>3, <1>4 DEF StillThere

LEMMA StillThereInitial == Init => StillThere
  BY DEF Init, StillThere, Unsaved, At, Runs

LEMMA StillThereStep ==
  ASSUME Types, StillThere, [Next]_vars
  PROVE  StillThere'
<1>1. ASSUME UNCHANGED <<run, file, deluge, saved, seen, late>>, gone \subseteq gone'
      PROVE  StillThere'
  BY <1>1 DEF StillThere, Unsaved
<1>2. CASE UserStep
  BY <1>1, <1>2, UserEdits
<1>3. CASE UNCHANGED vars
  BY <1>1, <1>3 DEF vars, history
<1>4. ASSUME NEW k \in Keys, NEW n \in Names, NEW f \in Feeds, RemoteAdd(k, n, f) PROVE StillThere'
  <2> DEFINE x == [name |-> n, feed |-> f]
             g == deluge.feeds \cup {f}
  <2>1. deluge \in Config /\ deluge # Down /\ deluge.subs[k] = None
    BY <1>4 DEF RemoteAdd, Types
  <2>2. x \in Subscription /\ x.name = n /\ g \in SUBSET Feeds
    BY <2>1 DEF Subscription, Config
  <2>3. /\ file' \in Config /\ deluge' = file'
        /\ file'.subs = [deluge.subs EXCEPT ![k] = x]
    BY <1>4, <2>1, <2>2 DEF RemoteAdd, Save, Config
  <2>4. x # None
    BY <2>2, RssConstants
  <2> HIDE DEF x, g
  <2>5. n \in NamesIn(file') /\ \A m \in NamesIn(deluge) : m \in NamesIn(file')
    BY <2>1, <2>2, <2>3, <2>4, NamesWith
  <2>6. ASSUME NEW m \in Unsaved'
        PROVE  /\ m \in NamesIn(file')
               /\ \A p \in Publishes : /\ run[p].pc \notin Late
                                       /\ run[p].pc \in Early => m \in NamesIn(run[p].raw)
    <3>1. CASE m = n
      BY <1>4, <2>5, <2>6, <3>1 DEF Unsaved, RemoteAdd, Behind, Early, Late
    <3>2. CASE m # n
      <4>1. m \in Unsaved
        BY <1>4, <2>6, <3>2 DEF Unsaved, RemoteAdd, Save
      <4> QED
        BY <2>1, <2>5, <4>1 DEF StillThere
    <3> QED
      BY <3>1, <3>2
  <2>7. run' = run
    BY <1>4 DEF RemoteAdd, Save
  <2> QED
    BY <2>3, <2>6, <2>7 DEF StillThere
<1>5. ASSUME NEW k \in Keys, RemoteRemove(k) PROVE StillThere'
  <2>1. deluge \in Config /\ deluge # Down /\ deluge.subs[k] # None
    BY <1>5 DEF RemoteRemove, Types
  <2>2. /\ file' \in Config /\ deluge' = file' /\ run' = run
        /\ file'.subs = [deluge.subs EXCEPT ![k] = None]
    BY <1>5, <2>1 DEF RemoteRemove, Save, Config
  <2>3. \A m \in NamesIn(deluge) : m \in NamesIn(file') \/ m = deluge.subs[k].name
    BY <2>1, <2>2, NamesWith
  <2>4. \A m \in Unsaved' : m \in Unsaved /\ m # deluge.subs[k].name
    BY <1>5 DEF Unsaved, RemoteRemove, Save
  <2> QED
    BY <2>1, <2>2, <2>3, <2>4 DEF StillThere
<1>6. \A n \in Unsaved : /\ file \notin {Torn, Down} /\ Loaded(file) = file
                         /\ n \in NamesIn(file) /\ (deluge = Down \/ n \in NamesIn(deluge))
  BY DEF StillThere, NamesIn, Loaded
<1>7. ASSUME Stopped, NEW n \in Unsaved
      PROVE  n \in NamesIn(file') /\ (deluge' = Down \/ n \in NamesIn(deluge'))
  BY <1>6, <1>7 DEF Stopped
<1>8. ASSUME NEW r \in Runs, run[r].pc \in Late, UNCHANGED <<seen, gone, late, saved>>,
             NEW x, run' = [run EXCEPT ![r] = x]
      PROVE  StillThere'
  <2>1. r \in Publishes
    BY <1>8 DEF StillThere, Runs, Late
  <2>2. Unsaved = {}
    BY <1>8, <2>1 DEF StillThere
  <2>3. r \notin Imports
    BY <2>1, RssConstants
  <2> QED
    BY <1>8, <2>2, <2>3, StillThereRun
<1>9. ASSUME NEW r \in Runs, Step(r) \/ Kill(r) \/ StopFails(r) \/ UploadTorn(r)
                             \/ RestartFails(r) \/ Interrupt(r)
      PROVE  StillThere'
  <2>1. run[r] \in RunRecord
    BY DEF Types
  <2>2. \A pc, tx, raised : At(pc, tx, raised).pc = pc
    BY DEF At
  <2>3. CASE Download(r)
    <3> DEFINE x == [run[r] EXCEPT !.pc = IF file = Torn THEN "done" ELSE "import", !.raw = Loaded(file)]
    <3>1. x.pc \in {"import", "done"} /\ x.raw = Loaded(file)
      BY <2>1 DEF RunRecord
    <3>2. run' = [run EXCEPT ![r] = x]
      BY <2>3 DEF Download
    <3> HIDE DEF x
    <3> QED
      BY <1>6, <2>3, <3>1, <3>2, StillThereRun DEF Download, history, Late
  <2>4. CASE Reconcile(r)
    <3>1. PICK tx : run' = [run EXCEPT ![r].pc = IF r \in Imports THEN "finish" ELSE "stop", ![r].tx = tx]
      BY <2>4 DEF Reconcile
    <3> DEFINE x == [run[r] EXCEPT !.pc = IF r \in Imports THEN "finish" ELSE "stop", !.tx = tx]
    <3>2. /\ run' = [run EXCEPT ![r] = x] /\ x.raw = run[r].raw
          /\ x.pc = IF r \in Imports THEN "finish" ELSE "stop"
      BY <2>1, <3>1 DEF RunRecord
    <3>3. r \in Publishes => \A n \in Unsaved : n \in NamesIn(run[r].raw)
      BY <2>4 DEF StillThere, Reconcile, Early
    <3>4. ~(r \in Imports /\ r \in Publishes)
      BY RssConstants
    <3> HIDE DEF x
    <3> QED
      BY <1>6, <2>4, <3>2, <3>3, <3>4, StillThereRun DEF Reconcile, history, Late
  <2>5. CASE Clash(r) \/ Kill(r) \/ Finish(r)
    <3>1. Over.pc = "done"
      BY <2>2 DEF Over
    <3> QED
      BY <1>6, <2>5, <3>1, StillThereRun DEF Clash, Kill, Finish, history, Late, Early
  <2>6. r \in Imports => run[r].pc \in {"idle", "import", "finish", "done"}
    BY DEF StillThere
  <2>7. CASE Stop(r)
    <3> DEFINE x == [run[r] EXCEPT !.pc = "backup"]
    <3>1. run' = [run EXCEPT ![r] = x] /\ x.pc = "backup" /\ x.raw = run[r].raw
      BY <2>1, <2>7 DEF Stop, RunRecord
    <3>2. r \in Publishes => \A n \in Unsaved : n \in NamesIn(run[r].raw)
      BY <2>7 DEF StillThere, Stop, Early
    <3> HIDE DEF x
    <3> QED
      BY <1>7, <2>6, <2>7, <3>1, <3>2, StillThereRun DEF Stop, history, Late
  <2>8. CASE Backup(r)
    <3>1. Unsaved' = {}
      BY <2>6, <2>8 DEF StillThere, Backup, Early, Unsaved, Runs, history
    <3>2. \A q \in Imports : run'[q].pc \in {"idle", "import", "finish", "done"}
      BY <2>6, <2>8 DEF Backup, Types, StillThere, Runs
    <3> QED
      BY <3>1, <3>2 DEF StillThere
  <2>9. CASE BuildFeeds(r)
    <3>1. PICK fs : run' = [run EXCEPT ![r].pc = "subs", ![r].out.feeds = fs]
      BY <2>9 DEF BuildFeeds
    <3>2. run' = [run EXCEPT ![r] = [run[r] EXCEPT !.pc = "subs", !.out.feeds = fs]]
      BY <3>1
    <3> QED
      BY <1>8, <2>9, <3>2 DEF BuildFeeds, history, Late
  <2>10. CASE BuildSubscriptions(r)
    <3>1. PICK pc, keyed, subs :
            run' = [run EXCEPT ![r].pc = pc, ![r].keyed = keyed, ![r].out.subs = subs]
      BY <2>10 DEF BuildSubscriptions
    <3>2. run' = [run EXCEPT ![r] = [run[r] EXCEPT !.pc = pc, !.keyed = keyed, !.out.subs = subs]]
      BY <3>1
    <3> QED
      BY <1>8, <2>10, <3>2 DEF BuildSubscriptions, history, Late
  <2>11. CASE AssignKeys(r)
    <3>1. run' = [run EXCEPT ![r] = [run[r] EXCEPT !.pc = "upload", !.tx = NoTx]]
      BY <2>11 DEF AssignKeys
    <3> QED
      BY <1>8, <2>11, <3>1 DEF AssignKeys, Late
  <2>12. CASE AssignFails(r)
    BY <1>8, <2>12 DEF AssignFails, history, Late
  <2>13. CASE Upload(r)
    BY <1>8, <2>13 DEF Upload, Late
  <2>14. CASE UploadTorn(r)
    BY <1>8, <2>14 DEF UploadTorn, history, Late
  <2>15. ASSUME NEW pc \in {"restart", "finish"}, NEW tx, NEW raised,
                run' = [run EXCEPT ![r] = At(pc, tx, raised)], UNCHANGED <<seen, gone, late, saved>>,
                r \notin Imports,
                \A n \in Unsaved : n \in NamesIn(file') /\ (deluge' = Down \/ n \in NamesIn(deluge'))
         PROVE  StillThere'
    <3> DEFINE x == At(pc, tx, raised)
    <3>1. x.pc \notin Late \cup Early /\ run' = [run EXCEPT ![r] = x]
      BY <2>2, <2>15 DEF Late, Early
    <3> HIDE DEF x
    <3> QED
      BY <2>15, <3>1, StillThereRun
  <2>16. CASE StopFails(r)
    <3>1. \A n \in Unsaved : n \in NamesIn(file') /\ (deluge' = Down \/ n \in NamesIn(deluge'))
      BY <1>6, <1>7, <2>16 DEF StopFails
    <3> QED
      BY <2>6, <2>15, <2>16, <3>1 DEF StopFails, history
  <2>17. CASE Interrupt(r)
    <3>1. \A n \in Unsaved : n \in NamesIn(file') /\ (deluge' = Down \/ n \in NamesIn(deluge'))
      BY <1>6, <1>7, <2>17 DEF Interrupt
    <3> QED
      BY <2>6, <2>15, <2>17, <3>1 DEF Interrupt, history
  <2>18. CASE Restart(r)
    <3>1. \A n \in Unsaved : n \in NamesIn(file') /\ (deluge' = Down \/ n \in NamesIn(deluge'))
      BY <1>6, <2>18 DEF Restart
    <3> QED
      BY <2>6, <2>15, <2>18, <3>1 DEF Restart, history
  <2>19. CASE RestartFails(r)
    <3>1. \A n \in Unsaved : n \in NamesIn(file') /\ (deluge' = Down \/ n \in NamesIn(deluge'))
      BY <1>6, <2>19 DEF RestartFails
    <3> QED
      BY <2>6, <2>15, <2>19, <3>1 DEF RestartFails
  <2> QED
    BY <1>9, <2>3, <2>4, <2>5, <2>7, <2>8, <2>9, <2>10, <2>11, <2>12, <2>13, <2>14, <2>16, <2>17,
       <2>18, <2>19 DEF Step
<1>10. \/ UserStep \/ UNCHANGED vars
       \/ \E k \in Keys, n \in Names, f \in Feeds : RemoteAdd(k, n, f)
       \/ \E k \in Keys : RemoteRemove(k)
       \/ \E r \in Runs : \/ Step(r) \/ Kill(r) \/ StopFails(r) \/ UploadTorn(r)
                         \/ RestartFails(r) \/ Interrupt(r)
  BY DEF Next, UserStep, Runs
<1> QED
  BY <1>2, <1>3, <1>4, <1>5, <1>9, <1>10

\* A subscription that was ever in the remote file is still in it or in a backup,
\* unless the user gave it up or YaRSS2 added it behind the download of a publish:
\* whichever runs overlap, whatever fails, and whenever Deluge is stopped.
THEOREM NothingIsLost == Spec => []NothingLostUnlessLate
<1>1. Init => Types /\ StillThere
  BY TypesInitial, StillThereInitial
<1>2. Types /\ StillThere /\ [Next]_vars => (Types /\ StillThere)'
  BY TypesStep, StillThereStep
<1>3. StillThere => NothingLostUnlessLate
  BY DEF StillThere, Unsaved, NothingLostUnlessLate
<1> QED
  BY <1>1, <1>2, <1>3, PTL DEF Spec

-----------------------------------------------------------------------------
(* Uploaded keys. *)

\* What a publish composes under a key it made up is the row that it made it up for.
LEMMA ComposedNames ==
  ASSUME Types, NEW p \in Runs, BuildSubscriptions(p), NEW pair \in run'[p].keyed
  PROVE  /\ run'[p].pc = "assign" /\ rows[pair[1]] # None
         /\ run'[p].out.subs[pair[2]].name = rows[pair[1]].name
<1> DEFINE view == View(p)
           enabled == {i \in Rowed(view) : view[i].on}
           stubs == enabled \cap Stubs(view)
           key == [i \in enabled |-> IF i \in stubs THEN NewKey(p, i, stubs) ELSE view[i].key]
           row(k) == CHOOSE i \in enabled : key[i] = k
           sub(k) == [name |-> view[row(k)].name, feed |-> view[row(k)].feed]
           subs == [k \in Keys |-> IF \E i \in enabled : key[i] = k THEN sub(k) ELSE None]
           keyed == {<<i, key[i]>> : i \in stubs}
           pc == IF stubs = {} THEN "upload" ELSE "assign"
           x == [run[p] EXCEPT !.pc = pc, !.keyed = keyed, !.out.subs = subs]
<1>1. (\A i \in stubs : key[i] \in Keys) /\ run' = [run EXCEPT ![p] = x]
  BY DEF BuildSubscriptions
<1>2. run'[p] = x /\ x.pc = pc /\ x.keyed = keyed /\ x.out.subs = subs
  <2> HIDE DEF pc, keyed, subs
  <2> QED
    BY <1>1 DEF Types, RunRecord, Config
<1>3. PICK i \in stubs : pair = <<i, key[i]>>
  <2> HIDE DEF x, key, stubs
  <2> QED
    BY <1>2
<1>4. i \in enabled /\ key[i] \in Keys /\ stubs # {} /\ stubs \in SUBSET Ids
  BY <1>1, <1>3 DEF Rowed
<1>5. ASSUME NEW j \in enabled, key[j] = key[i] PROVE j = i
  <2>1. CASE j \in stubs
    <3>1. key[j] = NewKey(p, j, stubs) /\ key[i] = NewKey(p, i, stubs)
      BY <2>1
    <3> HIDE DEF stubs, key
    <3> QED
      BY <1>3, <1>4, <1>5, <2>1, <3>1, NewKeys
  <2>2. CASE j \notin stubs
    <3>1. key[j] = view[j].key /\ view[j].key \in KeysOf(view)
      BY <2>2 DEF KeysOf, Rowed
    <3>2. key[i] = NewKey(p, i, stubs)
      BY <1>4
    <3>3. key[i] \notin KeysOf(view)
      <4> HIDE DEF stubs, key
      <4> QED
        BY <1>3, <1>4, <3>2, NewKeys
    <3> QED
      BY <1>5, <3>1, <3>3
  <2> QED
    BY <2>1, <2>2
<1>6. row(key[i]) = i
  <2> HIDE DEF enabled, key
  <2> QED
    BY <1>4, <1>5
<1>7. subs[key[i]].name = view[i].name
  <2> HIDE DEF enabled, key, row
  <2> QED
    BY <1>4, <1>6
<1>8. view[i] = rows[i] /\ rows[i] # None
  <2>1. view[i] # None /\ view[i].key = None /\ i \in Ids
    BY <1>3 DEF Rowed, Stubs
  <2>2. Written(p, i) # None => Written(p, i).key # None
    BY <2>1, ViewTyped, RssConstants DEF KeyedRow
  <2> QED
    BY <2>1, <2>2 DEF View, Written
<1> HIDE DEF subs, key, stubs, view, x
<1> QED
  BY <1>2, <1>3, <1>4, <1>7, <1>8

\* What is forsaken stays so, but for a name that YaRSS2 adds again, and that no
\* publish has made up a key for.
LEMMA ForsakenStays ==
  ASSUME Types, [Next]_vars, NEW n \in Published, n \in Forsaken
  PROVE  n \in Forsaken'
<1>1. CASE UserStep
  BY <1>1, UserEdits DEF Forsaken
<1>2. ASSUME NEW k \in Keys, NEW m \in Names, NEW f \in Feeds, RemoteAdd(k, m, f) PROVE n \in Forsaken'
  BY <1>2 DEF Forsaken, RemoteAdd
<1>3. ASSUME NEW k \in Keys, RemoteRemove(k) PROVE n \in Forsaken'
  BY <1>3 DEF Forsaken, RemoteRemove
<1>4. ASSUME NEW r \in Runs, \/ Step(r) \/ Kill(r) \/ StopFails(r) \/ UploadTorn(r)
                             \/ RestartFails(r) \/ Interrupt(r)
      PROVE  n \in Forsaken'
  <2>1. gone' = gone /\ (rekeyed' = rekeyed \/ AssignKeys(r))
    BY <1>4 DEF Step, Download, Reconcile, Clash, Stop, Backup, BuildFeeds, BuildSubscriptions,
                AssignKeys, AssignFails, Upload, Restart, Finish, Kill, StopFails, UploadTorn,
                RestartFails, Interrupt, history
  <2> QED
    BY <2>1 DEF Forsaken, AssignKeys
<1>5. CASE UNCHANGED vars
  BY <1>5 DEF Forsaken, vars, history
<1> QED
  BY <1>1, <1>2, <1>3, <1>4, <1>5 DEF Next, UserStep, Runs

\* A row keeps its name and its key, or its name is forsaken.
RowsKept ==
  \A i \in Ids : rows[i] # None =>
    \/ rows[i].name \in Forsaken'
    \/ /\ rows'[i] # None /\ rows'[i].name = rows[i].name
       /\ rows[i].key # None => rows'[i].key = rows[i].key

LEMMA KeepsRows ==
  ASSUME Types, UniqueKeys, Locks, OneKeyEach, [Next]_vars
  PROVE  RowsKept
<1>1. CASE Quiet
  BY <1>1 DEF Quiet, RowsKept
<1>2. ASSUME NEW i \in Ids, EditOf(i) PROVE RowsKept
  BY <1>2 DEF EditOf, RowsKept, Forsaken
<1>3. ASSUME NEW r \in Runs, Reconcile(r) \/ BuildSubscriptions(r) PROVE RowsKept
  BY <1>3 DEF Reconcile, BuildSubscriptions, RowsKept
<1>4. ASSUME NEW r \in Runs, Finish(r), ~run[r].raised PROVE RowsKept
  <2>1. Commits(r, {})
    BY <1>4, FinishCommits
  <2>2. \A i \in Ids : rows'[i] = View(r)[i]
    BY <2>1, CommittedRow
  <2> QED
    BY <2>2, ViewKeeps DEF RowsKept
<1>5. ASSUME NEW p \in Runs, AssignKeys(p) PROVE RowsKept
  <2> SUFFICES ASSUME NEW i \in Ids, rows[i] # None, rows[i].name \notin Forsaken'
               PROVE  /\ rows'[i] # None /\ rows'[i].name = rows[i].name
                      /\ rows[i].key # None => rows'[i].key = rows[i].key
    BY DEF RowsKept
  <2>1. run[p].keyed \in SUBSET (Ids \X Keys) /\ Commits(p, run[p].keyed)
    BY <1>5, AssignCommits
  <2>2. View(p)[i] # None /\ View(p)[i].name = rows[i].name
        /\ (rows[i].key # None => View(p)[i].key = rows[i].key)
    BY ViewKeeps
  <2>3. ASSUME NEW k \in Keys, <<i, k>> \in run[p].keyed PROVE rows[i].key = None
    <3>1. i \notin Rekeyed(p)
      BY <1>5 DEF Forsaken, AssignKeys
    <3>2. <<i, k>>[1] = i
      OBVIOUS
    <3> QED
      BY <2>3, <3>1, <3>2 DEF Rekeyed, Stubs
  <2> QED
    BY <2>1, <2>2, <2>3, CommittedRow
<1> QED
  BY <1>1, <1>2, <1>3, <1>4, <1>5, StepKinds

\* The keys that a run made up stay with what it composed, until they are assigned
\* or given up.
LEMMA KeepsKeys ==
  ASSUME Types, KnownKeys, [Next]_vars, NEW p \in Runs
  PROVE  \/ run'[p].keyed = {} \/ run'[p] = run[p]
         \/ BuildSubscriptions(p) \/ AssignKeys(p)
<1> DEFINE Goal == \/ run'[p].keyed = {} \/ run'[p] = run[p]
                   \/ BuildSubscriptions(p) \/ AssignKeys(p)
<1>1. run[p] \in RunRecord /\ run \in [Runs -> RunRecord]
  BY DEF Types
<1>2. run' = run => Goal
  OBVIOUS
<1>3. ASSUME NEW r \in Runs, NEW x, run' = [run EXCEPT ![r] = x], r = p => x.keyed = {} PROVE Goal
  BY <1>1, <1>3
<1>4. run[p].pc \notin {"assign", "upload"} => run[p].keyed = {}
  BY DEF KnownKeys
<1>5. ASSUME NEW r \in Runs, \/ Step(r) \/ Kill(r) \/ StopFails(r) \/ UploadTorn(r)
                             \/ RestartFails(r) \/ Interrupt(r)
      PROVE  Goal
  <2>1. CASE r # p
    <3>1. \E x : run' = [run EXCEPT ![r] = x]
      BY <1>5 DEF Step, Download, Reconcile, Clash, Stop, Backup, BuildFeeds, BuildSubscriptions,
                  AssignKeys, AssignFails, Upload, Restart, Finish, Kill, StopFails, UploadTorn,
                  RestartFails, Interrupt
    <3> QED
      BY <1>3, <2>1, <3>1
  <2>2. CASE Clash(p) \/ Finish(p) \/ Kill(p)
    <3>1. Over.keyed = {} /\ run' = [run EXCEPT ![p] = Over]
      BY <2>2 DEF Over, At, Clash, Finish, Kill
    <3> QED
      BY <1>3, <3>1
  <2>3. CASE \/ AssignFails(p) \/ Upload(p) \/ Restart(p) \/ StopFails(p) \/ UploadTorn(p)
             \/ RestartFails(p) \/ Interrupt(p)
    <3>1. \E raised, pc : run' = [run EXCEPT ![p] = At(pc, run[p].tx, raised)]
      BY <2>3 DEF AssignFails, Upload, Restart, StopFails, UploadTorn, RestartFails, Interrupt
    <3>2. \A pc, raised : At(pc, run[p].tx, raised).keyed = {}
      BY DEF At
    <3> QED
      BY <1>3, <3>1, <3>2
  <2>4. CASE Download(p) \/ Reconcile(p) \/ Stop(p) \/ Backup(p) \/ BuildFeeds(p)
    <3>1. run'[p].keyed = run[p].keyed
      BY <1>1, <2>4 DEF RunRecord, Download, Reconcile, Stop, Backup, BuildFeeds
    <3>2. run[p].pc \notin {"assign", "upload"}
      BY <2>4 DEF Download, Reconcile, Stop, Backup, BuildFeeds
    <3> QED
      BY <1>4, <3>1, <3>2
  <2> QED
    BY <1>5, <2>1, <2>2, <2>3, <2>4 DEF Step
<1>6. CASE UserStep
  BY <1>2, <1>6, UserEdits
<1>7. ASSUME NEW k \in Keys, NEW m \in Names, NEW f \in Feeds, RemoteAdd(k, m, f) PROVE Goal
  BY <1>2, <1>7 DEF RemoteAdd, Save
<1>8. ASSUME NEW k \in Keys, RemoteRemove(k) PROVE Goal
  BY <1>2, <1>8 DEF RemoteRemove, Save
<1>9. CASE UNCHANGED vars
  BY <1>2, <1>9 DEF vars
<1> QED
  BY <1>5, <1>6, <1>7, <1>8, <1>9 DEF Next, UserStep, Runs

\* Keys are given by an upload only.
LEMMA GivenByUpload ==
  ASSUME Types, [Next]_vars
  PROVE  given' = given \/ \E p \in Runs : Upload(p)
<1>1. CASE UserStep
  BY <1>1, UserEdits
<1>2. ASSUME NEW r \in Runs, \/ Step(r) \/ Kill(r) \/ StopFails(r) \/ UploadTorn(r)
                             \/ RestartFails(r) \/ Interrupt(r)
      PROVE  given' = given \/ Upload(r)
  BY <1>2 DEF Step, Download, Reconcile, Clash, Stop, Backup, BuildFeeds, BuildSubscriptions,
              AssignKeys, AssignFails, Restart, Finish, Kill, StopFails, UploadTorn,
              RestartFails, Interrupt, history
<1>3. CASE \/ \E k \in Keys, n \in Names, f \in Feeds : RemoteAdd(k, n, f)
           \/ \E k \in Keys : RemoteRemove(k)
  BY <1>3 DEF RemoteAdd, RemoteRemove, Save
<1>4. CASE UNCHANGED vars
  BY <1>4 DEF vars, history
<1> QED
  BY <1>1, <1>2, <1>3, <1>4 DEF Next, UserStep, Runs

LEMMA KnownKeysStep ==
  ASSUME Types, UniqueKeys, Locks, OneKeyEach, StillThere, KnownKeys, [Next]_vars
  PROVE  KnownKeys'
<1>1. RowsKept
  BY KeepsRows
<1>2. ASSUME NEW k \in Keys, NEW n, KeyIn(rows, k, n) PROVE n \in Forsaken' \/ KeyIn(rows', k, n)
  <2>1. PICK i \in Rowed(rows) : rows[i].key = k /\ rows[i].name = n
    BY <1>2 DEF KeyIn
  <2>2. k # None
    BY RssConstants
  <2> QED
    BY <1>1, <2>1, <2>2 DEF RowsKept, KeyIn, Rowed
<1>3. \A p \in Runs : \A pair \in run[p].keyed : run[p].out.subs[pair[2]].name \in Published
  <2> SUFFICES ASSUME NEW p \in Runs, NEW pair \in run[p].keyed
               PROVE  run[p].out.subs[pair[2]].name \in Published
    OBVIOUS
  <2> DEFINE made(q) == {run[q].out.subs[k[2]].name : k \in run[q].keyed}
  <2>1. p \in Publishes
    BY DEF KnownKeys, StillThere, Runs
  <2>2. run[p].out.subs[pair[2]].name \in made(p)
    OBVIOUS
  <2>3. made(p) \subseteq Published
    BY <2>1 DEF Published
  <2> QED
    BY <2>2, <2>3
<1>4. \A pair \in given : pair[2] \in Published
  BY DEF Published
<1>5. ASSUME NEW pair \in given'
      PROVE  pair[1] \in Keys /\ (pair[2] \in Forsaken' \/ KeyIn(rows', pair[1], pair[2]))
  <2>1. CASE pair \in given
    <3>1. pair[1] \in Keys /\ (pair[2] \in Forsaken \/ KeyIn(rows, pair[1], pair[2]))
      BY <2>1 DEF KnownKeys
    <3>2. pair[2] \in Forsaken => pair[2] \in Forsaken'
      BY <1>4, <2>1, ForsakenStays
    <3> QED
      BY <1>2, <3>1, <3>2
  <2>2. CASE pair \notin given
    <3>1. PICK p \in Runs : Upload(p)
      BY <1>5, <2>2, GivenByUpload
    <3>2. PICK made \in run[p].keyed : pair = <<made[2], run[p].out.subs[made[2]].name>>
      BY <1>5, <2>2, <3>1 DEF Upload
    <3> DEFINE n == run[p].out.subs[made[2]].name
    <3>3. pair[1] = made[2] /\ pair[2] = n
      BY <3>2
    <3>4. run[p].keyed \in SUBSET (Ids \X Keys)
      BY DEF Types, RunRecord
    <3>5. n \in Forsaken \/ KeyIn(rows, made[2], n)
      BY <3>1, <3>2 DEF KnownKeys, Upload
    <3>6. rows' = rows /\ Forsaken' = Forsaken
      BY <3>1 DEF Upload, Forsaken
    <3> HIDE DEF n
    <3> QED
      BY <3>2, <3>3, <3>4, <3>5, <3>6 DEF KeyIn, Rowed
  <2> QED
    BY <2>1, <2>2
<1>6. ASSUME NEW p \in Runs, NEW pair \in run'[p].keyed
      PROVE  LET n == run'[p].out.subs[pair[2]].name IN
             /\ run'[p].pc = "assign" => n \in Forsaken' \/ (rows'[pair[1]] # None /\ rows'[pair[1]].name = n)
             /\ run'[p].pc = "upload" => n \in Forsaken' \/ KeyIn(rows', pair[2], n)
             /\ run'[p].pc \in {"assign", "upload"}
  <2> DEFINE n == run[p].out.subs[pair[2]].name
  <2>1. run[p] \in RunRecord /\ run[p].keyed \in SUBSET (Ids \X Keys)
    BY DEF Types, RunRecord
  <2>2. ASSUME pair \in run[p].keyed PROVE n \in Forsaken => n \in Forsaken'
    BY <1>3, <2>2, ForsakenStays
  <2>3. CASE run'[p] = run[p]
    <3>1. pair \in run[p].keyed /\ pair[1] \in Ids /\ pair[2] \in Keys
      BY <1>6, <2>1, <2>3
    <3>2. /\ run[p].pc = "assign" => n \in Forsaken \/ (rows[pair[1]] # None /\ rows[pair[1]].name = n)
          /\ run[p].pc = "upload" => n \in Forsaken \/ KeyIn(rows, pair[2], n)
          /\ run[p].pc \in {"assign", "upload"}
      BY <3>1 DEF KnownKeys
    <3>3. n \in Forsaken => n \in Forsaken'
      BY <2>2, <3>1
    <3> HIDE DEF n
    <3>4. KeyIn(rows, pair[2], n) => n \in Forsaken' \/ KeyIn(rows', pair[2], n)
      BY <1>2, <3>1
    <3>5. rows[pair[1]] # None /\ rows[pair[1]].name = n =>
            n \in Forsaken' \/ (rows'[pair[1]] # None /\ rows'[pair[1]].name = n)
      BY <1>1, <3>1 DEF RowsKept
    <3> QED
      BY <2>3, <3>2, <3>3, <3>4, <3>5 DEF n
  <2>4. CASE BuildSubscriptions(p)
    <3>1. rows' = rows
      BY <2>4 DEF BuildSubscriptions
    <3> QED
      BY <1>6, <2>4, <3>1, ComposedNames
  <2>5. CASE AssignKeys(p)
    <3>1. /\ run'[p].keyed = run[p].keyed /\ run'[p].out = run[p].out /\ run'[p].pc = "upload"
          /\ run[p].pc = "assign"
      BY <2>1, <2>5 DEF AssignKeys, Types, RunRecord
    <3>2. pair \in run[p].keyed /\ pair[1] \in Ids /\ pair[2] \in Keys /\ pair = <<pair[1], pair[2]>>
      BY <1>6, <2>1, <3>1
    <3>3. n \in Forsaken \/ (rows[pair[1]] # None /\ rows[pair[1]].name = n)
      BY <3>1, <3>2 DEF KnownKeys
    <3>4. n \in Forsaken => n \in Forsaken'
      BY <2>2, <3>2
    <3> HIDE DEF n
    <3>5. ASSUME rows[pair[1]] # None, rows[pair[1]].name = n PROVE KeyIn(rows', pair[2], n)
      <4>1. Commits(p, run[p].keyed)
        BY <2>5, AssignCommits
      <4>2. View(p)[pair[1]] # None /\ View(p)[pair[1]].name = n
        BY <3>2, <3>5, ViewKeeps
      <4>3. rows'[pair[1]] # None /\ rows'[pair[1]].name = n /\ rows'[pair[1]].key = pair[2]
        BY <2>1, <3>2, <4>1, <4>2, CommittedRow
      <4> QED
        BY <3>2, <4>3 DEF KeyIn, Rowed
    <3> QED
      BY <3>1, <3>3, <3>4, <3>5 DEF n
  <2> QED
    BY <1>6, <2>3, <2>4, <2>5, KeepsKeys
<1> QED
  BY <1>5, <1>6 DEF KnownKeys

\* A key that a publish made up and uploaded is the key of the row that it was made
\* up for, whatever the runs and the user do and whatever fails in between, unless
\* the user gave the subscription up or it got a second key.
THEOREM UploadedKeysAreKnown == Spec => []UploadedKeyIsKnownUnlessRekeyed
<1>1. Init => Types /\ UniqueKeys /\ Locks /\ OneKeyEach /\ StillThere /\ KnownKeys
  <2>1. Init => KnownKeys
    BY DEF Init, KnownKeys, At
  <2> QED
    BY <2>1, TypesInitial, LocksInitial, StillThereInitial
<1>2. Types /\ UniqueKeys /\ Locks /\ OneKeyEach /\ StillThere /\ KnownKeys /\ [Next]_vars
      => (Types /\ UniqueKeys /\ Locks /\ OneKeyEach /\ StillThere /\ KnownKeys)'
  BY TypesStep, LocksStep, OneKeyEachStep, StillThereStep, KnownKeysStep
<1>3. KnownKeys => UploadedKeyIsKnownUnlessRekeyed
  BY DEF KnownKeys, KeyIn, Forsaken, UploadedKeyIsKnownUnlessRekeyed
<1> QED
  BY <1>1, <1>2, <1>3, PTL DEF Spec
=============================================================================
