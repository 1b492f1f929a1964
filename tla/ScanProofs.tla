----------------------------- MODULE ScanProofs -----------------------------
(***************************************************************************)
(* Proofs about Scan, for any tree of any depth, any number of scans,      *)
(* seeds and faults, and any size of a batch: types and unique keys, and   *)
(* that a known directory holds no file that had been there at its walk    *)
(* and has no row.                                                         *)
(***************************************************************************)
EXTENDS Scan, FiniteSetTheorems, TLAPS

-----------------------------------------------------------------------------
(* The tree. *)

\* d is above e: every set that holds what is in d, and with a directory what
\* is in it, holds e.
Closed(S, d) == \A c \in Entries : Parent[c] = d \/ Parent[c] \in S => c \in S
IsAbove(d, e) == \A S \in SUBSET Entries : Closed(S, d) => e \in S
Ancestors == [e \in Entries |-> {d \in Directories : IsAbove(d, e)}]

\* The ancestors of an entry are its parent and the parent's ancestors.
LEMMA AncestorsUnfold ==
  ASSUME NEW e \in Entries
  PROVE  Ancestors[e] = IF Parent[e] \in Roots THEN {} ELSE {Parent[e]} \cup Ancestors[Parent[e]]
<1> USE ScanConstants DEF Entries, Closed
<1>1. ASSUME NEW c \in Entries, Parent[c] \notin Roots
      PROVE  {Parent[c]} \cup Ancestors[Parent[c]] \subseteq Ancestors[c]
  <2>1. Parent[c] \in Directories
    BY <1>1
  <2>2. IsAbove(Parent[c], c)
    BY <2>1 DEF IsAbove
  <2>3. ASSUME NEW d \in Ancestors[Parent[c]] PROVE d \in Directories /\ IsAbove(d, c)
    BY <2>1, <2>3 DEF Ancestors, IsAbove
  <2> QED
    BY <2>1, <2>2, <2>3 DEF Ancestors
<1>2. ASSUME NEW d \in Ancestors[e]
      PROVE  Parent[e] \notin Roots /\ d \in {Parent[e]} \cup Ancestors[Parent[e]]
  <2> DEFINE S == {c \in Entries : Parent[c] \notin Roots
                                   /\ d \in {Parent[c]} \cup Ancestors[Parent[c]]}
  <2>1. d \in Directories /\ IsAbove(d, e)
    BY <1>2 DEF Ancestors
  <2>2. ASSUME NEW c \in Entries, Parent[c] = d PROVE c \in S
    BY <2>1, <2>2
  <2>3. ASSUME NEW c \in Entries, Parent[c] \in S PROVE c \in S
    <3>1. Parent[c] \in Entries /\ d \in {Parent[Parent[c]]} \cup Ancestors[Parent[Parent[c]]]
      BY <2>3
    <3>2. d \in Ancestors[Parent[c]]
      BY <3>1, <1>1, <2>3
    <3> QED
      BY <3>1, <3>2
  <2>4. e \in S
    <3> HIDE DEF S
    <3>1. S \in SUBSET Entries
      BY DEF S
    <3> QED
      BY <2>1, <2>2, <2>3, <3>1 DEF IsAbove
  <2> QED
    BY <2>4
<1> QED
  BY <1>1, <1>2

\* Above, which is defined by recursion, is a function with this equation.
LEMMA AboveUnfolds ==
  ASSUME NEW e \in Entries
  PROVE  Above[e] = IF Parent[e] \in Roots THEN {} ELSE {Parent[e]} \cup Above[Parent[e]]
<1> DEFINE Step(f) == [c \in Entries |-> IF Parent[c] \in Roots THEN {}
                                         ELSE {Parent[c]} \cup f[Parent[c]]]
<1>1. Ancestors = Step(Ancestors)
  <2>1. Ancestors = [c \in Entries |-> Ancestors[c]]
    BY DEF Ancestors
  <2> QED
    BY <2>1, AncestorsUnfold
<1>2. Above = CHOOSE f : f = Step(f)
  BY DEF Above
<1>3. Above = Step(Above)
  <2> HIDE DEF Step
  <2> QED
    BY <1>1, <1>2
<1> QED
  BY <1>3

\* Above yields directories: an entry without this property would need a parent
\* without it, and so on.
LEMMA AboveAreDirectories == \A e \in Entries : Above[e] \subseteq Directories
<1> DEFINE S == {e \in Entries : ~(Above[e] \subseteq Directories)}
<1>1. SUFFICES ASSUME S # {} PROVE FALSE
  OBVIOUS
<1>2. PICK e \in S : Parent[e] \notin S
  BY <1>1, NoCycles
<1>3. Parent[e] \notin Roots /\ Above[e] = {Parent[e]} \cup Above[Parent[e]]
  BY <1>2, AboveUnfolds
<1>4. Parent[e] \in Directories
  BY <1>2, <1>3, ScanConstants DEF Entries
<1> QED
  BY <1>2, <1>3, <1>4 DEF Entries

\* Whatever is not in a root lies under a top-level directory ...
LEMMA TopExists ==
  \A e \in Entries : Parent[e] \notin Roots => Above[e] \cap Tops # {}
<1> DEFINE S == {e \in Entries : Parent[e] \notin Roots /\ Above[e] \cap Tops = {}}
<1>1. SUFFICES ASSUME S # {} PROVE FALSE
  OBVIOUS
<1>2. PICK e \in S : Parent[e] \notin S
  BY <1>1, NoCycles
<1>3. Above[e] = {Parent[e]} \cup Above[Parent[e]] /\ Parent[e] \in Directories
  BY <1>2, AboveUnfolds, ScanConstants DEF Entries
<1> QED
  BY <1>2, <1>3 DEF Entries, Tops

\* ... and under one only.
LEMMA TopIsUnique ==
  \A e \in Entries : \A t, u \in Above[e] \cap Tops : t = u
<1> DEFINE S == {e \in Entries : \E t, u \in Above[e] \cap Tops : t # u}
<1>1. SUFFICES ASSUME S # {} PROVE FALSE
  OBVIOUS
<1>2. PICK e \in S : Parent[e] \notin S
  BY <1>1, NoCycles
<1>3. PICK t \in Above[e] \cap Tops, u \in Above[e] \cap Tops : t # u
  BY <1>2
<1>4. /\ Above[e] = {Parent[e]} \cup Above[Parent[e]] /\ Parent[e] \in Directories
  BY <1>2, <1>3, AboveUnfolds, ScanConstants DEF Entries
<1>5. Parent[e] \in Tops => Above[Parent[e]] = {}
  BY <1>4, AboveUnfolds DEF Tops, Entries
<1> QED
  BY <1>2, <1>3, <1>4, <1>5 DEF Entries

\* TopOf finds it: a top-level directory is its own, others have their parent's.
LEMMA TopOfDirectory ==
  ASSUME NEW d \in Directories
  PROVE  /\ TopOf(d) \in Tops
         /\ d \in Tops => TopOf(d) = d
         /\ \A t \in Above[d] \cap Tops : TopOf(d) = t
<1>1. CASE Parent[d] \in Roots
  BY <1>1, AboveUnfolds DEF TopOf, Tops, Entries
<1>2. CASE Parent[d] \notin Roots
  <2>1. PICK t \in Above[d] \cap Tops : TRUE
    BY <1>2, TopExists DEF Entries
  <2>2. TopOf(d) \in Above[d] /\ Parent[TopOf(d)] \in Roots
    BY <1>2, <2>1 DEF TopOf, Tops
  <2>3. TopOf(d) \in Tops
    BY <2>2, AboveAreDirectories DEF Tops, Entries
  <2> QED
    BY <1>2, <2>2, <2>3, TopIsUnique DEF Tops, Entries
<1> QED
  BY <1>1, <1>2

LEMMA TopOfParent ==
  ASSUME NEW d \in Directories, Parent[d] \in Directories
  PROVE  TopOf(d) = TopOf(Parent[d])
<1>1. Above[d] = {Parent[d]} \cup Above[Parent[d]]
  BY AboveUnfolds, ScanConstants DEF Entries
<1>2. CASE Parent[d] \in Tops
  BY <1>1, <1>2, TopOfDirectory
<1>3. CASE Parent[d] \notin Tops
  <2>1. PICK t \in Above[Parent[d]] \cap Tops : TRUE
    BY <1>3, TopExists DEF Tops, Entries
  <2> QED
    BY <1>1, <2>1, TopOfDirectory
<1> QED
  BY <1>2, <1>3
-----------------------------------------------------------------------------
(* Types and unique keys. *)

LEMMA IdleIsTyped == Idle \in RunState
  BY DEF Idle, RunState

\* The plain types of the variables.
Types ==
  /\ fresh \subseteq there /\ there \subseteq Entries
  /\ row \in [Files -> {"none", "discovered", "noscan", "seeded"}]
  /\ known \subseteq Tops /\ late \subseteq Files /\ faults \in 0..MaxFaults
  /\ run \in [Runs -> RunState]

LEMMA TypesStep == Types /\ [Next]_vars => Types'
<1> SUFFICES ASSUME Types, [Next]_vars PROVE Types'
  OBVIOUS
<1>0. run \in [Runs -> RunState]
  BY DEF Types
<1> USE ScanConstants DEF Types
<1>1. ASSUME NEW e \in Entries, Arrive(e) PROVE Types'
  <2>1. run' \in [Runs -> RunState]
    BY <1>1 DEF Arrive, RunState
  <2> QED
    BY <1>1, <2>1 DEF Arrive
<1>2. ASSUME NEW e \in Entries, Settle(e) PROVE Types'
  BY <1>2 DEF Settle
<1>3. ASSUME NEW r \in Runs, NEW failed \in SUBSET Roots, ListRoots(r, failed) PROVE Types'
  <2> DEFINE seen == UNION {Settled(d) : d \in Roots \ failed}
             new == [Idle EXCEPT
                       !.pc = IF r \in Scans THEN "top" ELSE "walk",
                       !.found = seen \cap Files, !.dirs = seen \cap Directories,
                       !.queue = IF r \in Scans THEN {} ELSE seen \cap Directories]
  <2>1. seen \cap Directories \subseteq Tops
    BY DEF Settled, Children, Tops
  <2>2. new \in RunState
    <3> HIDE DEF seen
    <3> QED
      BY <2>1 DEF Idle, RunState
  <2>3. run' = [run EXCEPT ![r] = new]
    BY <1>3 DEF ListRoots
  <2>4. run' \in [Runs -> RunState]
    <3> HIDE DEF new
    <3> QED
      BY <2>2, <2>3
  <2>5. Cardinality(failed) \in Nat
    BY FS_Subset, FS_CardinalityType
  <2>6. faults' \in 0..MaxFaults /\ UNCHANGED <<there, fresh, row, known, late>>
    BY <1>3, <2>5 DEF ListRoots
  <2> QED
    BY <2>4, <2>6
<1>4. ASSUME NEW r \in Runs, RecordTop(r) PROVE Types'
  <2> DEFINE new == Untracked(run[r].found)
             dirs == run[r].dirs \ known
  <2>1. run' = [run EXCEPT ![r].pc = "walk", ![r].mine = new, ![r].found = {},
                           ![r].dirs = dirs, ![r].queue = dirs]
    BY <1>4 DEF RecordTop
  <2>2. new \subseteq Files /\ dirs \subseteq Tops /\ dirs \subseteq Directories
    BY DEF Untracked, RunState, Tops
  <2>3. run' \in [Runs -> RunState]
    <3> HIDE ScanConstants DEF Types, new, dirs
    <3> DEFINE state == [run[r] EXCEPT !.pc = "walk", !.mine = new, !.found = {},
                                       !.dirs = dirs, !.queue = dirs]
    <3>1. run[r] \in RunState
      BY <1>0
    <3>2. state \in RunState
      BY <2>2, <3>1 DEF RunState
    <3>3. run' = [run EXCEPT ![r] = state]
      BY <2>1
    <3> HIDE DEF state
    <3> QED
      BY <1>0, <3>2, <3>3
  <2> QED
    BY <1>4, <2>3 DEF RecordTop
<1>5. ASSUME NEW r \in Runs, NEW d \in Directories, Read(r, d) PROVE Types'
  <2>1. TopOf(d) \in Tops
    BY TopOfDirectory
  <2>2. run' \in [Runs -> RunState]
    <3> DEFINE queue == (run[r].queue \ {d}) \cup (Settled(d) \cap Directories)
               found == run[r].found \cup (Settled(d) \cap Files)
               dirty == IF Children(d) \cap fresh = {} THEN run[r].dirty
                        ELSE run[r].dirty \cup {TopOf(d)}
    <3>1. run' = [run EXCEPT ![r].queue = queue, ![r].read = @ \cup {d},
                             ![r].found = found, ![r].dirty = dirty]
      BY <1>5 DEF Read
    <3>2. queue \subseteq Directories /\ found \subseteq Files /\ dirty \subseteq Tops
      BY <2>1 DEF RunState
    <3> HIDE ScanConstants DEF Types, queue, found, dirty
    <3> DEFINE state == [run[r] EXCEPT !.queue = queue, !.read = @ \cup {d},
                                       !.found = found, !.dirty = dirty]
    <3>3. run[r] \in RunState
      BY <1>0
    <3>4. state \in RunState
      BY <3>2, <3>3 DEF RunState
    <3>5. run' = [run EXCEPT ![r] = state]
      BY <3>1
    <3> HIDE DEF state
    <3> QED
      BY <1>0, <3>4, <3>5
  <2> QED
    BY <1>5, <2>2 DEF Read
<1>6. ASSUME NEW r \in Runs, NEW d \in Directories, ReadFails(r, d) PROVE Types'
  <2>1. TopOf(d) \in Tops
    BY TopOfDirectory
  <2>2. run' \in [Runs -> RunState]
    <3> DEFINE top == TopOf(d)
    <3>1. run' = [run EXCEPT ![r].queue = @ \ {d}, ![r].dirty = @ \cup {top}] /\ top \in Tops
      BY <1>6, <2>1 DEF ReadFails
    <3> HIDE ScanConstants DEF Types, top
    <3> QED
      BY <1>0, <3>1 DEF RunState
  <2> QED
    BY <1>6, <2>2 DEF ReadFails
<1>7. ASSUME NEW r \in Runs, Record(r) PROVE Types'
  <2> DEFINE new == Untracked(run[r].found)
             marks == Clean(r) \ known
  <2>1. run' = [run EXCEPT ![r].pc = "commit", ![r].mine = @ \cup new, ![r].marks = marks]
    BY <1>7 DEF Record
  <2>2. new \subseteq Files /\ marks \subseteq Tops
    BY DEF Untracked, Clean, RunState
  <2>3. run' \in [Runs -> RunState]
    <3> HIDE ScanConstants DEF Types, new, marks
    <3> DEFINE state == [run[r] EXCEPT !.pc = "commit", !.mine = @ \cup new, !.marks = marks]
    <3>1. run[r] \in RunState
      BY <1>0
    <3>2. state \in RunState
      BY <2>2, <3>1 DEF RunState
    <3>3. run' = [run EXCEPT ![r] = state]
      BY <2>1
    <3> HIDE DEF state
    <3> QED
      BY <1>0, <3>2, <3>3
  <2> QED
    BY <1>7, <2>3 DEF Record
<1>8. ASSUME NEW r \in Runs, Commit(r) PROVE Types'
  <2>1. run' \in [Runs -> RunState]
    BY <1>8, IdleIsTyped DEF Commit
  <2>2. run[r].marks \subseteq Tops
    BY DEF RunState
  <2> QED
    BY <1>8, <2>1, <2>2 DEF Commit, DiscoveredAs, Lost
<1>9. ASSUME NEW r \in Runs, NEW batch \in SUBSET Files, SeedBatch(r, batch) PROVE Types'
  BY <1>9 DEF SeedBatch
<1>10. ASSUME NEW r \in Runs, MarkDirectories(r) PROVE Types'
  <2>1. run' \in [Runs -> RunState]
    BY <1>10, IdleIsTyped DEF MarkDirectories
  <2>2. Clean(r) \subseteq Tops
    BY DEF Clean, RunState
  <2> QED
    BY <1>10, <2>1, <2>2 DEF MarkDirectories, Lost
<1>11. ASSUME NEW r \in Runs, Abort(r) PROVE Types'
  BY <1>11, IdleIsTyped DEF Abort
<1>12. CASE UNCHANGED vars
  BY <1>12 DEF vars
<1> QED
  BY <1>1, <1>2, <1>3, <1>4, <1>5, <1>6, <1>7, <1>8, <1>9, <1>10, <1>11, <1>12
     DEF Next, Work

\* A seed writes and commits in one step.
SeedsHoldNothing ==
  \A r \in Seeds : /\ run[r].mine = {} /\ run[r].marks = {}
                   /\ run[r].pc \in {"idle", "walk"}

\* A key that an open transaction holds is nobody else's and has no row.
Held(r) == run[r].mine \cup run[r].marks
KeysAreUnique ==
  /\ \A r, q \in Runs : r # q => Held(r) \cap Held(q) = {}
  /\ \A r \in Runs : Held(r) \cap known = {}
  /\ \A r \in Runs : \A f \in run[r].mine : row[f] = "none"

Typed == Types /\ SeedsHoldNothing /\ KeysAreUnique

LEMMA TypedInitial == Init => Typed
  BY ScanConstants, IdleIsTyped
     DEF Init, Typed, Types, SeedsHoldNothing, KeysAreUnique, Held, Idle, Runs

LEMMA TypedIsTypeOK == Typed => TypeOK
<1> SUFFICES ASSUME Typed PROVE TypeOK
  OBVIOUS
<1>1. ASSUME NEW r \in Runs
      PROVE  Held(r) \cap (Inserted(r) \cup known) = {} /\ Untracked(run[r].mine) = run[r].mine
  BY DEF Typed, KeysAreUnique, Held, Inserted, Untracked
<1> QED
  BY <1>1 DEF Typed, Types, TypeOK, Held

\* Steps that insert and commit nothing keep the keys unique.
LEMMA HoldingLess ==
  ASSUME KeysAreUnique, UNCHANGED <<row, known>>,
         \A r \in Runs : run'[r].mine \subseteq run[r].mine /\ run'[r].marks \subseteq run[r].marks
  PROVE  KeysAreUnique'
  BY DEF KeysAreUnique, Held

\* The held keys after a step of a run.
LEMMA KeysStep ==
  ASSUME Typed, [Next]_vars
  PROVE  SeedsHoldNothing' /\ KeysAreUnique'
<1> DEFINE Good == SeedsHoldNothing' /\ KeysAreUnique'
<1>0. /\ run \in [Runs -> RunState] /\ SeedsHoldNothing /\ KeysAreUnique
      /\ row \in [Files -> {"none", "discovered", "noscan", "seeded"}]
      /\ known \subseteq Tops /\ Files \cap Tops = {} /\ Seeds \cap Scans = {} /\ Seeds \subseteq Runs
  BY ScanConstants DEF Typed, Types, Tops, Runs
<1>1. ASSUME NEW e \in Entries, Arrive(e) PROVE Good
  <2>1. \A r \in Runs : run'[r].mine = run[r].mine /\ run'[r].marks = run[r].marks /\ run'[r].pc = run[r].pc
    BY <1>0, <1>1 DEF Arrive, RunState
  <2> QED
    BY <1>0, <1>1, <2>1, HoldingLess DEF Arrive, SeedsHoldNothing
<1>2. ASSUME NEW e \in Entries, Settle(e) PROVE Good
  BY <1>0, <1>2, HoldingLess DEF Settle, SeedsHoldNothing
<1>3. ASSUME NEW r \in Runs, NEW failed \in SUBSET Roots, ListRoots(r, failed) PROVE Good
  <2>1. /\ run'[r].mine = {} /\ run'[r].marks = {}
        /\ run'[r].pc = IF r \in Scans THEN "top" ELSE "walk"
        /\ \A q \in Runs \ {r} : run'[q] = run[q]
    BY <1>0, <1>3 DEF ListRoots, Idle
  <2> QED
    BY <1>0, <1>3, <2>1, HoldingLess DEF ListRoots, SeedsHoldNothing
<1>4. ASSUME NEW r \in Runs, RecordTop(r) PROVE Good
  <2> DEFINE new == Untracked(run[r].found)
  <2>1. /\ run'[r].mine = new /\ run'[r].marks = run[r].marks
        /\ \A q \in Runs \ {r} : run'[q] = run[q]
    BY <1>0, <1>4 DEF RecordTop, RunState
  <2>2. r \notin Seeds
    BY <1>0, <1>4 DEF RecordTop, SeedsHoldNothing
  <2>3. \A q \in Runs \ {r} : new \cap Held(q) = {}
    BY <1>4 DEF RecordTop, Inserted, Held
  <2>4. new \cap known = {} /\ \A f \in new : row[f] = "none"
    BY <1>0 DEF Untracked, RunState
  <2> QED
    BY <1>0, <1>4, <2>1, <2>2, <2>3, <2>4 DEF RecordTop, SeedsHoldNothing, KeysAreUnique, Held
<1>5. ASSUME NEW r \in Runs, NEW d \in Directories, Read(r, d) PROVE Good
  <2>1. \A q \in Runs : run'[q].mine = run[q].mine /\ run'[q].marks = run[q].marks /\ run'[q].pc = run[q].pc
    BY <1>0, <1>5 DEF Read, RunState
  <2> QED
    BY <1>0, <1>5, <2>1, HoldingLess DEF Read, SeedsHoldNothing
<1>6. ASSUME NEW r \in Runs, NEW d \in Directories, ReadFails(r, d) PROVE Good
  <2>1. \A q \in Runs : run'[q].mine = run[q].mine /\ run'[q].marks = run[q].marks /\ run'[q].pc = run[q].pc
    BY <1>0, <1>6 DEF ReadFails, RunState
  <2> QED
    BY <1>0, <1>6, <2>1, HoldingLess DEF ReadFails, SeedsHoldNothing
<1>7. ASSUME NEW r \in Runs, Record(r) PROVE Good
  <2> DEFINE new == Untracked(run[r].found)
             marks == Clean(r) \ known
  <2>1. /\ run'[r].mine = run[r].mine \cup new /\ run'[r].marks = marks
        /\ \A q \in Runs \ {r} : run'[q] = run[q]
    BY <1>0, <1>7 DEF Record, RunState
  <2>2. r \notin Seeds
    BY <1>0, <1>7 DEF Record
  <2>3. \A q \in Runs \ {r} : (new \cup marks) \cap Held(q) = {}
    BY <1>7 DEF Record, Inserted, Held
  <2>4. (new \cup marks) \cap known = {} /\ \A f \in new : row[f] = "none"
    BY <1>0 DEF Untracked, RunState
  <2> QED
    BY <1>0, <1>7, <2>1, <2>2, <2>3, <2>4 DEF Record, SeedsHoldNothing, KeysAreUnique, Held
<1>8. ASSUME NEW r \in Runs, Commit(r) PROVE Good
  <2>1. /\ run'[r].mine = {} /\ run'[r].marks = {} /\ run'[r].pc = "idle"
        /\ \A q \in Runs \ {r} : run'[q] = run[q]
    BY <1>0, <1>8 DEF Commit, Idle
  <2>2. \A f \in Files : f \notin Held(r) => row'[f] = row[f]
    BY <1>0, <1>8 DEF Commit, Held
  <2>3. \A q \in Runs : run[q].mine \subseteq Files
    BY <1>0 DEF RunState
  <2> QED
    BY <1>0, <1>8, <2>1, <2>2, <2>3 DEF Commit, SeedsHoldNothing, KeysAreUnique, Held
<1>9. ASSUME NEW r \in Runs, NEW batch \in SUBSET Files, SeedBatch(r, batch) PROVE Good
  <2>1. \A q \in Runs : batch \cap run[q].mine = {}
    BY <1>0, <1>9 DEF SeedBatch, Inserted, SeedsHoldNothing
  <2>2. \A f \in Files : f \notin batch => row'[f] = row[f]
    BY <1>0, <1>9 DEF SeedBatch
  <2>3. \A q \in Runs : run[q].mine \subseteq Files
    BY <1>0 DEF RunState
  <2> QED
    BY <1>0, <1>9, <2>1, <2>2, <2>3 DEF SeedBatch, SeedsHoldNothing, KeysAreUnique, Held
<1>10. ASSUME NEW r \in Runs, MarkDirectories(r) PROVE Good
  <2> DEFINE marks == Clean(r) \ known
  <2>1. /\ run'[r].mine = {} /\ run'[r].marks = {} /\ run'[r].pc = "idle"
        /\ \A q \in Runs \ {r} : run'[q] = run[q]
    BY <1>0, <1>10 DEF MarkDirectories, Idle
  <2>2. \A q \in Runs \ {r} : marks \cap Held(q) = {}
    BY <1>10 DEF MarkDirectories, Inserted, Held
  <2>3. known' = known \cup marks /\ row' = row
    BY <1>10 DEF MarkDirectories
  <2> QED
    BY <1>0, <2>1, <2>2, <2>3 DEF SeedsHoldNothing, KeysAreUnique, Held
<1>11. ASSUME NEW r \in Runs, Abort(r) PROVE Good
  <2>1. /\ run'[r].mine = {} /\ run'[r].marks = {} /\ run'[r].pc = "idle"
        /\ \A q \in Runs \ {r} : run'[q] = run[q]
    BY <1>0, <1>11 DEF Abort, Idle
  <2> QED
    BY <1>0, <1>11, <2>1, HoldingLess DEF Abort, SeedsHoldNothing
<1>12. CASE UNCHANGED vars
  BY <1>0, <1>12 DEF vars, SeedsHoldNothing, KeysAreUnique, Held
<1> QED
  BY <1>1, <1>2, <1>3, <1>4, <1>5, <1>6, <1>7, <1>8, <1>9, <1>10, <1>11, <1>12
     DEF Next, Work

LEMMA TypedStep == Typed /\ [Next]_vars => Typed'
  BY TypesStep, KeysStep DEF Typed

\* The variables keep their types, the open transactions hold different keys,
\* and none of these has a committed row.
THEOREM ScanTyped == Spec => []TypeOK
<1>1. Spec => []Typed
  BY TypedInitial, TypedStep, PTL DEF Spec
<1> QED
  BY <1>1, TypedIsTypeOK, PTL
-----------------------------------------------------------------------------
(* What a walk has covered. *)

\* An entry lies in a root or in a directory that is there.
EveryEntryHasAParent == \A e \in there : Parent[e] \in there \cup Roots

\* What lies in a directory that came behind the walk came behind it, too.
MissedIsClosed(r) == \A e \in there : Parent[e] \in run[r].missed => e \in run[r].missed

\* Nothing is read before the walk.
WalkComesLater(r) == run[r].pc \in {"idle", "top"} => run[r].read = {}

\* A top-level directory is walked, or its walk is known to be incomplete.
DirectoriesAreQueued(r) ==
  run[r].pc \in {"walk", "commit"} => Clean(r) \subseteq run[r].queue \cup run[r].read

\* Whatever a read directory holds was found, entered, or came behind, unless
\* the walk is known to be incomplete.
ReadIsComplete(r) ==
  \A d \in run[r].read : TopOf(d) \notin run[r].dirty =>
    Children(d) \subseteq run[r].found \cup run[r].queue \cup run[r].read \cup run[r].missed

\* A transaction that is to mark directories inserts all that was found in them.
CommitIsWhole(r) ==
  run[r].pc = "commit" => /\ run[r].queue = {} /\ run[r].marks \subseteq Clean(r)
                          /\ Untracked(run[r].found) \subseteq run[r].mine

WalkOf(r) ==
  /\ MissedIsClosed(r)
  /\ WalkComesLater(r)
  /\ DirectoriesAreQueued(r)
  /\ ReadIsComplete(r)
  /\ CommitIsWhole(r)

Walked == EveryEntryHasAParent /\ \A r \in Runs : WalkOf(r)

LEMMA WalkedInitial == Init => Walked
  BY DEF Init, Idle, Walked, WalkOf, EveryEntryHasAParent, MissedIsClosed, WalkComesLater,
     DirectoriesAreQueued, ReadIsComplete, CommitIsWhole

\* When the queue is empty, every file under a clean directory has been found
\* or came behind the walk: an entry without this property would have a parent
\* without it, and so on.
LEMMA CleanIsCovered ==
  ASSUME Typed, Walked, NEW r \in Runs, run[r].pc \in {"walk", "commit"}, run[r].queue = {},
         NEW t \in Clean(r), NEW f \in there \cap Files, t \in Above[f]
  PROVE  f \in run[r].found \cup run[r].missed
<1> DEFINE covered == run[r].found \cup run[r].read \cup run[r].missed
           S == {e \in there : t \in Above[e] /\ e \notin covered}
<1>0. /\ run[r] \in RunState /\ there \subseteq Entries
      /\ run[r].found \subseteq Files /\ run[r].read \subseteq Directories
      /\ t \in run[r].dirs /\ t \notin run[r].dirty /\ t \in Tops
  BY DEF Typed, Types, RunState, Clean
<1>1. S = {}
  <2>1. SUFFICES ASSUME S # {} PROVE FALSE
    OBVIOUS
  <2>2. S \in SUBSET Entries
    BY <1>0
  <2>3. PICK e \in S : Parent[e] \notin S
    BY <2>1, <2>2, NoCycles
  <2>4. /\ e \in Entries /\ e \in there /\ t \in Above[e] /\ e \notin covered
        /\ Parent[e] \notin Roots /\ (t = Parent[e] \/ t \in Above[Parent[e]])
    BY <1>0, <2>3, AboveUnfolds
  <2>5. Parent[e] \in there /\ Parent[e] \in Directories
    BY <2>4, ScanConstants DEF Walked, EveryEntryHasAParent, Entries
  <2>6. Parent[e] \notin run[r].missed
    BY <2>4 DEF Walked, WalkOf, MissedIsClosed
  <2>7. Parent[e] \in run[r].read => TopOf(Parent[e]) # t
    <3> SUFFICES ASSUME Parent[e] \in run[r].read, TopOf(Parent[e]) = t PROVE FALSE
      OBVIOUS
    <3>1. Children(Parent[e]) \subseteq covered
      BY <1>0 DEF Walked, WalkOf, ReadIsComplete
    <3> QED
      BY <2>4, <3>1 DEF Children
  <2>8. TopOf(Parent[e]) = t
    BY <1>0, <2>4, <2>5, TopOfDirectory DEF Tops
  <2>9. CASE t = Parent[e]
    BY <2>7, <2>8, <2>9 DEF Walked, WalkOf, DirectoriesAreQueued
  <2>10. CASE t \in Above[Parent[e]]
    <3>1. Parent[e] \in covered
      BY <2>3, <2>5, <2>10
    <3> QED
      BY <1>0, <2>5, <2>6, <2>7, <2>8, <3>1, ScanConstants DEF Entries
  <2> QED
    BY <2>4, <2>9, <2>10
<1> QED
  BY <1>0, <1>1, ScanConstants DEF Entries

\* A run that a step leaves alone: rows are never taken back.
LEMMA OthersAreUndisturbed ==
  ASSUME NEW r \in Runs, WalkOf(r), run'[r] = run[r], there' = there,
         \A f \in Files : row[f] # "none" => row'[f] # "none", run[r].found \subseteq Files
  PROVE  WalkOf(r)'
<1>1. Untracked(run[r].found)' \subseteq Untracked(run[r].found)
  BY DEF Untracked
<1> QED
  BY <1>1 DEF WalkOf, MissedIsClosed, WalkComesLater, DirectoriesAreQueued, ReadIsComplete,
     CommitIsWhole, Clean, Children

\* A run that starts or ends remembers nothing of a walk.
LEMMA EmptyWalk ==
  ASSUME NEW r \in Runs, run'[r].read = {}, run'[r].missed = {}, run'[r].pc # "commit",
         run'[r].pc = "walk" => run'[r].dirs \subseteq run'[r].queue
  PROVE  WalkOf(r)'
  BY DEF WalkOf, MissedIsClosed, WalkComesLater, DirectoriesAreQueued, ReadIsComplete,
     CommitIsWhole, Clean

\* A step of one run that changes neither the tree nor takes back a row.
LEMMA WalkedAlone ==
  ASSUME Typed, Walked, NEW r \in Runs, \A q \in Runs \ {r} : run'[q] = run[q], there' = there,
         \A f \in Files : row[f] # "none" => row'[f] # "none", WalkOf(r)'
  PROVE  Walked'
<1>1. \A q \in Runs : WalkOf(q) /\ run[q].found \subseteq Files
  BY DEF Walked, Typed, Types, RunState
<1>2. \A q \in Runs \ {r} : WalkOf(q)'
  BY <1>1, OthersAreUndisturbed
<1> QED
  BY <1>2 DEF Walked, EveryEntryHasAParent

\* The remote side adds an entry.
LEMMA WalkedArrive ==
  ASSUME Typed, Walked, NEW e \in Entries, Arrive(e)
  PROVE  Walked'
<1>0. run \in [Runs -> RunState] /\ there \subseteq Entries
  BY DEF Typed, Types
<1>1. EveryEntryHasAParent'
  BY DEF Walked, Arrive, EveryEntryHasAParent
<1>2. ASSUME NEW r \in Runs PROVE WalkOf(r)'
  <2>1. /\ run'[r].missed = IF Parent[e] \in run[r].read \cup run[r].missed
                            THEN run[r].missed \cup {e} ELSE run[r].missed
        /\ run'[r].pc = run[r].pc /\ run'[r].dirs = run[r].dirs
        /\ run'[r].queue = run[r].queue /\ run'[r].read = run[r].read
        /\ run'[r].dirty = run[r].dirty /\ run'[r].found = run[r].found
        /\ run'[r].mine = run[r].mine /\ run'[r].marks = run[r].marks
    BY <1>0 DEF Arrive, RunState
  <2>2. /\ e \notin there /\ Parent[e] \in there \cup Roots
        /\ there' = there \cup {e} /\ row' = row /\ e \notin Roots
    BY ScanConstants DEF Arrive, Entries
  <2>3. MissedIsClosed(r)'
    BY <1>0, <2>1, <2>2, ScanConstants DEF Walked, WalkOf, MissedIsClosed, EveryEntryHasAParent
  <2>4. \A d \in run'[r].read : Children(d)' \subseteq Children(d) \cup run'[r].missed
    BY <2>1, <2>2 DEF Children
  <2> QED
    BY <2>1, <2>2, <2>3, <2>4 DEF Walked, WalkOf, WalkComesLater, DirectoriesAreQueued,
       ReadIsComplete, CommitIsWhole, Clean, Untracked
<1> QED
  BY <1>1, <1>2 DEF Walked

\* A directory of a walk is read: it is complete if nothing in it is fresh.
LEMMA WalkedRead ==
  ASSUME Typed, Walked, NEW r \in Runs, NEW d \in Directories, Read(r, d)
  PROVE  WalkOf(r)'
<1>0. run \in [Runs -> RunState] /\ there \subseteq Entries /\ WalkOf(r)
  BY DEF Typed, Types, Walked
<1>1. /\ run[r].pc = "walk" /\ there' = there /\ row' = row
      /\ run'[r].queue = (run[r].queue \ {d}) \cup (Settled(d) \cap Directories)
      /\ run'[r].read = run[r].read \cup {d}
      /\ run'[r].found = run[r].found \cup (Settled(d) \cap Files)
      /\ run'[r].dirty = IF Children(d) \cap fresh = {} THEN run[r].dirty
                         ELSE run[r].dirty \cup {TopOf(d)}
      /\ run'[r].pc = run[r].pc /\ run'[r].dirs = run[r].dirs /\ run'[r].missed = run[r].missed
  BY <1>0 DEF Read, RunState
<1>2. MissedIsClosed(r)' /\ WalkComesLater(r)' /\ CommitIsWhole(r)'
  BY <1>0, <1>1 DEF WalkOf, MissedIsClosed, WalkComesLater, CommitIsWhole
<1>3. DirectoriesAreQueued(r)'
  BY <1>0, <1>1 DEF WalkOf, DirectoriesAreQueued, Clean
<1>4. ASSUME NEW c \in run'[r].read, TopOf(c) \notin run'[r].dirty
      PROVE  Children(c) \subseteq run'[r].found \cup run'[r].queue \cup run'[r].read \cup run'[r].missed
  <2>1. CASE c = d
    <3>1. Children(d) \cap fresh = {}
      BY <1>1, <1>4, <2>1
    <3>2. Children(d) \subseteq Directories \cup Files
      BY <1>0 DEF Children, Entries
    <3> QED
      BY <1>1, <2>1, <3>1, <3>2 DEF Settled
  <2>2. CASE c # d
    BY <1>0, <1>1, <1>4, <2>2 DEF WalkOf, ReadIsComplete
  <2> QED
    BY <2>1, <2>2
<1>5. ReadIsComplete(r)'
  BY <1>1, <1>4 DEF ReadIsComplete, Children
<1> QED
  BY <1>2, <1>3, <1>5 DEF WalkOf

\* A directory that cannot be read makes the walk of its top incomplete; it lies
\* under the same top as the directory in which it was found.
LEMMA WalkedReadFails ==
  ASSUME Typed, Walked, NEW r \in Runs, NEW d \in Directories, ReadFails(r, d)
  PROVE  WalkOf(r)'
<1>0. run \in [Runs -> RunState] /\ run[r] \in RunState /\ WalkOf(r)
  BY DEF Typed, Types, Walked
<1>1. /\ run[r].pc = "walk" /\ there' = there /\ row' = row
      /\ run'[r].queue = run[r].queue \ {d}
      /\ run'[r].dirty = run[r].dirty \cup {TopOf(d)}
      /\ run'[r].read = run[r].read /\ run'[r].found = run[r].found
      /\ run'[r].pc = run[r].pc /\ run'[r].dirs = run[r].dirs /\ run'[r].missed = run[r].missed
  BY <1>0 DEF ReadFails, RunState
<1>2. MissedIsClosed(r)' /\ WalkComesLater(r)' /\ CommitIsWhole(r)'
  BY <1>0, <1>1 DEF WalkOf, MissedIsClosed, WalkComesLater, CommitIsWhole
<1>3. DirectoriesAreQueued(r)'
  <2>1. d \in run[r].dirs => TopOf(d) = d
    BY <1>0, TopOfDirectory DEF RunState
  <2> QED
    BY <1>0, <1>1, <2>1 DEF WalkOf, DirectoriesAreQueued, Clean
<1>4. ASSUME NEW c \in run[r].read, TopOf(c) \notin run'[r].dirty
      PROVE  d \notin Children(c)
  BY <1>0, <1>1, <1>4, TopOfParent DEF Children, RunState
<1>5. ReadIsComplete(r)'
  BY <1>0, <1>1, <1>4 DEF WalkOf, ReadIsComplete, Children
<1> QED
  BY <1>2, <1>3, <1>5 DEF WalkOf

\* Every step keeps what the walks have covered.
LEMMA WalkedStep ==
  ASSUME Typed, Walked, [Next]_vars
  PROVE  Walked'
<1>0. /\ run \in [Runs -> RunState] /\ Scans \subseteq Runs
      /\ row \in [Files -> {"none", "discovered", "noscan", "seeded"}]
      /\ \A r \in Runs : WalkOf(r) /\ run[r] \in RunState
  BY DEF Typed, Types, Walked, Runs
<1>1. ASSUME NEW e \in Entries, Arrive(e) PROVE Walked'
  BY <1>1, WalkedArrive
<1>2. ASSUME NEW e \in Entries, Settle(e) PROVE Walked'
  BY <1>0, <1>2 DEF Settle, Walked, WalkOf, EveryEntryHasAParent, MissedIsClosed, WalkComesLater,
     DirectoriesAreQueued, ReadIsComplete, CommitIsWhole, Clean, Children, Untracked
<1>3. ASSUME NEW r \in Runs, NEW failed \in SUBSET Roots, ListRoots(r, failed) PROVE Walked'
  <2>1. /\ run'[r].read = {} /\ run'[r].missed = {}
        /\ run'[r].pc = IF r \in Scans THEN "top" ELSE "walk"
        /\ run'[r].dirs \subseteq run'[r].queue \/ r \in Scans
        /\ \A q \in Runs \ {r} : run'[q] = run[q]
    BY <1>0, <1>3 DEF ListRoots, Idle
  <2>2. WalkOf(r)'
    BY <2>1, EmptyWalk
  <2> QED
    BY <1>3, <2>1, <2>2, WalkedAlone DEF ListRoots
<1>4. ASSUME NEW r \in Runs, RecordTop(r) PROVE Walked'
  <2>1. /\ run'[r].read = run[r].read /\ run'[r].missed = run[r].missed
        /\ run'[r].pc = "walk" /\ run[r].pc = "top"
        /\ run'[r].dirs = run'[r].queue
        /\ \A q \in Runs \ {r} : run'[q] = run[q]
    BY <1>0, <1>4 DEF RecordTop, RunState
  <2>2. WalkOf(r)'
    BY <1>0, <1>4, <2>1 DEF RecordTop, WalkOf, MissedIsClosed, WalkComesLater,
       DirectoriesAreQueued, ReadIsComplete, CommitIsWhole, Clean
  <2> QED
    BY <1>4, <2>1, <2>2, WalkedAlone DEF RecordTop
<1>5. ASSUME NEW r \in Runs, NEW d \in Directories, Read(r, d) PROVE Walked'
  <2>1. WalkOf(r)' /\ \A q \in Runs \ {r} : run'[q] = run[q]
    BY <1>0, <1>5, WalkedRead DEF Read
  <2> QED
    BY <1>5, <2>1, WalkedAlone DEF Read
<1>6. ASSUME NEW r \in Runs, NEW d \in Directories, ReadFails(r, d) PROVE Walked'
  <2>1. WalkOf(r)' /\ \A q \in Runs \ {r} : run'[q] = run[q]
    BY <1>0, <1>6, WalkedReadFails DEF ReadFails
  <2> QED
    BY <1>6, <2>1, WalkedAlone DEF ReadFails
<1>7. ASSUME NEW r \in Runs, Record(r) PROVE Walked'
  <2>1. /\ run'[r].mine = run[r].mine \cup Untracked(run[r].found)
        /\ run'[r].marks = Clean(r) \ known /\ run'[r].pc = "commit"
        /\ run[r].pc = "walk" /\ run[r].queue = {}
        /\ run'[r].dirs = run[r].dirs /\ run'[r].dirty = run[r].dirty
        /\ run'[r].queue = run[r].queue /\ run'[r].read = run[r].read
        /\ run'[r].found = run[r].found /\ run'[r].missed = run[r].missed
        /\ \A q \in Runs \ {r} : run'[q] = run[q]
    BY <1>0, <1>7 DEF Record, RunState
  <2>2. there' = there /\ row' = row
    BY <1>7 DEF Record
  <2>3. WalkOf(r)'
    BY <1>0, <2>1, <2>2 DEF WalkOf, MissedIsClosed, WalkComesLater, DirectoriesAreQueued,
       ReadIsComplete, CommitIsWhole, Clean, Children, Untracked
  <2> QED
    BY <2>1, <2>2, <2>3, WalkedAlone
<1>8. ASSUME NEW r \in Runs, Commit(r) PROVE Walked'
  <2>1. /\ run'[r] = Idle /\ \A q \in Runs \ {r} : run'[q] = run[q]
        /\ \A f \in Files : row[f] # "none" => row'[f] # "none"
    BY <1>0, <1>8 DEF Commit, DiscoveredAs
  <2>2. WalkOf(r)'
    BY <2>1, EmptyWalk DEF Idle
  <2> QED
    BY <1>8, <2>1, <2>2, WalkedAlone DEF Commit
<1>9. ASSUME NEW r \in Runs, NEW batch \in SUBSET Files, SeedBatch(r, batch) PROVE Walked'
  <2>1. /\ run' = run /\ there' = there
        /\ \A f \in Files : row[f] # "none" => row'[f] # "none"
    BY <1>0, <1>9 DEF SeedBatch
  <2>2. run[r].found \subseteq Files
    BY <1>0 DEF RunState
  <2>3. WalkOf(r)'
    BY <1>0, <2>1, <2>2, OthersAreUndisturbed
  <2> QED
    BY <2>1, <2>3, WalkedAlone
<1>10. ASSUME NEW r \in Runs, MarkDirectories(r) PROVE Walked'
  <2>1. run'[r] = Idle /\ \A q \in Runs \ {r} : run'[q] = run[q]
    BY <1>0, <1>10 DEF MarkDirectories
  <2>2. WalkOf(r)'
    BY <2>1, EmptyWalk DEF Idle
  <2> QED
    BY <1>10, <2>1, <2>2, WalkedAlone DEF MarkDirectories
<1>11. ASSUME NEW r \in Runs, Abort(r) PROVE Walked'
  <2>1. run'[r] = Idle /\ \A q \in Runs \ {r} : run'[q] = run[q]
    BY <1>0, <1>11 DEF Abort
  <2>2. WalkOf(r)'
    BY <2>1, EmptyWalk DEF Idle
  <2> QED
    BY <1>11, <2>1, <2>2, WalkedAlone DEF Abort
<1>12. CASE UNCHANGED vars
  BY <1>0, <1>12 DEF vars, Walked, WalkOf, EveryEntryHasAParent, MissedIsClosed, WalkComesLater,
     DirectoriesAreQueued, ReadIsComplete, CommitIsWhole, Clean, Children, Untracked
<1> QED
  BY <1>1, <1>2, <1>3, <1>4, <1>5, <1>6, <1>7, <1>8, <1>9, <1>10, <1>11, <1>12
     DEF Next, Work
-----------------------------------------------------------------------------
(* Known directories. *)

\* Directories become known with everything that was there at their walk.
LEMMA MarkedIsRecorded ==
  ASSUME Typed, Walked, KnownIsRecordedUnlessLate, NEW r \in Runs, NEW marks \in SUBSET Clean(r),
         run[r].pc \in {"walk", "commit"}, run[r].queue = {},
         there' = there, known' = known \cup marks, late' = late \cup Lost(r, marks),
         \A f \in Files : row[f] # "none" => row'[f] # "none",
         \A f \in run[r].found : row'[f] # "none"
  PROVE  KnownIsRecordedUnlessLate'
<1> SUFFICES ASSUME NEW f \in there \cap Files, Above[f] \cap (known \cup marks) # {}
             PROVE  row'[f] # "none" \/ f \in late'
  BY DEF KnownIsRecordedUnlessLate
<1>1. CASE Above[f] \cap known # {}
  BY <1>1 DEF KnownIsRecordedUnlessLate
<1>2. CASE Above[f] \cap known = {}
  <2>1. PICK t \in marks : t \in Above[f]
    BY <1>2
  <2>2. f \in run[r].found \cup run[r].missed
    BY <2>1, CleanIsCovered
  <2> QED
    BY <2>1, <2>2 DEF Lost
<1> QED
  BY <1>1, <1>2

LEMMA KnownStep ==
  ASSUME Typed, Walked, KnownIsRecordedUnlessLate, [Next]_vars
  PROVE  KnownIsRecordedUnlessLate'
<1>0. /\ row \in [Files -> {"none", "discovered", "noscan", "seeded"}]
      /\ \A r \in Runs : WalkOf(r) /\ run[r].found \subseteq Files
      /\ Scans \subseteq Runs /\ Seeds \subseteq Runs
  BY DEF Typed, Types, Walked, Runs, RunState
<1>1. ASSUME NEW e \in Entries, Arrive(e) PROVE KnownIsRecordedUnlessLate'
  BY <1>1 DEF Arrive, KnownIsRecordedUnlessLate
<1>2. CASE UNCHANGED <<there, row, known, late>>
  BY <1>2 DEF KnownIsRecordedUnlessLate
<1>3. ASSUME NEW r \in Runs, Commit(r) PROVE KnownIsRecordedUnlessLate'
  <2>1. /\ \A f \in Files : row[f] # "none" => row'[f] # "none"
        /\ \A f \in run[r].mine \cap Files : row'[f] # "none"
    BY <1>0, <1>3 DEF Commit, DiscoveredAs
  <2>2. CommitIsWhole(r) /\ run[r].pc = "commit"
    BY <1>0, <1>3 DEF Commit, WalkOf
  <2>3. /\ run[r].queue = {} /\ run[r].marks \subseteq Clean(r)
        /\ \A f \in run[r].found : row'[f] # "none"
    BY <1>0, <2>1, <2>2 DEF CommitIsWhole, Untracked
  <2> QED
    BY <1>3, <2>1, <2>2, <2>3, MarkedIsRecorded DEF Commit
<1>4. ASSUME NEW r \in Runs, NEW batch \in SUBSET Files, SeedBatch(r, batch)
      PROVE  KnownIsRecordedUnlessLate'
  BY <1>0, <1>4 DEF SeedBatch, KnownIsRecordedUnlessLate
<1>5. ASSUME NEW r \in Runs, MarkDirectories(r) PROVE KnownIsRecordedUnlessLate'
  <2> DEFINE marks == Clean(r) \ known
  <2>1. /\ run[r].pc = "walk" /\ run[r].queue = {} /\ row' = row /\ there' = there
        /\ known' = known \cup marks /\ late' = late \cup Lost(r, marks)
        /\ \A f \in run[r].found : row'[f] # "none"
    BY <1>0, <1>5 DEF MarkDirectories, Untracked
  <2> QED
    BY <2>1, MarkedIsRecorded
<1> QED
  BY <1>1, <1>2, <1>3, <1>4, <1>5
     DEF Next, Work, vars, Settle, ListRoots, RecordTop, Read, ReadFails, Record, Abort

\* A directory that is never walked again has left behind no file that was in
\* it at its walk: every such file has a row, whatever failed, was aborted, or
\* ran beside the walk.
THEOREM KnownDirectoriesAreRecorded == Spec => []KnownIsRecordedUnlessLate
<1>1. Init => KnownIsRecordedUnlessLate
  BY DEF Init, KnownIsRecordedUnlessLate
<1> QED
  BY <1>1, TypedInitial, TypedStep, WalkedInitial, WalkedStep, KnownStep, PTL DEF Spec
=============================================================================
