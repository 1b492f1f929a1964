-------------------------------- MODULE Scan --------------------------------
(***************************************************************************)
(* The discovery of remote files: scans, which walk a top-level directory  *)
(* once and mark it known for ever, and baseline seeds, which walk all of  *)
(* them.  Both list and walk a tree that is being uploaded to, hold what   *)
(* they find in memory, and write it in transactions that meet in the      *)
(* unique remote paths of the files and the directories.                   *)
(*                                                                         *)
(* A scan writes everything in one transaction.  A seed commits its files  *)
(* in batches and marks its directories after the last one.                *)
(***************************************************************************)
EXTENDS Naturals, FiniteSets

CONSTANTS
  Roots,        \* configured remote paths
  Directories,  \* directories below them that pass the name filter
  Files,        \* media files that pass the name filter
  Parent,       \* [Directories \cup Files -> Roots \cup Directories]
  Noscan,       \* directories whose files are downloaded and never matched
  Scans, Seeds, \* the runs at work
  BatchSize,    \* files that a seed inserts in one transaction
  MaxFaults     \* bound: failed listings and aborted runs

Entries == Directories \cup Files
Runs == Scans \cup Seeds

ASSUME ScanConstants ==
  /\ IsFiniteSet(Roots) /\ Roots \cap Entries = {} /\ Directories \cap Files = {}
  /\ Parent \in [Entries -> Roots \cup Directories]
  /\ Noscan \subseteq Directories /\ Scans \cap Seeds = {}
  /\ BatchSize \in Nat \ {0} /\ MaxFaults \in Nat

\* The entries form trees: no directory lies below itself.
ASSUME NoCycles ==
  \A S \in SUBSET Entries : S # {} => \E e \in S : Parent[e] \notin S

VARIABLES
  there,   \* the remote tree: the entries that exist
  fresh,   \* the entries modified within the upload grace window
  row,     \* committed files: "none" or how they were recorded
  known,   \* committed ScannedDirectory rows
  run,     \* the memory and the open transaction of each run
  faults,
  late     \* history: files that arrived in a directory after its only walk

vars == <<there, fresh, row, known, run, faults, late>>

\* dirs: top-level directories to consider;  queue, read: directories of the
\* walk;  dirty: top-level directories whose walk is not complete;  missed:
\* history, entries that arrived behind the walk;  mine, marks: inserted and
\* not committed.
Idle == [pc |-> "idle", dirs |-> {}, queue |-> {}, read |-> {}, dirty |-> {},
         missed |-> {}, found |-> {}, mine |-> {}, marks |-> {}]

Init ==
  /\ there = {} /\ fresh = {}
  /\ row = [f \in Files |-> "none"]
  /\ known = {}
  /\ run = [r \in Runs |-> Idle]
  /\ faults = 0
  /\ late = {}
-----------------------------------------------------------------------------
Children(d) == {e \in there : Parent[e] = d}
Settled(d) == Children(d) \ fresh
Tops == {d \in Directories : Parent[d] \in Roots}

\* The directories that an entry lies under, the roots not included.
Above[e \in Entries] ==
  IF Parent[e] \in Roots THEN {} ELSE {Parent[e]} \cup Above[Parent[e]]
TopOf(e) == IF Parent[e] \in Roots THEN e ELSE CHOOSE d \in Above[e] : Parent[d] \in Roots

Untracked(S) == {f \in S : row[f] = "none"}
\* is_under_any_path
DiscoveredAs(f) == IF Above[f] \cap Noscan # {} THEN "noscan" ELSE "discovered"

\* The unique keys that another run has inserted and not committed: an insert
\* of one of them waits for that run.
Inserted(r) == UNION {run[q].mine \cup run[q].marks : q \in Runs \ {r}}
Clean(r) == run[r].dirs \ run[r].dirty
-----------------------------------------------------------------------------
(***************************************************************************)
(* The remote side.  An upload renews the modification time of the file    *)
(* and of its directory, a move into place that of the directory only; a   *)
(* remote clock that is ahead makes every entry look old.                  *)
(***************************************************************************)
Arrive(e) ==
  /\ e \notin there /\ Parent[e] \in there \cup Roots
  /\ there' = there \cup {e}
  /\ \E touched \in SUBSET ({e, Parent[e]} \ Roots) : fresh' = fresh \cup touched
  /\ late' = IF Above[e] \cap known = {} THEN late ELSE late \cup ({e} \cap Files)
  /\ run' = [r \in Runs |-> IF Parent[e] \in run[r].read \cup run[r].missed
                            THEN [run[r] EXCEPT !.missed = @ \cup {e}] ELSE run[r]]
  /\ UNCHANGED <<row, known, faults>>

\* The grace window of an entry ends.
Settle(e) ==
  /\ e \in fresh
  /\ fresh' = fresh \ {e}
  /\ UNCHANGED <<there, row, known, run, faults, late>>
-----------------------------------------------------------------------------
(***************************************************************************)
(* Listing and walking.  A root that cannot be listed is skipped; whatever *)
(* is fresh stays invisible for this round.                                *)
(***************************************************************************)
ListRoots(r, failed) ==
  LET seen == UNION {Settled(d) : d \in Roots \ failed}
  IN /\ run[r].pc = "idle"
     /\ run' = [run EXCEPT ![r] = [Idle EXCEPT
          !.pc = IF r \in Scans THEN "top" ELSE "walk",
          !.found = seen \cap Files, !.dirs = seen \cap Directories,
          !.queue = IF r \in Scans THEN {} ELSE seen \cap Directories]]
     /\ faults + Cardinality(failed) <= MaxFaults
     /\ faults' = faults + Cardinality(failed)
     /\ UNCHANGED <<there, fresh, row, known, late>>

\* A scan inserts the top-level files, and only then looks which of the
\* directories it has seen are not known yet.
RecordTop(r) ==
  LET new == Untracked(run[r].found)
      dirs == run[r].dirs \ known
  IN /\ run[r].pc = "top" /\ new \cap Inserted(r) = {}
     /\ run' = [run EXCEPT ![r].pc = "walk", ![r].mine = new, ![r].found = {},
                           ![r].dirs = dirs, ![r].queue = dirs]
     /\ UNCHANGED <<there, fresh, row, known, faults, late>>

\* Mutant: what is too fresh is skipped without being counted.
ReadIgnoringFresh(r, d) ==
  /\ run[r].pc = "walk" /\ d \in run[r].queue
  /\ run' = [run EXCEPT
       ![r].queue = (@ \ {d}) \cup (Settled(d) \cap Directories),
       ![r].read = @ \cup {d},
       ![r].found = @ \cup (Settled(d) \cap Files)]
  /\ UNCHANGED <<there, fresh, row, known, faults, late>>

\* One directory of a walk is read: settled files are found, settled
\* directories are entered, and anything fresh makes the walk incomplete.
Read(r, d) ==
  /\ run[r].pc = "walk" /\ d \in run[r].queue
  /\ run' = [run EXCEPT
       ![r].queue = (@ \ {d}) \cup (Settled(d) \cap Directories),
       ![r].read = @ \cup {d},
       ![r].found = @ \cup (Settled(d) \cap Files),
       ![r].dirty = IF Children(d) \cap fresh = {} THEN @ ELSE @ \cup {TopOf(d)}]
  /\ UNCHANGED <<there, fresh, row, known, faults, late>>

\* A directory that cannot be read, or the connection of a whole walk, after
\* the retries of the service.
ReadFails(r, d) ==
  /\ run[r].pc = "walk" /\ d \in run[r].queue /\ faults < MaxFaults
  /\ run' = [run EXCEPT ![r].queue = @ \ {d}, ![r].dirty = @ \cup {TopOf(d)}]
  /\ faults' = faults + 1
  /\ UNCHANGED <<there, fresh, row, known, late>>
-----------------------------------------------------------------------------
(***************************************************************************)
(* Writing.                                                                *)
(***************************************************************************)
\* The files of the walked directories, and the marks of the complete ones.
\* A file whose walk was incomplete is recorded all the same.
Record(r) ==
  LET new == Untracked(run[r].found)
      marks == Clean(r) \ known
  IN /\ r \in Scans /\ run[r].pc = "walk" /\ run[r].queue = {}
     /\ (new \cup marks) \cap Inserted(r) = {}
     /\ run' = [run EXCEPT ![r].pc = "commit", ![r].mine = @ \cup new, ![r].marks = marks]
     /\ UNCHANGED <<there, fresh, row, known, faults, late>>

\* What arrived behind the walk of a directory that is now known.
Lost(r, marks) ==
  {f \in run[r].missed \cap Files : Above[f] \cap marks # {} /\ row[f] = "none"}

Commit(r) ==
  /\ run[r].pc = "commit"
  /\ row' = [f \in Files |-> IF f \in run[r].mine THEN DiscoveredAs(f) ELSE row[f]]
  /\ known' = known \cup run[r].marks
  /\ late' = late \cup Lost(r, run[r].marks)
  /\ run' = [run EXCEPT ![r] = Idle]
  /\ UNCHANGED <<there, fresh, faults>>

\* Mutant: the insert does not wait for another run's.
SeedBatchAtOnce(r, batch) ==
  /\ r \in Seeds /\ run[r].pc = "walk" /\ run[r].queue = {}
  /\ batch # {} /\ batch \subseteq Untracked(run[r].found)
  /\ Cardinality(batch) <= BatchSize
  /\ row' = [f \in Files |-> IF f \in batch THEN "seeded" ELSE row[f]]
  /\ UNCHANGED <<there, fresh, known, run, faults, late>>

\* A batch of a seed, inserted and committed.
SeedBatch(r, batch) ==
  /\ r \in Seeds /\ run[r].pc = "walk" /\ run[r].queue = {}
  /\ batch # {} /\ batch \subseteq Untracked(run[r].found)
  /\ Cardinality(batch) <= BatchSize /\ batch \cap Inserted(r) = {}
  /\ row' = [f \in Files |-> IF f \in batch THEN "seeded" ELSE row[f]]
  /\ UNCHANGED <<there, fresh, known, run, faults, late>>

\* Mutant: the directories are marked while a batch is missing.
MarkDirectoriesEarly(r) ==
  LET marks == Clean(r) \ known
  IN /\ r \in Seeds /\ run[r].pc = "walk" /\ run[r].queue = {}
     /\ marks \cap Inserted(r) = {} /\ marks # {}
     /\ known' = known \cup marks
     /\ late' = late \cup Lost(r, marks)
     /\ UNCHANGED <<there, fresh, row, run, faults>>

\* The directories, when nothing that was found is without a row.
MarkDirectories(r) ==
  LET marks == Clean(r) \ known
  IN /\ r \in Seeds /\ run[r].pc = "walk" /\ run[r].queue = {}
     /\ Untracked(run[r].found) = {} /\ marks \cap Inserted(r) = {}
     /\ known' = known \cup marks
     /\ late' = late \cup Lost(r, marks)
     /\ run' = [run EXCEPT ![r] = Idle]
     /\ UNCHANGED <<there, fresh, row, faults>>

\* A crash, a cancellation or a failing statement: the transaction is undone.
Abort(r) ==
  /\ run[r].pc # "idle" /\ faults < MaxFaults
  /\ run' = [run EXCEPT ![r] = Idle]
  /\ faults' = faults + 1
  /\ UNCHANGED <<there, fresh, row, known, late>>
-----------------------------------------------------------------------------
Work(r) ==
  \/ ListRoots(r, {}) \/ RecordTop(r) \/ Record(r) \/ Commit(r) \/ MarkDirectories(r)
  \/ \E d \in Directories : Read(r, d)
  \/ \E batch \in SUBSET Files : SeedBatch(r, batch)

Next ==
  \/ \E e \in Entries : Arrive(e) \/ Settle(e)
  \/ \E r \in Runs : Work(r) \/ Abort(r)
  \/ \E r \in Runs, failed \in SUBSET Roots \ {{}} : ListRoots(r, failed)
  \/ \E r \in Runs, d \in Directories : ReadFails(r, d)

\* The scheduled sync scans again and again and its calls return; windows end.
\* Nobody has to seed, but a seed that has begun goes on.
Fairness ==
  /\ \A e \in Entries : WF_vars(Settle(e))
  /\ \A r \in Scans : WF_vars(Work(r))
  /\ \A r \in Seeds : WF_vars(run[r].pc # "idle" /\ Work(r))

Spec == Init /\ [][Next]_vars
FairSpec == Spec /\ Fairness
-----------------------------------------------------------------------------
RunState == [pc : {"idle", "top", "walk", "commit"}, dirs : SUBSET Tops,
             queue : SUBSET Directories, read : SUBSET Directories,
             dirty : SUBSET Tops, missed : SUBSET Entries,
             found : SUBSET Files, mine : SUBSET Files, marks : SUBSET Tops]

\* Every variable keeps its type, no two open transactions hold one unique
\* key, and a transaction holds only keys that are not committed.
TypeOK ==
  /\ fresh \subseteq there /\ there \subseteq Entries
  /\ row \in [Files -> {"none", "discovered", "noscan", "seeded"}]
  /\ known \subseteq Tops /\ late \subseteq Files /\ faults \in 0..MaxFaults
  /\ run \in [Runs -> RunState]
  /\ \A r \in Runs : /\ (run[r].mine \cup run[r].marks) \cap (Inserted(r) \cup known) = {}
                     /\ Untracked(run[r].mine) = run[r].mine

\* A directory is never entered again once it is known, so whatever it held
\* when it was walked has a row by then: whether the walk was disturbed by
\* uploads, failures, aborts, other runs or batches, only files that arrived
\* behind the walk can be lost.
KnownIsRecordedUnlessLate ==
  \A f \in there \cap Files : Above[f] \cap known # {} => row[f] # "none" \/ f \in late

\* A file that exists is recorded in the end, unless it came into a directory
\* after the walk that made the directory known.
RecordedInTheEnd ==
  \A f \in Files : f \in there ~> row[f] # "none" \/ f \in late
=============================================================================
