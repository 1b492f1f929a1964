----------------------------- MODULE Catalogue -----------------------------
(***************************************************************************)
(* The catalogue of shows and episodes, and the jobs that fill it from     *)
(* TMDB: requests that add a show, imports of a list of paths, and syncs   *)
(* of the episodes of the shows that are there.                            *)
(*                                                                         *)
(* Each job has a database session.  Nobody sees what its transaction has  *)
(* written before the commit, but the unique keys (Show.tmdb_id,           *)
(* Episode.tmdb_id) make the second writer of a key wait for the first     *)
(* one, and fail when that commits.                                        *)
(***************************************************************************)
EXTENDS Naturals, FiniteSets, Sequences, SequencesExt

CONSTANTS
  Shows, Seasons,            \* seasons 1..Seasons of one episode for each show
  None,
  Creates, Imports, Syncs,   \* the jobs
  Lists,                     \* the directories of each import, in file order
  Modes,                     \* modes in which the imports may run
  MaxFaults                  \* bound: failures, lost workers and deleted shows

Jobs == Creates \cup Imports \cup Syncs
Numbers == 1..Seasons
Eps == Shows \X Numbers

\* A directory, or the files of a directory that belong to another show (split).
Group == [show : Shows, files : SUBSET Eps, split : BOOLEAN]
\* What a sync has queued: a show, or None when its row is gone since.
Queued == [show : Shows \cup {None}, files : {{}}, split : {FALSE}]

ASSUME CatalogueConstants ==
  /\ IsFiniteSet(Shows) /\ Seasons \in Nat \ {0} /\ MaxFaults \in Nat
  /\ Creates \cap Imports = {} /\ Creates \cap Syncs = {} /\ Imports \cap Syncs = {}
  /\ None \notin Shows \cup Numbers
  /\ Modes \subseteq {"full", "shows_only", "episodes_only"}
  /\ Lists \in [Imports -> Seq(Group)]

VARIABLES
  stored, cached,   \* committed Show rows, and those with cached = True
  eps, tracked,     \* committed Episode rows, and those with file_tracked
  job,              \* the memory and the open transaction of each job
  faults,
  \* history: shows of which an import saw less than TMDB has, for a failure; deleted ones
  spoiled, removed

db == <<stored, cached, eps, tracked>>
vars == <<stored, cached, eps, tracked, job, faults, spoiled, removed>>

\* An open transaction on one show: its row and the numbers of its episodes that
\* were inserted, cached = True, and the episodes that were marked tracked.
NoTx == [row |-> FALSE, eps |-> {}, cached |-> FALSE, marks |-> {}]

NoReport == [created |-> {}, tracked |-> {}, unmatched |-> {}]

\* todo: groups to come;  begun: the session has a transaction;  gone: the row of
\* cur was deleted;  known: a lookup found the episode;  files, claimed: entries
\* to match, episodes they have got in this directory;  told: what was reported.
Fresh(todo, mode) ==
  [pc |-> "idle", mode |-> mode, todo |-> todo, cur |-> None, how |-> "found",
   gone |-> FALSE, begun |-> FALSE, n |-> 1, known |-> FALSE, tx |-> NoTx,
   files |-> {}, claimed |-> {}, told |-> NoReport]

\* parse_file and group_by_show: the entries by directory.
Entries(j) == IF j \in Imports THEN Lists[j] ELSE <<>>

Init ==
  /\ stored = {} /\ cached = {} /\ eps = {} /\ tracked = {}
  /\ \E modes \in [Imports -> Modes] :
       job = [j \in Jobs |-> Fresh(Entries(j), IF j \in Imports THEN modes[j] ELSE "full")]
  /\ faults = 0 /\ spoiled = {} /\ removed = {}
-----------------------------------------------------------------------------
Numbered(s) == {n \in Numbers : <<s, n>> \in eps}

\* Mutant: only a show without any episode is synced again.
EmptyOfEpisodes(s) == Numbered(s) = {}
Empty(s) == s \notin cached \/ Numbered(s) = {}

\* What the session of j sees of the episodes of its show.
Seen(j) == Numbered(job[j].cur) \cup job[j].tx.eps

RowLocked(j, s) == \E k \in Jobs \ {j} : job[k].cur = s /\ job[k].tx.row
EpLocked(j, s, n) == \E k \in Jobs \ {j} : job[k].cur = s /\ n \in job[k].tx.eps

Publish(j) ==
  LET s == job[j].cur  tx == job[j].tx IN
  /\ stored' = IF tx.row THEN stored \cup {s} ELSE stored
  /\ cached' = IF tx.cached THEN cached \cup {s} ELSE cached
  /\ eps' = eps \cup ({s} \X tx.eps)
  /\ tracked' = tracked \cup tx.marks

Fail == faults < MaxFaults /\ faults' = faults + 1

\* The transaction is over, committed or not.
Lost(r, pc) == [r EXCEPT !.pc = pc, !.tx = NoTx, !.n = 1, !.known = FALSE, !.begun = FALSE]
\* The next group, with a clean session; the parts of a directory share what was claimed.
Leave(r) == [Lost(r, "next") EXCEPT
               !.todo = Tail(@), !.cur = None, !.gone = FALSE, !.how = "found", !.files = {},
               !.claimed = IF Len(r.todo) > 1 /\ r.todo[2].split THEN @ ELSE {}]
Unresolved(r) == Leave(r)
Start(r) == [r EXCEPT !.pc = "fetch", !.n = 1]
-----------------------------------------------------------------------------
(* Adding a show. *)

Existing(s) == s \in stored

\* A show that is there is returned, with its group map ensured.  Else its details
\* are fetched; when that fails the search card has to do.
Ask(c) ==
  /\ c \in Creates /\ job[c].pc = "idle"
  /\ \E s \in Shows :
       job' = [job EXCEPT ![c].cur = s, ![c].pc = IF Existing(s) THEN "done" ELSE "insert"]
  /\ UNCHANGED <<db, faults, spoiled, removed>>

Inserted(r) == [Start(r) EXCEPT !.tx.row = TRUE, !.begun = TRUE, !.how = "created"]

\* An import commits the new row at once.
Kept(r) == [Start(r) EXCEPT !.begun = FALSE, !.how = "created", !.told.created = @ \cup {r.cur}]

\* insert_show_or_existing: the loser of a race rolls back and looks for the winner.
Insert(j) ==
  LET s == job[j].cur IN
  /\ job[j].pc = "insert" /\ ~RowLocked(j, s)
  /\ job' = [job EXCEPT ![j] = IF s \in stored THEN Lost(@, "refind")
                               ELSE IF j \in Creates THEN Inserted(@) ELSE Kept(@)]
  /\ stored' = IF j \in Imports THEN stored \cup {s} ELSE stored
  /\ UNCHANGED <<cached, eps, tracked, faults, spoiled, removed>>

\* The winner may have been deleted since.
Refind(c) ==
  /\ c \in Creates /\ job[c].pc = "refind"
  /\ job' = [job EXCEPT ![c].pc = IF Existing(job[c].cur) THEN "done" ELSE "failed"]
  /\ UNCHANGED <<db, faults, spoiled, removed>>

\* A show that was found: its episodes are synced when it has none.  The count
\* begins a transaction.
\* Mutant: the show that somebody else is adding is taken as it is.
AdoptedUnsynced(r) == [r EXCEPT !.pc = "split", !.how = "found"]
Adopted(r) ==
  IF Numbered(r.cur) = {} THEN [Start(r) EXCEPT !.begun = TRUE, !.how = "found"]
  ELSE [r EXCEPT !.pc = "split", !.how = "found"]

AdoptWinner(i) ==
  /\ i \in Imports /\ job[i].pc = "refind"
  /\ job' = [job EXCEPT ![i] = IF Existing(@.cur) THEN Adopted([@ EXCEPT !.gone = FALSE])
                               ELSE Unresolved(@)]
  /\ UNCHANGED <<db, faults, spoiled, removed>>
-----------------------------------------------------------------------------
(* The episodes of a show, season by season. *)

\* A failed sync.  A request to add a show keeps what it has got, unless the
\* database failed.
Tolerated(r, database) == IF database THEN Lost(r, "failed") ELSE [r EXCEPT !.pc = "commit"]

\* An import rolls back, which expires the show that it goes on to read, and so
\* dies, unless there was nothing to roll back.
RolledBack(r) == IF r.begun THEN Lost(r, "aborted") ELSE [r EXCEPT !.pc = "alias"]

\* A sync goes on with the next show.
SyncFailed(j, database) ==
  LET r == job[j] IN
  /\ job' = [job EXCEPT ![j] = IF j \in Creates THEN Tolerated(@, database)
                               ELSE IF j \in Imports THEN RolledBack(@) ELSE Leave(@)]
  /\ spoiled' = IF \/ j \in Creates /\ ~database
                   \/ j \in Imports /\ ~r.begun
                THEN spoiled \cup {r.cur} ELSE spoiled

\* The episodes of a season that the database has already.
Known(j, n) == n \in Seen(j)

Fetch(j) ==
  LET r == job[j] IN
  /\ r.pc = "fetch"
  /\ \/ /\ job' = [job EXCEPT ![j].pc = "write", ![j].begun = TRUE, ![j].known = Known(j, r.n)]
        /\ UNCHANGED <<faults, spoiled>>
     \/ Fail /\ SyncFailed(j, FALSE)
  /\ UNCHANGED <<db, removed>>

\* A known episode is refreshed and a new one inserted.  The row of a deleted show
\* or episode cannot be written, nor an episode that somebody else has inserted.
Refused(j) == job[j].gone \/ (~job[j].known /\ job[j].n \in Numbered(job[j].cur))

NewEpisode(r) == IF r.known THEN r ELSE [r EXCEPT !.tx.eps = @ \cup {r.n}]

Write(j) ==
  LET r == job[j] IN
  /\ r.pc = "write"
  /\ r.known \/ ~EpLocked(j, r.cur, r.n)
  /\ IF Refused(j) THEN SyncFailed(j, TRUE)
     ELSE /\ job' = [job EXCEPT ![j] =
               [NewEpisode(r) EXCEPT !.known = FALSE,
                                     !.n = IF r.n < Seasons THEN @ + 1 ELSE 1,
                                     !.pc = IF r.n < Seasons THEN "fetch" ELSE "finish"]]
          /\ UNCHANGED spoiled
  /\ UNCHANGED <<db, faults, removed>>

\* cached, last_air_date and the group map, of which a failed fetch changes nothing.
Finish(j) ==
  LET r == job[j] IN
  /\ r.pc = "finish"
  /\ IF r.gone THEN SyncFailed(j, TRUE)
     ELSE /\ job' = [job EXCEPT
               ![j].tx.cached = TRUE,
               ![j].pc = IF j \notin Imports THEN "commit"
                         ELSE IF r.how = "created" THEN "alias" ELSE "split"]
          /\ UNCHANGED spoiled
  /\ UNCHANGED <<db, faults, removed>>

Commit(j) ==
  /\ job[j].pc = "commit"
  /\ Publish(j)
  /\ job' = [job EXCEPT ![j] = IF j \in Syncs THEN Leave(@) ELSE Lost(@, "alias")]
  /\ UNCHANGED <<faults, spoiled, removed>>

\* Aliases of a new show: TMDB and the LLM may fail without harm, the database not.
AliasesFail(r) == IF r.gone THEN UNCHANGED faults ELSE Fail
AliasesKept(r) == ~r.gone /\ UNCHANGED faults

\* The request ends in an error then, though its show is committed.
AliasCreated(c) ==
  /\ c \in Creates /\ job[c].pc = "alias"
  /\ \/ /\ AliasesKept(job[c])
        /\ job' = [job EXCEPT ![c].pc = "done", ![c].told.created = @ \cup {job[c].cur}]
     \/ AliasesFail(job[c]) /\ job' = [job EXCEPT ![c] = Lost(@, "failed")]
  /\ UNCHANGED <<db, spoiled, removed>>

\* An import rolls back, the episodes it has just synced included, and dies.
AliasImported(i) ==
  /\ i \in Imports /\ job[i].pc = "alias"
  /\ \/ AliasesKept(job[i]) /\ job' = [job EXCEPT ![i].pc = "split"]
     \/ AliasesFail(job[i]) /\ job' = [job EXCEPT ![i] = Lost(@, "aborted")]
  /\ UNCHANGED <<db, spoiled, removed>>
-----------------------------------------------------------------------------
(* Importing a list of paths. *)

Named(i) == Head(job[i].todo).show
Resolves(i) == i \in Imports /\ job[i].pc \in {"idle", "next"} /\ job[i].todo # <<>>

FindShow(i) ==
  /\ Resolves(i) /\ Named(i) \in stored
  /\ job' = [job EXCEPT ![i] = Adopted([@ EXCEPT !.cur = Named(i)])]
  /\ UNCHANGED <<db, faults, spoiled, removed>>

\* A show that is not there is searched on TMDB, and its details fetched.
SearchShow(i) ==
  /\ Resolves(i) /\ Named(i) \notin stored /\ job[i].mode # "episodes_only"
  /\ \/ job' = [job EXCEPT ![i].cur = Named(i), ![i].pc = "insert"] /\ UNCHANGED faults
     \/ Fail /\ job' = [job EXCEPT ![i] = Unresolved(@)]
  /\ UNCHANGED <<db, spoiled, removed>>

SkipShow(i) ==
  /\ Resolves(i) /\ Named(i) \notin stored /\ job[i].mode = "episodes_only"
  /\ job' = [job EXCEPT ![i] = Unresolved(@)]
  /\ UNCHANGED <<db, faults, spoiled, removed>>

Others(files, s) == {t \in Shows \ {s} : \E f \in files : f[1] = t}
Part(files, t) == [show |-> t, files |-> {f \in files : f[1] = t}, split |-> TRUE]

\* Files whose own name the LLM reads as another show; some it may misread.
Misplaced(g, mode) ==
  IF g.split \/ mode = "episodes_only" THEN {{}} ELSE SUBSET {f \in g.files : f[1] # g.show}

\* They are set apart, to be resolved after the rest.
Split(i) ==
  LET r == job[i]  g == Head(r.todo) IN
  /\ r.pc = "split" /\ r.mode # "shows_only"
  /\ \E away \in Misplaced(g, r.mode) :
       job' = [job EXCEPT
         ![i].pc = "match",
         ![i].files = g.files \ away,
         ![i].todo = <<g>> \o SetToSeq({Part(away, t) : t \in Others(away, g.show)}) \o Tail(@)]
  /\ UNCHANGED <<db, faults, spoiled, removed>>

FinishShowsOnly(i) ==
  /\ job[i].pc = "split" /\ job[i].mode = "shows_only"
  /\ Publish(i) /\ job' = [job EXCEPT ![i] = Leave(@)]
  /\ UNCHANGED <<faults, spoiled, removed>>

\* The LLM picks any episode from the list, or none.
Guesses(i) == Seen(i) \cup {None}

\* match_entry_to_episode: the episode of the season and number that the name has.
Matches(i, f) == IF f[2] \in Seen(i) THEN {f[2]} ELSE Guesses(i)

Tally(r, f, n) ==
  IF n = None THEN [r EXCEPT !.told.unmatched = @ \cup {<<r.cur, f[2]>>}]
  ELSE IF <<r.cur, n>> \in r.claimed THEN r
  ELSE [r EXCEPT !.claimed = @ \cup {<<r.cur, n>>}, !.tx.marks = @ \cup {<<r.cur, n>>}]

Track(i) ==
  LET r == job[i] IN
  /\ r.pc = "match"
  /\ \E f \in r.files : \E n \in Matches(i, f) :
       job' = [job EXCEPT ![i] = [Tally(r, f, n) EXCEPT !.files = r.files \ {f}]]
  /\ UNCHANGED <<db, faults, spoiled, removed>>

\* Mutant: the directory is reported before it is committed.
EndGroupUncommitted(i) ==
  LET r == job[i] IN
  /\ r.pc = "match" /\ r.files = {}
  /\ job' = [job EXCEPT ![i] = [Leave(r) EXCEPT !.told.tracked = @ \cup r.tx.marks]]
  /\ UNCHANGED <<db, faults, spoiled, removed>>
EndGroup(i) ==
  LET r == job[i] IN
  /\ r.pc = "match" /\ r.files = {}
  /\ Publish(i)
  /\ job' = [job EXCEPT ![i] = [Leave(r) EXCEPT !.told.tracked = @ \cup r.tx.marks]]
  /\ UNCHANGED <<faults, spoiled, removed>>

EndImport(i) ==
  /\ i \in Imports /\ job[i].pc = "next" /\ job[i].todo = <<>>
  /\ job' = [job EXCEPT ![i].pc = "done"]
  /\ UNCHANGED <<db, faults, spoiled, removed>>
-----------------------------------------------------------------------------
(* Syncing the shows that are there. *)

Incomplete == {s \in stored : Empty(s)}
Queue(shows) == {[k \in DOMAIN q |-> [show |-> q[k], files |-> {}, split |-> FALSE]] :
                   q \in SetToSeqs(shows)}

\* sync_all_shows picks the shows that are not cached or have no episodes.
SyncAll(y) ==
  /\ y \in Syncs /\ job[y].pc = "idle" /\ Incomplete # {}
  /\ \E q \in Queue(Incomplete) : job' = [job EXCEPT ![y].todo = q, ![y].pc = "next"]
  /\ UNCHANGED <<db, faults, spoiled, removed>>

\* A user syncs a show, or the shows that the calendar has a missing episode of.
SyncOne(y) ==
  /\ y \in Syncs /\ job[y].pc = "idle"
  /\ \E s \in stored : \E q \in Queue({s}) : job' = [job EXCEPT ![y].todo = q, ![y].pc = "next"]
  /\ UNCHANGED <<db, faults, spoiled, removed>>

Missing == {s \in stored : \E n \in Numbered(s) : <<s, n>> \notin tracked}
SyncMissing(y) ==
  /\ y \in Syncs /\ job[y].pc = "idle" /\ Missing # {}
  /\ \E q \in Queue(Missing) : job' = [job EXCEPT ![y].todo = q, ![y].pc = "next"]
  /\ UNCHANGED <<db, faults, spoiled, removed>>

\* Nothing comes of the sync of a show that was deleted meanwhile.
SyncNext(y) ==
  LET r == job[y] IN
  /\ y \in Syncs /\ r.pc = "next"
  /\ job' = [job EXCEPT ![y] =
       IF r.todo = <<>> THEN [r EXCEPT !.pc = "idle"]
       ELSE IF Head(r.todo).show = None THEN Leave(r)
       ELSE [Start(r) EXCEPT !.cur = Head(r.todo).show, !.begun = TRUE]]
  /\ UNCHANGED <<db, faults, spoiled, removed>>
-----------------------------------------------------------------------------
\* Mutant: the episodes of a deleted show stay.
WithoutCascade(rows, s) == rows
Without(rows, s) == {e \in rows : e[1] # s}

\* A sync that has queued the show finds no row when its turn comes.
Dropped(todo, s) ==
  [k \in DOMAIN todo |-> IF todo[k].show = s THEN [todo[k] EXCEPT !.show = None] ELSE todo[k]]

\* A show is deleted with all its episodes; that waits for the transactions that
\* have written below it.
Delete(s) ==
  /\ s \in stored /\ Fail
  /\ \A j \in Jobs : job[j].cur = s => job[j].tx = NoTx
  /\ stored' = stored \ {s} /\ cached' = cached \ {s}
  /\ eps' = Without(eps, s) /\ tracked' = Without(tracked, s)
  /\ job' = [j \in Jobs |->
       [job[j] EXCEPT
          !.gone = @ \/ (job[j].cur = s /\ job[j].pc # "insert"),
          !.todo = IF j \in Syncs THEN Dropped(@, s) ELSE @]]
  /\ spoiled' = spoiled \cup {s} /\ removed' = removed \cup {s}

\* A worker is lost, with its transaction.  The import is delivered again.
Over(j) == job[j].pc \in {"done", "failed", "aborted"}
Lose(j) ==
  /\ job[j].pc # "idle" /\ ~Over(j) /\ Fail
  /\ job' = [job EXCEPT ![j] =
       IF j \in Creates THEN Lost(@, "failed") ELSE Fresh(Entries(j), @.mode)]
  /\ UNCHANGED <<db, spoiled, removed>>
-----------------------------------------------------------------------------
Step(j) ==
  \/ Insert(j) \/ Refind(j) \/ AdoptWinner(j) \/ Fetch(j) \/ Write(j) \/ Finish(j) \/ Commit(j)
  \/ AliasCreated(j) \/ AliasImported(j) \/ FindShow(j) \/ SearchShow(j) \/ SkipShow(j)
  \/ Split(j) \/ FinishShowsOnly(j) \/ Track(j) \/ EndGroup(j) \/ EndImport(j) \/ SyncNext(j)

Next ==
  \/ \E j \in Jobs : Step(j) \/ Ask(j) \/ SyncAll(j) \/ SyncOne(j) \/ SyncMissing(j) \/ Lose(j)
  \/ \E s \in Shows : Delete(s)

Spec == Init /\ [][Next]_vars

\* A job that has begun goes on, and the sync of all shows is scheduled.
FairSpec ==
  /\ Spec
  /\ \A j \in Jobs : WF_vars(Step(j)) /\ SF_vars(SyncAll(j))
-----------------------------------------------------------------------------
\* The rows hang together (an episode has its show, a cached or tracked row is there),
\* and the jobs are well formed.
TypeOK ==
  /\ stored \subseteq Shows /\ cached \subseteq stored
  /\ eps \subseteq stored \X Numbers /\ tracked \subseteq eps
  /\ faults \in 0..MaxFaults
  /\ spoiled \subseteq Shows /\ removed \subseteq Shows
  /\ \A j \in Jobs :
       /\ job[j].pc \in {"idle", "next", "insert", "refind", "fetch", "write", "finish",
                         "commit", "alias", "split", "match", "done", "failed", "aborted"}
       /\ job[j].cur \in Shows \cup {None} /\ job[j].todo \in Seq(Group \cup Queued)
       /\ job[j].tx.eps \subseteq Numbers /\ job[j].tx.marks \subseteq Eps
       /\ job[j].files \subseteq Eps /\ job[j].claimed \subseteq Eps

\* When an import reports a file as unmatched although TMDB has its episode, a fetch
\* has failed or the show was deleted; that somebody else is just adding the show is
\* no reason (path_import_orchestrator.py _sync_episodes_if_needed).
UnmatchedIsReal ==
  \A i \in Imports : \A e \in job[i].told.unmatched : e[1] \in spoiled

\* What a job has reported as created or tracked is in the database for good,
\* whatever fails or is rolled back later.
ReportIsDurable ==
  \A j \in Jobs :
    /\ job[j].told.created \subseteq stored \cup removed
    /\ \A e \in job[j].told.tracked : e \in tracked \/ e[1] \in removed

\* A show with only some of its episodes, after a failed or an interrupted sync,
\* gets them all.
CatalogueHeals ==
  \A s \in Shows : s \in stored ~> s \notin stored \/ Numbered(s) = Numbers

\* "import proceeds with whatever was synced": a failed sync ends no import.
ImportProceeds == \A i \in Imports : job[i].pc # "aborted"
=============================================================================
