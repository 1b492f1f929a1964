------------------------------ MODULE Matching ------------------------------
(***************************************************************************)
(* Parse runs and users decide what a downloaded file is.                  *)
(*                                                                         *)
(* A run (the match task, or phase 4 of sync) loads the waiting rows once  *)
(* and handles them one by one; the parsing of a name waits for a language *)
(* model, so that rows change meanwhile.  A session writes only the        *)
(* columns that differ from what it has loaded, and holds the locks of the *)
(* rows it has written until it commits.  The progress report of the match *)
(* task commits the work before it; sync commits at the end.               *)
(*                                                                         *)
(* The text work (parsing, title look-up) is a free choice of its outcome: *)
(* an error, no show, or a show with at most one episode wanted.           *)
(***************************************************************************)
EXTENDS Naturals, FiniteSets

CONSTANTS
  Runs,         \* runs of ParseOrchestrator
  Reporting,    \* those of the match task; the others are phases of sync
  Users,        \* requests at work at once
  Files, Shows, Episodes,
  ShowOf,       \* the show of an episode
  Movies,       \* the shows of media type movie: they have no episodes
  None,         \* no show, no episode
  MaxRequests,  \* bound: user requests
  MaxLoads,     \* bound: runs that are started and find files
  MaxAborts     \* bound: runs that are cancelled, time out or are lost

ASSUME MatchingConstants ==
  /\ Reporting \subseteq Runs
  /\ ShowOf \in [Episodes -> Shows \ Movies]
  /\ Movies \subseteq Shows
  /\ None \notin Files \cup Shows \cup Episodes /\ Runs \cap Users = {}
  /\ MaxRequests \in Nat /\ MaxLoads \in Nat /\ MaxAborts \in Nat

VARIABLES
  row,       \* the committed columns of a file
  known,     \* the committed episode rows
  pc,        \* where a run is
  loaded,    \* the rows a run has loaded and not yet handled, as it has loaded them
  cur,       \* the file it is parsing
  pending,   \* the columns it has flushed and not committed
  added,     \* the episodes it has added and not committed
  refreshed, \* the shows it has refreshed
  gaps,      \* phase 4.5 of sync: matched files without episode, with their show
  request,   \* the file of a user's request, and its row as read
  requests, loads, aborts,
  behind,    \* history: rows that changed under a run or a request
  raced      \* history: rows that were written from an outdated view

runVars == <<pc, loaded, cur, pending, added, refreshed, gaps, loads>>
userVars == <<request, requests>>
vars == <<row, known, runVars, userVars, aborts, behind, raced>>

Statuses == {"discovered", "downloaded", "unmatched", "matched", "ignored", "error"}
Matchers == {"none", "auto", "manual"}
Row == [st : Statuses, show : Shows \cup {None}, ep : Episodes \cup {None},
        by : Matchers]
Columns == {"st", "show", "ep", "by"}
Actors == Runs \cup Users
Nobody == [file |-> None]

\* What a session emits as UPDATE: the columns whose value has changed.
Changes(old, new) == [c \in {c \in Columns : new[c] # old[c]} |-> new[c]]
Updated(r, delta) ==
  [c \in Columns |-> IF c \in DOMAIN delta THEN delta[c] ELSE r[c]]
NoChange == [c \in {} |-> None]

Init ==
  /\ row = [f \in Files |-> [st |-> "discovered", show |-> None, ep |-> None,
                             by |-> "none"]]
  /\ known \in SUBSET Episodes
  /\ pc = [r \in Runs |-> "idle"]
  /\ loaded = [r \in Runs |-> <<>>]
  /\ cur = [r \in Runs |-> None]
  /\ pending = [r \in Runs |-> [f \in Files |-> NoChange]]
  /\ added = [r \in Runs |-> {}]
  /\ refreshed = [r \in Runs |-> {}]
  /\ gaps = [r \in Runs |-> {}]
  /\ request = [u \in Users |-> Nobody]
  /\ requests = 0 /\ loads = 0 /\ aborts = 0
  /\ behind = [a \in Actors |-> {}]
  /\ raced = {}
-----------------------------------------------------------------------------
(***************************************************************************)
(* Sessions.                                                               *)
(***************************************************************************)
Holds(r, f) == pending[r][f] # NoChange
Unlocked(f, a) == \A r \in Runs \ {a} : ~Holds(r, f)

\* Files whose row is part of the view of actor a.
Unhandled(a) == IF a \in Runs THEN DOMAIN loaded[a] ELSE {}
Viewed(a) == IF a \in Runs THEN Unhandled(a) \cup {g[1] : g \in gaps[a]}
             ELSE {request[a].file} \ {None}

\* The history of a commit by a that writes the rows F.
Record(a, F) ==
  /\ raced' = raced \cup (F \cap behind[a])
  /\ behind' = [b \in Actors |-> IF b = a THEN behind[a] \cap Unhandled(a)
                                 ELSE behind[b] \cup (F \cap Viewed(b))]

\* session.commit() of run r.
CommitRun(r) ==
  LET F == {f \in Files : Holds(r, f)} IN
  /\ row' = [f \in Files |-> Updated(row[f], pending[r][f])]
  /\ pending' = [pending EXCEPT ![r] = [f \in Files |-> NoChange]]
  /\ known' = known \cup added[r]
  /\ added' = [added EXCEPT ![r] = {}]
  /\ Record(r, F)

\* The episodes that run r sees.
SeenEpisodes(r) == known \cup added[r]
-----------------------------------------------------------------------------
(***************************************************************************)
(* A parse run.                                                            *)
(***************************************************************************)
Waiting == {f \in Files : row[f].st \in {"downloaded", "unmatched"}}

\* Mutant: the run takes rows up that are matched already.
LoadMatchedToo(r) ==
  LET W == {f \in Files : row[f].st \in {"downloaded", "unmatched", "matched"}} IN
  /\ pc[r] = "idle" /\ W # {} /\ loads < MaxLoads
  /\ loaded' = [loaded EXCEPT ![r] = [f \in W |-> row[f]]]
  /\ pc' = [pc EXCEPT ![r] = "loaded"]
  /\ loads' = loads + 1
  /\ UNCHANGED <<row, known, cur, pending, added, refreshed, gaps, userVars, aborts,
                 behind, raced>>

Load(r) ==
  /\ pc[r] = "idle" /\ Waiting # {} /\ loads < MaxLoads
  /\ loaded' = [loaded EXCEPT ![r] = [f \in Waiting |-> row[f]]]
  /\ pc' = [pc EXCEPT ![r] = "loaded"]
  /\ loads' = loads + 1
  /\ UNCHANGED <<row, known, cur, pending, added, refreshed, gaps, userVars, aborts,
                 behind, raced>>

\* The progress report of the match task commits what the run has flushed.
Take(r, f) ==
  /\ pc[r] = "loaded" /\ f \in DOMAIN loaded[r]
  /\ pc' = [pc EXCEPT ![r] = "parsing"]
  /\ cur' = [cur EXCEPT ![r] = f]
  /\ IF r \in Reporting THEN CommitRun(r)
     ELSE UNCHANGED <<row, known, pending, added, behind, raced>>
  /\ UNCHANGED <<loaded, refreshed, gaps, userVars, loads, aborts>>

\* The file at hand is flushed with the attributes new, once its row is free.
Flush(r, new) ==
  LET f == cur[r]
      delta == Changes(loaded[r][f], new) IN
  /\ pc[r] = "parsing" /\ Unlocked(f, r)
  /\ pending' = [pending EXCEPT ![r][f] = delta]
  /\ loaded' = [loaded EXCEPT ![r] = [g \in DOMAIN @ \ {f} |-> @[g]]]
  /\ behind' = [behind EXCEPT ![r] = IF delta = NoChange THEN @ \ {f} ELSE @]
  /\ cur' = [cur EXCEPT ![r] = None]
  /\ pc' = [pc EXCEPT ![r] = "loaded"]
  /\ UNCHANGED <<row, known, gaps, userVars, loads, aborts, raced>>

Attributes(r) == loaded[r][cur[r]]

\* Low confidence, an arc without season, or no show: other columns stay.
LeaveUnmatched(r) ==
  /\ pc[r] = "parsing"
  /\ Flush(r, [Attributes(r) EXCEPT !.st = "unmatched"])
  /\ UNCHANGED <<added, refreshed>>

\* An exception keeps what had been assigned before it.
FailFile(r, s) ==
  /\ pc[r] = "parsing"
  /\ \/ Flush(r, [Attributes(r) EXCEPT !.st = "error"])
     \/ Flush(r, [Attributes(r) EXCEPT !.st = "error", !.show = s])
  /\ UNCHANGED <<added, refreshed>>

\* _apply_match with an episode.
Link(r, e) == Flush(r, [st |-> "matched", show |-> ShowOf[e], ep |-> e, by |-> "auto"])

LinkFile(r, e) ==
  /\ pc[r] = "parsing" /\ e \in SeenEpisodes(r)
  /\ Link(r, e)
  /\ UNCHANGED <<added, refreshed>>

\* One refresh per show and run: it brings the episode in, or it does not.
RefreshAndLink(r, e) ==
  /\ pc[r] = "parsing" /\ e \notin SeenEpisodes(r)
  /\ ShowOf[e] \notin refreshed[r]
  /\ refreshed' = [refreshed EXCEPT ![r] = @ \cup {ShowOf[e]}]
  /\ added' = [added EXCEPT ![r] = @ \cup {e}]
  /\ Link(r, e)

\* _apply_match without an episode.
LeaveUnresolved(r, s) ==
  /\ pc[r] = "parsing" /\ s \notin Movies
  /\ Flush(r, [st |-> "unmatched", show |-> s, ep |-> None, by |-> "auto"])
  /\ refreshed' = [refreshed EXCEPT ![r] = @ \cup {s}]
  /\ UNCHANGED added

LinkMovie(r, s) ==
  /\ pc[r] = "parsing" /\ s \in Movies
  /\ Flush(r, [st |-> "matched", show |-> s, ep |-> None, by |-> "auto"])
  /\ UNCHANGED <<added, refreshed>>

\* Phase 4.5 looks for gaps after phase 4.
Commit(r) ==
  /\ pc[r] = "loaded" /\ DOMAIN loaded[r] = {}
  /\ CommitRun(r)
  /\ refreshed' = [refreshed EXCEPT ![r] = {}]
  /\ pc' = [pc EXCEPT ![r] = IF r \in Reporting THEN "idle" ELSE "filling"]
  /\ UNCHANGED <<loaded, cur, gaps, userVars, loads, aborts>>

\* Every show once: the files of show s that were matched without their episode.
FillSelect(r, s) ==
  LET G == {f \in Files : row[f].st = "matched" /\ row[f].ep = None
                          /\ row[f].show = s} IN
  /\ pc[r] = "filling" /\ s \notin Movies \cup refreshed[r] /\ G # {}
  /\ refreshed' = [refreshed EXCEPT ![r] = @ \cup {s}]
  /\ gaps' = [gaps EXCEPT ![r] = {<<f, s>> : f \in G}]
  /\ pc' = [pc EXCEPT ![r] = "linking"]
  /\ UNCHANGED <<row, known, loaded, cur, pending, added,
                 userVars, loads, aborts, behind, raced>>

\* The episodes that are known after the refresh of the show are linked.
FillLink(r) ==
  /\ pc[r] = "linking"
  /\ \E F \in SUBSET gaps[r] : \E e \in [F -> known] :
       /\ \A g \in F : ShowOf[e[g]] = g[2] /\ Unlocked(g[1], r)
       /\ row' = [f \in Files |->
                   IF \E g \in F : g[1] = f
                   THEN [row[f] EXCEPT !.ep = e[CHOOSE g \in F : g[1] = f]]
                   ELSE row[f]]
       /\ Record(r, {g[1] : g \in F})
  /\ gaps' = [gaps EXCEPT ![r] = {}]
  /\ pc' = [pc EXCEPT ![r] = "filling"]
  /\ UNCHANGED <<known, loaded, cur, pending, added, refreshed, userVars, loads, aborts>>

\* The shows are done, or their refresh has failed.
FillEnd(r) ==
  /\ pc[r] = "filling"
  /\ pc' = [pc EXCEPT ![r] = "idle"]
  /\ refreshed' = [refreshed EXCEPT ![r] = {}]
  /\ UNCHANGED <<row, known, loaded, cur, pending, added, gaps, userVars, loads, aborts,
                 behind, raced>>

\* Mutant: the rolled back run still has its file.
RollbackKeepingFile(r) ==
  /\ pc' = [pc EXCEPT ![r] = "idle"]
  /\ loaded' = [loaded EXCEPT ![r] = <<>>]
  /\ pending' = [pending EXCEPT ![r] = [f \in Files |-> NoChange]]
  /\ added' = [added EXCEPT ![r] = {}]
  /\ refreshed' = [refreshed EXCEPT ![r] = {}]
  /\ gaps' = [gaps EXCEPT ![r] = {}]
  /\ behind' = [behind EXCEPT ![r] = {}]
  /\ UNCHANGED <<row, known, cur, loads, userVars, raced>>

\* The session is rolled back.
Rollback(r) ==
  /\ pc' = [pc EXCEPT ![r] = "idle"]
  /\ loaded' = [loaded EXCEPT ![r] = <<>>]
  /\ cur' = [cur EXCEPT ![r] = None]
  /\ pending' = [pending EXCEPT ![r] = [f \in Files |-> NoChange]]
  /\ added' = [added EXCEPT ![r] = {}]
  /\ refreshed' = [refreshed EXCEPT ![r] = {}]
  /\ gaps' = [gaps EXCEPT ![r] = {}]
  /\ behind' = [behind EXCEPT ![r] = {}]
  /\ UNCHANGED <<row, known, loads, userVars, raced>>

\* Cancelled at a progress report, out of time, lost with its worker, or chosen by
\* PostgreSQL when two runs wait for each other's rows (the select has no order).
Abort(r) ==
  /\ pc[r] # "idle" /\ aborts < MaxAborts
  /\ aborts' = aborts + 1
  /\ Rollback(r)
-----------------------------------------------------------------------------
(***************************************************************************)
(* Users, and what happens around the rows.                                *)
(***************************************************************************)
Read(u, f) ==
  /\ request[u] = Nobody /\ requests < MaxRequests
  /\ row[f].st # "discovered"
  /\ request' = [request EXCEPT ![u] = [file |-> f, row |-> row[f]]]
  /\ requests' = requests + 1
  /\ UNCHANGED <<row, known, runVars, aborts, behind, raced>>

\* A request ends by writing the attributes new over the row it has read.
Write(u, new) ==
  LET f == request[u].file
      delta == Changes(request[u].row, new) IN
  /\ Unlocked(f, u)
  /\ row' = [row EXCEPT ![f] = Updated(@, delta)]
  /\ request' = [request EXCEPT ![u] = Nobody]
  /\ Record(u, IF delta = NoChange THEN {} ELSE {f})
  /\ UNCHANGED <<known, runVars, requests, aborts>>

\* Mutant: a match keeps the episode it cannot resolve anew.
AssignKeepingEpisode(u, s, e) ==
  /\ request[u] # Nobody /\ request[u].row.st # "ignored"
  /\ e # None => e \in known /\ ShowOf[e] = s
  /\ Write(u, [request[u].row EXCEPT !.st = "matched", !.show = s, !.by = "manual",
                                     !.ep = IF e = None THEN @ ELSE e])

\* _assign: the episode is resolved from the parsed numbers, or left open.
Assign(u, s, e) ==
  /\ request[u] # Nobody /\ request[u].row.st # "ignored"
  /\ e # None => e \in known /\ ShowOf[e] = s
  /\ Write(u, [request[u].row EXCEPT !.st = "matched", !.show = s, !.by = "manual",
                                     !.ep = e])

\* _reset: back to automatic matching.
Reset(u) ==
  /\ request[u] # Nobody /\ request[u].row.st # "ignored"
  /\ Write(u, [request[u].row EXCEPT !.st = "downloaded", !.show = None, !.ep = None,
                                     !.by = "none"])

Ignore(u) ==
  /\ request[u] # Nobody /\ request[u].row.st \in {"unmatched", "error"}
  /\ Write(u, [request[u].row EXCEPT !.st = "ignored"])

\* 404, 409 or 422, or the client has gone.
Refuse(u) ==
  /\ request[u] # Nobody
  /\ request' = [request EXCEPT ![u] = Nobody]
  /\ behind' = [behind EXCEPT ![u] = {}]
  /\ UNCHANGED <<row, known, runVars, requests, aborts, raced>>

\* The download of a file is complete (module Downloads).
Arrive(f) ==
  /\ row[f].st = "discovered"
  /\ row' = [row EXCEPT ![f].st = "downloaded"]
  /\ UNCHANGED <<known, runVars, userVars, aborts, behind, raced>>

\* A metadata refresh brings an episode in.
Announce(e) ==
  /\ e \notin known
  /\ known' = known \cup {e}
  /\ UNCHANGED <<row, runVars, userVars, aborts, behind, raced>>
-----------------------------------------------------------------------------
Parse(r) ==
  \/ LeaveUnmatched(r)
  \/ \E s \in Shows : FailFile(r, s) \/ LeaveUnresolved(r, s) \/ LinkMovie(r, s)
  \/ \E e \in Episodes : LinkFile(r, e) \/ RefreshAndLink(r, e)

Step(r) ==
  \/ Load(r) \/ (\E f \in Files : Take(r, f)) \/ Parse(r) \/ Commit(r)
  \/ (\E s \in Shows : FillSelect(r, s)) \/ FillLink(r)

UserStep(u) ==
  \/ (\E f \in Files : Read(u, f)) \/ Reset(u) \/ Ignore(u) \/ Refuse(u)
  \/ \E s \in Shows, e \in Episodes \cup {None} : Assign(u, s, e)

Next ==
  \/ \E r \in Runs : Step(r) \/ FillEnd(r) \/ Abort(r)
  \/ \E u \in Users : UserStep(u)
  \/ \E f \in Files : Arrive(f)
  \/ \E e \in Episodes : Announce(e)

Spec == Init /\ [][Next]_vars
-----------------------------------------------------------------------------
(***************************************************************************)
(* Properties.                                                             *)
(***************************************************************************)
\* What the variables hold: rows, views of rows, and the columns in flight.
TypeOK ==
  /\ row \in [Files -> Row]
  /\ known \subseteq Episodes
  /\ pc \in [Runs -> {"idle", "loaded", "parsing", "filling", "linking"}]
  /\ \A r \in Runs :
       /\ \A f \in DOMAIN loaded[r] : loaded[r][f] \in Row
       /\ (pc[r] = "parsing") = (cur[r] # None)
       /\ \A f \in Files : Holds(r, f) => f \notin DOMAIN loaded[r]
       /\ gaps[r] \subseteq Files \X Shows

\* The first linking invariant of file_relink.py: the episode of a file belongs
\* to the file's show.
EpisodeOfItsShow ==
  \A f \in Files : row[f].ep # None => row[f].show = ShowOf[row[f].ep]

\* It holds for every row that nobody wrote from an outdated view, through any
\* sequence of parses, refreshes, gap fills, matches and resets.
EpisodeOfItsShowUnlessRaced ==
  \A f \in Files \ raced : row[f].ep # None => row[f].show = ShowOf[row[f].ep]

\* What a user has decided changes only by a user, by the gap fill that supplies
\* the missing episode, or by a writer that had an outdated view of the row.
Decided(r) == r.st = "ignored" \/ (r.st = "matched" /\ r.by = "manual")
DecisionsLast ==
  [][\A f \in Files :
       Decided(row[f]) /\ row'[f] # row[f]
       => \/ \E u \in Users : request[u].file = f /\ request'[u] = Nobody
          \/ row'[f] = [row[f] EXCEPT !.ep = row'[f].ep] /\ row[f].ep = None
          \/ f \in raced']_vars
=============================================================================
