------------------------------ MODULE Refresh ------------------------------
(***************************************************************************)
(* The metadata of the shows, which TMDB owns.  A daily run refreshes the  *)
(* shows most in need of it; requests write the same columns: a refresh or *)
(* a rematch of one show, and the backfill of the shows that were added    *)
(* from a search card.                                                     *)
(*                                                                         *)
(* Every writer loads a row, waits for TMDB, and then writes the columns   *)
(* that differ from what it has loaded.                                    *)
(***************************************************************************)
EXTENDS Naturals, FiniteSets, Sequences, SequencesExt

CONSTANTS
  N,                               \* shows 1..N, in the order of their ids
  Entries, Home,                   \* TMDB's entries, and the one of each show at first
  Odd, Zero, Gone,                 \* entries: next episode in the past; no votes; deleted
  Cards, Rss, Old,                 \* shows: added from a search card; with a subscription;
                                   \* last aired too long ago
  Limit,                           \* shows refreshed in a run
  StaleDays, AiringDays, EndedDays,
  MaxAge,                          \* bound: longer ages are not told apart
  MaxFaults, MaxChanges, MaxRequests  \* bounds: failures; changes on TMDB; requests

Shows == 1..N
Never == MaxAge + 1

ASSUME RefreshConstants ==
  /\ N \in Nat /\ Limit \in Nat \ {0} /\ Home \in [Shows -> Entries]
  /\ \A s, t \in Shows : Home[s] = Home[t] => s = t
  /\ {StaleDays, AiringDays, EndedDays} \subseteq 1..MaxAge
  /\ Odd \subseteq Entries /\ Zero \subseteq Entries /\ Gone \subseteq Entries
  /\ Cards \subseteq Shows /\ Rss \subseteq Shows /\ Old \subseteq Shows
  /\ {MaxAge, MaxFaults, MaxChanges, MaxRequests} \subseteq Nat

Queued == {"daily", "backfill"}      \* writers that work through a queue of shows
Writers == Queued \cup {"user"}
Statuses == {"airing", "ended", "none"}

\* The columns of TMDB: the status, is the next episode in the past, are there no
\* votes, are there genres.
Columns == {"status", "past", "zero", "genres"}

VARIABLES
  tmdbStatus, \* TMDB's status of each entry
  finished,  \* did a season end "today", or "before" but since the last refresh, or "no"
  live, row, \* the Show rows that are there: entry, columns, days since the last refresh
  queue, at, \* what a writer has to do, and the show it works on
  faults, changes, requests

tmdb == <<tmdbStatus, finished, changes>>
refreshVars == <<tmdbStatus, finished, live, row, queue, at, faults, changes, requests>>

Fetched(e) == [status |-> tmdbStatus[e], past |-> e \in Odd, zero |-> e \in Zero, genres |-> TRUE]

\* What a search card has: no status, no genres.
Card == [status |-> "none", past |-> FALSE, zero |-> TRUE, genres |-> FALSE]
Row(e, data, refreshed) == [id |-> e, data |-> data, refreshed |-> refreshed]
Off == [pc |-> "off", show |-> 0, to |-> Home[1], rematch |-> FALSE, loaded |-> Card, data |-> Card]

RefreshInit ==
  /\ tmdbStatus = [e \in Entries |-> "airing"] /\ finished = [s \in Shows |-> "no"]
  /\ live = Shows
  /\ row = [s \in Shows |-> IF s \in Cards THEN Row(Home[s], Card, Never)
                            ELSE Row(Home[s], Fetched(Home[s]), 0)]
  /\ queue = [w \in Queued |-> <<>>] /\ at = [w \in Writers |-> Off]
  /\ faults = 0 /\ changes = 0 /\ requests = 0
-----------------------------------------------------------------------------
(* The policy: which shows are due, why, and in which order. *)

Refreshed(s) == row[s].refreshed # Never
AgeExceeds(s, days) == Refreshed(s) /\ row[s].refreshed >= days
PastMinRecheck(s) == AgeExceeds(s, 1)

Contradictory(s) == PastMinRecheck(s) /\ row[s].data.past
SeasonFullyAired(s) == PastMinRecheck(s) /\ finished[s] # "no"
ZeroVotes(s) == row[s].data.zero /\ AgeExceeds(s, StaleDays)
AiringDue(s) == row[s].data.status = "airing" /\ AgeExceeds(s, AiringDays)
Stale(s) == row[s].data.status = "none" /\ AgeExceeds(s, StaleDays)

\* Mutant: an ended show is never looked at again.
NoEndedRecheck(s) == FALSE
EndedRecheck(s) == row[s].data.status = "ended" /\ AgeExceeds(s, EndedDays)

\* The first rule that holds, by its place in RULES, or NoReason.
NoReason == 8
Reason(s) ==
  IF Contradictory(s) THEN 1
  ELSE IF ~Refreshed(s) THEN 2
  ELSE IF SeasonFullyAired(s) THEN 3
  ELSE IF ZeroVotes(s) THEN 4
  ELSE IF AiringDue(s) THEN 5
  ELSE IF Stale(s) THEN 6
  ELSE IF EndedRecheck(s) THEN 7
  ELSE NoReason
Due(s) == s \in live \ Old /\ Reason(s) # NoReason

\* By reason, then shows with a subscription, then the longest without a refresh.
Rank(s) == <<Reason(s), IF s \in Rss THEN 0 ELSE 1, Never - row[s].refreshed, s>>
Before(p, q) ==
  \/ p[1] < q[1]
  \/ p[1] = q[1] /\ \/ p[2] < q[2]
                    \/ p[2] = q[2] /\ \/ p[3] < q[3]
                                      \/ p[3] = q[3] /\ p[4] < q[4]

Ranks == {Rank(s) : s \in {t \in Shows : Due(t)}}
Nth(ranks, k) == CHOOSE p \in ranks : Cardinality({q \in ranks : Before(q, p)}) = k - 1

\* Mutant: a run has no limit.
SelectedAll(ranks) == [k \in 1..Cardinality(ranks) |-> Nth(ranks, k)[4]]

\* What a run takes: the first Limit shows.
Selected(ranks) ==
  LET due == Cardinality(ranks) IN
  [k \in 1..(IF due < Limit THEN due ELSE Limit) |-> Nth(ranks, k)[4]]
-----------------------------------------------------------------------------
(* The writers. *)

Fail == faults < MaxFaults /\ faults' = faults + 1

Load(s, e, rematch, loaded) ==
  [Off EXCEPT !.pc = "fetch", !.show = s, !.to = e, !.rematch = rematch, !.loaded = loaded]

\* Once a day.  An age counts the whole days that will have passed at the next run.
\* (The ranks are bound so that TLC works them out once.)
StartDaily ==
  /\ queue["daily"] = <<>> /\ at["daily"].pc = "off"
  /\ row' = [s \in Shows |-> [row[s] EXCEPT !.refreshed = IF @ < MaxAge THEN @ + 1 ELSE @]]
  /\ finished' = [s \in Shows |-> IF finished[s] = "today" THEN "before" ELSE finished[s]]
  /\ \E ranks \in {Ranks} : queue' = [queue EXCEPT !["daily"] = Selected(ranks)]
  /\ UNCHANGED <<tmdbStatus, changes, live, at, faults, requests>>

\* The row is read when its turn comes; a deleted show is passed over.
LoadNext ==
  LET s == Head(queue["daily"]) IN
  /\ queue["daily"] # <<>> /\ at["daily"].pc = "off"
  /\ queue' = [queue EXCEPT !["daily"] = Tail(@)]
  /\ at' = IF s \in live
           THEN [at EXCEPT !["daily"] = Load(s, row[s].id, FALSE, row[s].data)] ELSE at
  /\ UNCHANGED <<tmdb, live, row, faults, requests>>

Request == requests < MaxRequests /\ requests' = requests + 1

\* The shows without genres, in any order, with all of their rows read at once.
StartBackfill ==
  /\ Request /\ queue["backfill"] = <<>> /\ at["backfill"].pc = "off"
  /\ \E cards \in SetToSeqs({s \in live : ~row[s].data.genres}) :
       queue' = [queue EXCEPT !["backfill"] = [k \in DOMAIN cards |-> <<cards[k], row[cards[k]]>>]]
  /\ UNCHANGED <<tmdb, live, row, at, faults>>

BackfillNext ==
  LET next == Head(queue["backfill"]) IN
  /\ queue["backfill"] # <<>> /\ at["backfill"].pc = "off"
  /\ queue' = [queue EXCEPT !["backfill"] = Tail(@)]
  /\ at' = [at EXCEPT !["backfill"] = Load(next[1], next[2].id, FALSE, next[2].data)]
  /\ UNCHANGED <<tmdb, live, row, faults, requests>>

RefreshShow(s) ==
  /\ s \in live /\ at["user"].pc = "off" /\ Request
  /\ at' = [at EXCEPT !["user"] = Load(s, row[s].id, FALSE, row[s].data)]
  /\ UNCHANGED <<tmdb, live, row, queue, faults>>

\* Not to an entry that another show has.
Taken(s, e) == \E t \in live \ {s} : row[t].id = e
Rematch(s, e) ==
  /\ s \in live /\ ~Taken(s, e) /\ at["user"].pc = "off" /\ Request
  /\ at' = [at EXCEPT !["user"] = Load(s, e, TRUE, row[s].data)]
  /\ UNCHANGED <<tmdb, live, row, queue, faults>>

Drop(w) == at' = [at EXCEPT ![w] = Off]

\* A refresh asks TMDB itself; the others may get an older answer from the cache.
Answers(w) ==
  LET new == Fetched(at[w].to) IN
  IF w = "daily" \/ (w = "user" /\ ~at[w].rematch) THEN {new}
  ELSE {new, [new EXCEPT !.status = "airing"]}

Fetch(w) ==
  /\ at[w].pc = "fetch" /\ at[w].to \notin Gone
  /\ \/ /\ \E a \in Answers(w) : at' = [at EXCEPT ![w].pc = "write", ![w].data = a]
        /\ UNCHANGED faults
     \/ Fail /\ Drop(w)
  /\ UNCHANGED <<tmdb, live, row, queue, requests>>

\* Mutant: a show that TMDB no longer has is left as it is.
GoneIsLeft(s) == row
StampGone(s) == IF s \in live THEN [row EXCEPT ![s].refreshed = 0] ELSE row

\* 404: the daily run stamps the show, so that it is not asked for in every run.
NotFound(w) ==
  /\ at[w].pc = "fetch" /\ at[w].to \in Gone
  /\ row' = IF w = "daily" THEN StampGone(at[w].show) ELSE row
  /\ Drop(w)
  /\ UNCHANGED <<tmdb, live, queue, faults, requests>>

\* Only what differs from the loaded row is written; the rest stays as it is now.
Merged(w) ==
  LET s == at[w].show IN
  [c \in Columns |-> IF at[w].data[c] # at[w].loaded[c] THEN at[w].data[c] ELSE row[s].data[c]]

\* A row that was deleted cannot be written, and no entry be given to two shows.
Refused(w) == at[w].show \notin live \/ (at[w].rematch /\ Taken(at[w].show, at[w].to))

Write(w) ==
  LET s == at[w].show IN
  /\ at[w].pc = "write" /\ ~Refused(w)
  /\ row' = [row EXCEPT ![s] = Row(IF at[w].rematch THEN at[w].to ELSE @.id, Merged(w), 0)]
  /\ finished' = [finished EXCEPT ![s] = IF @ = "today" THEN @ ELSE "no"]
  /\ Drop(w)
  /\ UNCHANGED <<tmdbStatus, changes, live, queue, faults, requests>>

WriteFails(w) ==
  /\ at[w].pc = "write"
  /\ IF Refused(w) THEN UNCHANGED faults ELSE Fail
  /\ Drop(w)
  /\ UNCHANGED <<tmdb, live, row, queue, requests>>
-----------------------------------------------------------------------------
(* TMDB, and the user. *)

Ends(e) ==
  /\ tmdbStatus[e] = "airing" /\ changes < MaxChanges
  /\ tmdbStatus' = [tmdbStatus EXCEPT ![e] = "ended"] /\ changes' = changes + 1
  /\ UNCHANGED <<finished, live, row, queue, at, faults, requests>>

SeasonEnds(s) ==
  /\ finished[s] = "no" /\ changes < MaxChanges
  /\ finished' = [finished EXCEPT ![s] = "today"] /\ changes' = changes + 1
  /\ UNCHANGED <<tmdbStatus, live, row, queue, at, faults, requests>>

Delete(s) ==
  /\ s \in live /\ Request
  /\ live' = live \ {s}
  /\ UNCHANGED <<tmdb, row, queue, at, faults>>

Work(w) == Fetch(w) \/ NotFound(w) \/ Write(w) \/ WriteFails(w)
Daily == StartDaily \/ LoadNext \/ Work("daily")
Backfill == BackfillNext \/ Work("backfill")

RefreshNext ==
  \/ Daily \/ Backfill \/ Work("user") \/ StartBackfill
  \/ \E s \in Shows : RefreshShow(s) \/ SeasonEnds(s) \/ Delete(s) \/ \E e \in Entries : Rematch(s, e)
  \/ \E e \in Entries : Ends(e)

RefreshSpec == RefreshInit /\ [][RefreshNext]_refreshVars

\* The run is scheduled every day, and every writer goes on.
FairRefreshSpec == RefreshSpec /\ WF_refreshVars(Daily) /\ WF_refreshVars(Backfill) /\ WF_refreshVars(Work("user"))
-----------------------------------------------------------------------------
\* Rows, queues and writers are well formed, and no two shows have one entry.
RefreshTypeOK ==
  /\ tmdbStatus \in [Entries -> Statuses] /\ finished \in [Shows -> {"no", "today", "before"}]
  /\ live \subseteq Shows
  /\ \A s \in Shows : /\ row[s].id \in Entries /\ row[s].refreshed \in 0..Never
                      /\ row[s].data.status \in Statuses
                      /\ s \in live => ~Taken(s, row[s].id)
  /\ Len(queue["daily"]) <= Limit
  /\ \A w \in Writers : at[w].pc \in {"off", "fetch", "write"}
  /\ faults \in 0..MaxFaults /\ changes \in 0..MaxChanges /\ requests \in 0..MaxRequests

\* No show that is due waits for ever, whatever comes before it in every run.
DueIsChecked == \A s \in Shows : Due(s) ~> ~Due(s)

\* A row that does not show the status that TMDB has, even for the reason that two
\* writers have mixed the columns of two entries, comes to show it.
Wrong(s) ==
  /\ s \in live \ Old /\ row[s].id \notin Gone
  /\ row[s].data.status # tmdbStatus[row[s].id]
MetadataHeals == \A s \in Shows : Wrong(s) ~> ~Wrong(s)

\* A row never shows a status that its entry never had.
MetadataOfItsEntry ==
  \A s \in live : row[s].data.status = "ended" => tmdbStatus[row[s].id] = "ended"
=============================================================================
