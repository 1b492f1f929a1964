------------------------------ MODULE Tracking ------------------------------
(***************************************************************************)
(* Which file an episode of a show is tracked by, which episode a file is  *)
(* linked to, and what a rematch of the show leaves for the user to mend.  *)
(*                                                                         *)
(* Both sides of a link are columns: an episode names the file it is       *)
(* tracked by, a file points at its episode.  Parsing, routing, imports,   *)
(* user requests and rematches each set some of them.  An operator's       *)
(* relink looks whether the old episode is still referenced and clears it  *)
(* at its commit; a rematch reads the tracking before it deletes the       *)
(* episodes.  Everything else is one step, because it commits what it has  *)
(* read under the locks of the rows it writes.                             *)
(***************************************************************************)
EXTENDS Naturals, FiniteSets

CONSTANTS
  Files,       \* downloaded files
  Paths,       \* files that are in the library already and are imported
  Keys,        \* (season, episode) numbers
  Users,       \* relinking requests at work at once
  None,
  MaxRequests, \* bound: user requests
  MaxRematches \* bound: rematches and changes of the episode grouping

ASSUME TrackingConstants ==
  /\ Files \cap Paths = {} /\ None \notin Files \cup Paths \cup Keys
  /\ MaxRequests \in Nat /\ MaxRematches \in Nat

VARIABLES
  catalogue,  \* the episodes of the show, by their numbers
  track,      \* the tracking columns of an episode
  row,        \* the columns of a file
  orphans,    \* orphaned tracking records
  relink,     \* a user's request between its count and its commit
  snapshot,   \* what a rematch has read, before it purges
  requests, rematches,
  loose,      \* history: files whose episode lost, or never got, its tracking
  filled      \* history: files that were linked with their orphan record kept

requestVars == <<relink, requests>>
rematchVars == <<catalogue, snapshot, rematches>>
vars == <<catalogue, track, row, orphans, relink, snapshot, requests, rematches,
          loose, filled>>

Names == Files \cup Paths
Untracked == [name |-> None, by |-> None]
Tracks == {Untracked} \cup [name : Names, by : {"match", "import"}]
NoRow == [here |-> FALSE, ep |-> None, parsed |-> None, st |-> "none"]
Row == [here : BOOLEAN, ep : Keys \cup {None}, parsed : Keys \cup {None},
        st : {"none", "waiting", "matched", "routed"}]
Orphan == [name : Names, by : {"match", "import"}, key : Keys,
           file : Names \cup {None}]
NoRelink == [file |-> None, new |-> NoRow, mark |-> None, clear |-> None, seen |-> {}]
NoSnapshot == [kind |-> "none", seen |-> [k \in {} |-> Untracked]]

Init ==
  /\ catalogue = Keys
  /\ track = [k \in Keys |-> Untracked]
  /\ row = [x \in Names |-> IF x \in Files THEN [NoRow EXCEPT !.st = "waiting"]
                            ELSE NoRow]
  /\ orphans = {}
  /\ relink = [u \in Users |-> NoRelink]
  /\ snapshot = NoSnapshot
  /\ requests = 0 /\ rematches = 0
  /\ loose = {} /\ filled = {}
-----------------------------------------------------------------------------
IsTracked(k) == track[k] # Untracked
LinkedTo(k) == {x \in Names : row[x].ep = k}

\* Mutant: the records stay.
WaivedNever(f) == orphans

\* dismiss_orphans_for_file
Waived(f) == {o \in orphans : o.file # f}

\* The files whose records wait for a link.
Awaited == {o.file : o \in orphans} \ {None}

\* The rows that a request has flushed and not committed.
FileLocked(x) == \E u \in Users : relink[u].file = x
EpisodeLocked(k) == \E u \in Users : relink[u].mark = k

MarkTracked(k, x, by) == track' = [track EXCEPT ![k] = [name |-> x, by |-> by]]

\* create_synthetic_import_file: a row that is there already is left alone.
SyntheticRow(p, k) ==
  IF row[p] = NoRow THEN [here |-> TRUE, ep |-> k, parsed |-> k, st |-> "routed"]
  ELSE row[p]
-----------------------------------------------------------------------------
(***************************************************************************)
(* The pipeline.                                                           *)
(***************************************************************************)
\* Parse finds the episode, or it finds the show without the episode.
ParseHit(f, k) ==
  /\ row[f].st = "waiting" /\ ~FileLocked(f) /\ k \in catalogue
  /\ row' = [row EXCEPT ![f] = [here |-> TRUE, ep |-> k, parsed |-> k, st |-> "matched"]]
  /\ orphans' = Waived(f)
  /\ UNCHANGED <<track, requestVars, rematchVars, loose, filled>>

ParseMiss(f, k) ==
  /\ row[f].st = "waiting" /\ ~FileLocked(f) /\ k \notin catalogue
  /\ row' = [row EXCEPT ![f] = [here |-> TRUE, ep |-> None, parsed |-> k, st |-> "waiting"]]
  /\ UNCHANGED <<track, orphans, requestVars, rematchVars, loose, filled>>

\* Phase 4.5 of sync: the orphan records of the file stay.
FillGap(f) ==
  /\ row[f].st = "matched" /\ row[f].here /\ ~FileLocked(f)
  /\ row[f].ep = None /\ row[f].parsed \in catalogue
  /\ row' = [row EXCEPT ![f].ep = row[f].parsed]
  /\ filled' = filled \cup ({f} \cap Awaited)
  /\ UNCHANGED <<track, orphans, requestVars, rematchVars, loose>>

\* A routed file's episode is tracked, and looked for if it is not known yet.
Route(f) ==
  LET known == row[f].ep # None
      found == ~known /\ row[f].parsed \in catalogue
      k == IF known THEN row[f].ep ELSE row[f].parsed IN
  /\ row[f].st = "matched" /\ row[f].here /\ ~FileLocked(f)
  /\ IF known \/ found
     THEN /\ ~EpisodeLocked(k)
          /\ row' = [row EXCEPT ![f].st = "routed", ![f].ep = k]
          /\ MarkTracked(k, f, "match")
     ELSE row' = [row EXCEPT ![f].st = "routed"] /\ UNCHANGED track
  /\ orphans' = IF found THEN Waived(f) ELSE orphans
  /\ UNCHANGED <<requestVars, rematchVars, loose, filled>>

\* Path import tracks an episode that is not tracked yet.
PathImport(p, k) ==
  /\ k \in catalogue /\ ~IsTracked(k) /\ ~EpisodeLocked(k) /\ ~FileLocked(p)
  /\ MarkTracked(k, p, "import")
  /\ row' = [row EXCEPT ![p] = SyntheticRow(p, k)]
  /\ UNCHANGED <<orphans, requestVars, rematchVars, loose, filled>>
-----------------------------------------------------------------------------
(***************************************************************************)
(* Relinks: the count of clear_if_unreferenced, and the commit.            *)
(***************************************************************************)
\* Mutant: nobody counts the references.
ClearedUncounted(f, new) ==
  LET old == row[f].ep IN
  IF old # None /\ old # new.ep /\ IsTracked(old) THEN old ELSE None

\* The episode that is left behind is to be cleared if no other file refers to it.
Cleared(f, new) ==
  LET old == row[f].ep IN
  IF old # None /\ old # new.ep /\ LinkedTo(old) = {f} /\ IsTracked(old)
  THEN old ELSE None

Begin(u, f, new, mark) ==
  /\ relink[u] = NoRelink /\ requests < MaxRequests
  /\ row[f] # NoRow /\ ~FileLocked(f)
  /\ mark # None => ~EpisodeLocked(mark)
  /\ relink' = [relink EXCEPT ![u] = [file |-> f, new |-> new, mark |-> mark,
                                      clear |-> Cleared(f, new),
                                      seen |-> LinkedTo(row[f].ep)]]
  /\ requests' = requests + 1
  /\ UNCHANGED <<track, row, orphans, rematchVars, loose, filled>>

\* relink_episode, with or without reassign_show before it.
PatchEpisode(u, f, k) ==
  /\ k \in catalogue /\ (IsTracked(k) => row[f].ep = k)
  /\ Begin(u, f, [row[f] EXCEPT !.here = TRUE, !.ep = k, !.parsed = k], k)

PatchNoEpisode(u, f) ==
  /\ row[f].here
  /\ Begin(u, f, [row[f] EXCEPT !.ep = None, !.parsed = None], None)

\* reassign_show to another show.
PatchShow(u, f) ==
  /\ row[f].here
  /\ Begin(u, f, [row[f] EXCEPT !.here = FALSE, !.ep = None], None)

\* _assign of the manual match.
Match(u, f, k) ==
  LET parsed == IF row[f].parsed = None THEN k ELSE row[f].parsed
      ep == IF parsed \in catalogue THEN parsed ELSE None IN
  /\ f \in Files
  /\ Begin(u, f, [here |-> TRUE, ep |-> ep, parsed |-> parsed, st |-> "matched"], ep)

\* The orphan records of a file go when it gets an episode or another show.
CommitRelink(u) ==
  LET f == relink[u].file
      new == relink[u].new
      mark == relink[u].mark
      clear == relink[u].clear IN
  /\ relink[u] # NoRelink
  /\ row' = [row EXCEPT ![f] = new]
  /\ track' = [k \in Keys |-> CASE k = mark -> [name |-> f, by |-> "match"]
                                [] k = clear -> Untracked
                                [] OTHER -> track[k]]
  /\ orphans' = IF mark # None \/ new.here # row[f].here THEN Waived(f) ELSE orphans
  /\ loose' = loose \cup (IF clear = None THEN {} ELSE LinkedTo(clear) \ relink[u].seen)
  /\ relink' = [relink EXCEPT ![u] = NoRelink]
  /\ UNCHANGED <<requests, rematchVars, filled>>

RollBack(u) ==
  /\ relink[u] # NoRelink
  /\ relink' = [relink EXCEPT ![u] = NoRelink]
  /\ UNCHANGED <<track, row, orphans, requests, rematchVars, loose, filled>>
-----------------------------------------------------------------------------
(***************************************************************************)
(* Requests of one step.                                                   *)
(***************************************************************************)
Request ==
  /\ requests < MaxRequests
  /\ requests' = requests + 1
  /\ UNCHANGED <<relink, rematchVars>>

\* _reset of the manual match: the tracking stays.
Reset(f) ==
  /\ Request /\ row[f].st \in {"matched", "routed"} /\ ~FileLocked(f)
  /\ row' = [row EXCEPT ![f] = [@ EXCEPT !.here = FALSE, !.ep = None, !.st = "waiting"]]
  /\ UNCHANGED <<track, orphans, loose, filled>>

\* _detach_episode_tracking: imported rows are deleted, the others wait again.
Detached(k) ==
  [x \in Names |-> CASE x \notin LinkedTo(k) -> row[x]
                     [] x \in LinkedTo(k) \cap Paths -> NoRow
                     [] OTHER -> [row[x] EXCEPT !.ep = None, !.st = "waiting"]]

\* ON DELETE SET NULL of a record's file.
Unhooked(k) ==
  {[o EXCEPT !.file = IF @ \in LinkedTo(k) \cap Paths THEN None ELSE @] : o \in orphans}

ClearTracking(k) ==
  /\ Request /\ k \in catalogue /\ IsTracked(k)
  /\ ~EpisodeLocked(k) /\ \A x \in LinkedTo(k) : ~FileLocked(x)
  /\ row' = Detached(k)
  /\ track' = [track EXCEPT ![k] = Untracked]
  /\ orphans' = Unhooked(k)
  /\ UNCHANGED <<loose, filled>>

\* link-file, with replace when the episode is tracked.
LinkFile(p, k) ==
  LET detach == IsTracked(k)
      rows == IF detach THEN Detached(k) ELSE row IN
  /\ Request /\ k \in catalogue /\ ~EpisodeLocked(k)
  /\ ~FileLocked(p) /\ \A x \in LinkedTo(k) : ~FileLocked(x)
  /\ MarkTracked(k, p, "import")
  /\ row' = [rows EXCEPT ![p] = IF @ = NoRow
               THEN [here |-> TRUE, ep |-> k, parsed |-> k, st |-> "routed"] ELSE @]
  /\ orphans' = IF detach THEN Unhooked(k) ELSE orphans
  /\ UNCHANGED <<loose, filled>>

\* _resync_synthetic_file_episode: the row of the path follows its filename.
Resynced(rows, x, to) ==
  IF rows[x] = NoRow THEN rows
  ELSE [rows EXCEPT ![x] = [@ EXCEPT !.ep = to, !.parsed = to]]

\* assign-import: the filename moves to episode k, and k's filename to its holder.
AssignImport(p, k) ==
  LET holders == {h \in catalogue : track[h] = [name |-> p, by |-> "import"]} IN
  /\ Request /\ k \in catalogue /\ Cardinality(holders) = 1
  /\ track[k].by # "match" /\ ~EpisodeLocked(k)
  /\ \E h \in holders :
       LET displaced == track[k].name
           swap == h # k /\ displaced \notin {None, p} IN
       /\ ~EpisodeLocked(h) /\ ~FileLocked(p) /\ (swap => ~FileLocked(displaced))
       /\ track' = [track EXCEPT
            ![h] = IF swap THEN [name |-> displaced, by |-> "import"] ELSE Untracked,
            ![k] = [name |-> p, by |-> "import"]]
       /\ row' = Resynced(IF swap THEN Resynced(row, displaced, h) ELSE row, p, k)
       /\ filled' = filled \cup (Awaited \cap ({p} \cup IF swap THEN {displaced} ELSE {}))
       /\ loose' = loose \cup (IF swap \/ h = k THEN {} ELSE LinkedTo(h) \ {p})
  /\ UNCHANGED orphans

DismissOrphan(o) ==
  /\ Request /\ o \in orphans
  /\ orphans' = orphans \ {o}
  /\ UNCHANGED <<track, row, loose, filled>>

ResolveOrphan(o, k) ==
  /\ Request /\ o \in orphans /\ k \in catalogue /\ ~IsTracked(k) /\ ~EpisodeLocked(k)
  /\ IF o.file = None
     THEN MarkTracked(k, o.name, o.by) /\ UNCHANGED row
     ELSE /\ row[o.file].here /\ ~FileLocked(o.file)
          /\ row' = [row EXCEPT ![o.file].ep = k]
          /\ MarkTracked(k, o.file, "match")
  /\ orphans' = orphans \ {o}
  /\ UNCHANGED <<loose, filled>>
-----------------------------------------------------------------------------
(***************************************************************************)
(* The show's episodes are replaced.  The purge waits for the requests     *)
(* that hold rows, and requests that follow wait for its commit.           *)
(***************************************************************************)
TakeSnapshot(kind) ==
  /\ snapshot = NoSnapshot /\ rematches < MaxRematches
  /\ snapshot' = [kind |-> kind,
                  seen |-> [k \in {k \in catalogue : IsTracked(k) /\ kind # "forget"}
                              |-> track[k]]]
  /\ rematches' = rematches + 1
  /\ UNCHANGED <<catalogue, track, row, orphans, requestVars, loose, filled>>

Quiet == \A u \in Users : relink[u] = NoRelink

\* Mutant: the link survives its episode.
Kept(x) == row[x]

\* ON DELETE SET NULL of a file's episode.
Purged(x) == [row[x] EXCEPT !.ep = None]

\* Mutant: the numbers that are gone are recorded only for the linked files.
RecordsOfFilesOnly(keep, lost, seen) ==
  {[name |-> x, by |-> "match", key |-> row[x].parsed, file |-> x] : x \in lost}

\* A record for every file that finds no episode, and for every number that is gone
\* and has none yet.
Records(keep, lost, seen) ==
  {[name |-> x, by |-> "match", key |-> row[x].parsed, file |-> x] : x \in lost}
  \cup {[name |-> seen[k].name, by |-> seen[k].by, key |-> k, file |-> None] :
          k \in (DOMAIN seen \ keep) \ {row[x].parsed : x \in lost}}

\* _restore_tracking_and_relink, for the episodes keep of the new entry.
Rematch(keep) ==
  LET seen == snapshot.seen
      unlinked == {x \in Names : row[x].here /\ row[x].parsed # None}
      back == {x \in unlinked : row[x].parsed \in keep}
      lost == unlinked \ back IN
  /\ snapshot.kind = "rematch" /\ Quiet
  /\ catalogue' = keep
  /\ track' = [k \in Keys |-> IF k \in keep \cap DOMAIN seen THEN seen[k] ELSE Untracked]
  /\ row' = [x \in Names |-> IF x \in back THEN [row[x] EXCEPT !.ep = row[x].parsed]
                               ELSE Purged(x)]
  /\ orphans' = Records(keep, lost, seen)
  /\ loose' = loose \cup {x \in back : row[x].parsed \notin DOMAIN seen}
  /\ snapshot' = NoSnapshot
  /\ UNCHANGED <<requestVars, rematches, filled>>

\* preserve_tracking is off.
RematchForgetting(keep) ==
  /\ snapshot.kind = "forget" /\ Quiet
  /\ catalogue' = keep
  /\ track' = [k \in Keys |-> Untracked]
  /\ row' = [x \in Names |-> Purged(x)]
  /\ orphans' = {}
  /\ snapshot' = NoSnapshot
  /\ UNCHANGED <<requestVars, rematches, loose, filled>>

\* Every tracked episode becomes a record, with one of the files that back it.
GroupRecords(seen, file) ==
  {[name |-> seen[k].name, by |-> seen[k].by, key |-> k, file |-> file[k]] : k \in DOMAIN seen}

\* apply_episode_group: a new catalogue, and no link survives.
ApplyGroup(new) ==
  /\ snapshot.kind = "group" /\ Quiet
  /\ catalogue' = new
  /\ track' = [k \in Keys |-> Untracked]
  /\ row' = [x \in Names |-> Purged(x)]
  /\ \E file \in [DOMAIN snapshot.seen -> Names \cup {None}] :
       /\ \A k \in DOMAIN snapshot.seen : IF LinkedTo(k) = {} THEN file[k] = None
                                         ELSE file[k] \in LinkedTo(k)
       /\ orphans' = orphans \cup GroupRecords(snapshot.seen, file)
  /\ snapshot' = NoSnapshot
  /\ UNCHANGED <<requestVars, rematches, loose, filled>>

\* A refresh of the metadata brings an episode in.
Announce(k) ==
  /\ k \notin catalogue /\ snapshot = NoSnapshot
  /\ catalogue' = catalogue \cup {k}
  /\ UNCHANGED <<track, row, orphans, requestVars, snapshot, rematches, loose, filled>>
-----------------------------------------------------------------------------
Pipeline ==
  \/ \E f \in Files : FillGap(f) \/ Route(f)
                      \/ \E k \in Keys : ParseHit(f, k) \/ ParseMiss(f, k)
  \/ \E p \in Paths, k \in Keys : PathImport(p, k)
  \/ \E k \in Keys : Announce(k)

Relinks ==
  \E u \in Users :
    \/ CommitRelink(u) \/ RollBack(u)
    \/ \E x \in Names :
         \/ PatchNoEpisode(u, x) \/ PatchShow(u, x)
         \/ \E k \in Keys : PatchEpisode(u, x, k) \/ Match(u, x, k)

Requests ==
  \/ \E f \in Files : Reset(f)
  \/ \E k \in Keys : ClearTracking(k) \/ \E p \in Paths : LinkFile(p, k) \/ AssignImport(p, k)
  \/ \E o \in orphans : DismissOrphan(o) \/ \E k \in Keys : ResolveOrphan(o, k)

Replacements ==
  \/ \E kind \in {"rematch", "forget", "group"} : TakeSnapshot(kind)
  \/ \E keep \in SUBSET Keys : Rematch(keep) \/ RematchForgetting(keep) \/ ApplyGroup(keep)

Next == Pipeline \/ Relinks \/ Requests \/ Replacements

Spec == Init /\ [][Next]_vars
-----------------------------------------------------------------------------
(***************************************************************************)
(* Properties.                                                             *)
(***************************************************************************)
\* What the tables hold; an episode that is gone is neither tracked nor linked.
TypeOK ==
  /\ catalogue \subseteq Keys
  /\ track \in [Keys -> Tracks] /\ row \in [Names -> Row]
  /\ orphans \subseteq Orphan
  /\ \A k \in Keys \ catalogue : track[k] = Untracked /\ LinkedTo(k) = {}

\* A rematch, or a change of the grouping, loses no tracking that it has seen: the
\* number is tracked by the same file again, or a record of it is left to the user.
ReplacementKeepsTracking ==
  [][snapshot.kind \in {"rematch", "group"} /\ snapshot' = NoSnapshot
     => \A k \in DOMAIN snapshot.seen :
          track'[k] = snapshot.seen[k] \/ \E o \in orphans' : o.key = k]_vars

\* A file that is linked is not in the list of orphans: a record that refers to a
\* file waits for its link (file_relink.py:92).
OrphanIsUnlinked ==
  \A o \in orphans : o.file # None => row[o.file].ep = None

\* The gap fill of sync and assign-import are the only links that keep the record.
OrphanIsUnlinkedUnlessFilled ==
  \A o \in orphans : o.file # None /\ o.file \notin filled => row[o.file].ep = None

\* The episode of a file in the library is tracked, unless a clear raced with the
\* link of the file, assign-import (which counts no references) took the tracking
\* away, or a rematch linked the file to an episode that nobody tracked.
RoutedIsTrackedUnlessLoose ==
  \A x \in Names \ loose :
    row[x].st = "routed" /\ row[x].ep # None => IsTracked(row[x].ep)
=============================================================================
