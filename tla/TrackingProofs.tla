--------------------------- MODULE TrackingProofs ---------------------------
(***************************************************************************)
(* Proofs about Tracking, for any number of files, episodes, requests and  *)
(* rematches: what the tables hold, which orphan records wait for a link,  *)
(* which routed files have a tracked episode, and what a rematch leaves of *)
(* the tracking that it has seen.                                          *)
(***************************************************************************)
EXTENDS Tracking, TLAPS

-----------------------------------------------------------------------------
(* The invariant. *)

RelinkRecord == [file : Names \cup {None}, new : Row, mark : Keys \cup {None},
                 clear : Keys \cup {None}, seen : SUBSET Names]

\* The tables, the requests and the snapshot.
Tables ==
  /\ catalogue \subseteq Keys /\ orphans \subseteq Orphan
  /\ track \in [Keys -> Tracks] /\ row \in [Names -> Row]
  /\ relink \in [Users -> RelinkRecord]

\* An episode that is gone is neither tracked nor linked.
GoneIsFree ==
  \A k \in Keys \ catalogue : track[k] = Untracked /\ \A x \in Names : row[x].ep # k

\* A row that is there has a status.
RowsAreMarked == \A x \in Names : row[x] = NoRow \/ row[x].st # "none"

\* An orphan record refers to a row that is there.
OrphansHaveRows == \A o \in orphans : o.file # None => row[o.file] # NoRow

\* A file has one record at most, as long as its gap was not filled.
OneRecordPerFile ==
  \A o1, o2 \in orphans :
    o1.file = o2.file /\ o1.file # None /\ o1.file \notin filled => o1 = o2

\* A request tracks the episode that it links, which is there, and has counted
\* nobody but its own file for the episode that it clears.
RelinkIsFair(u) ==
  relink[u] # NoRelink =>
    /\ relink[u].file \in Names /\ relink[u].new.st # "none"
    /\ relink[u].new.ep = relink[u].mark
    /\ relink[u].mark # None => relink[u].mark \in catalogue
    /\ relink[u].clear # None =>
         relink[u].clear # relink[u].mark /\ relink[u].seen = {relink[u].file}

\* What a rematch has read was tracked.
SnapshotIsTracked ==
  \/ snapshot = NoSnapshot
  \/ /\ snapshot.kind \in {"rematch", "forget", "group"}
     /\ DOMAIN snapshot.seen \subseteq Keys
     /\ \A k \in DOMAIN snapshot.seen : snapshot.seen[k] \in Tracks \ {Untracked}

TrackingInv ==
  /\ Tables /\ GoneIsFree /\ RowsAreMarked /\ OrphansHaveRows /\ OneRecordPerFile
  /\ \A u \in Users : RelinkIsFair(u)
  /\ SnapshotIsTracked
  /\ OrphanIsUnlinkedUnlessFilled
  /\ RoutedIsTrackedUnlessLoose

LEMMA NoRowIsRow == NoRow \in Row /\ Untracked \in Tracks /\ NoRelink \in RelinkRecord
  BY DEF NoRow, Row, Untracked, Tracks, NoRelink, RelinkRecord

LEMMA TrackingInitial == Init => TrackingInv
<1> SUFFICES ASSUME Init PROVE TrackingInv
  OBVIOUS
<1>1. Tables
  BY NoRowIsRow DEF Init, Tables, Row, NoRow
<1>2. \A x \in Names : row[x].ep = None /\ (row[x] = NoRow \/ row[x].st # "none")
  BY DEF Init, NoRow
<1>3. /\ GoneIsFree /\ RowsAreMarked /\ OrphansHaveRows /\ OneRecordPerFile
      /\ SnapshotIsTracked
  BY <1>2, TrackingConstants
     DEF Init, GoneIsFree, RowsAreMarked, OrphansHaveRows, OneRecordPerFile,
         SnapshotIsTracked
<1>4. \A u \in Users : RelinkIsFair(u)
  BY DEF Init, RelinkIsFair
<1>5. OrphanIsUnlinkedUnlessFilled /\ RoutedIsTrackedUnlessLoose
  BY <1>2 DEF Init, OrphanIsUnlinkedUnlessFilled, RoutedIsTrackedUnlessLoose
<1> QED
  BY <1>1, <1>3, <1>4, <1>5 DEF TrackingInv

\* A step that leaves the requests and the episodes of the show alone.
LEMMA RelinksStay ==
  ASSUME TrackingInv, relink' = relink, catalogue \subseteq catalogue'
  PROVE  \A u \in Users : RelinkIsFair(u)'
  BY DEF TrackingInv, RelinkIsFair

LEMMA SnapshotStays ==
  ASSUME TrackingInv, snapshot' = snapshot
  PROVE  SnapshotIsTracked'
  BY DEF TrackingInv, SnapshotIsTracked

-----------------------------------------------------------------------------
(* Steps that write one row. *)

\* What such a step has to see to: the new row is marked and linked to an episode
\* that is there, its records are waived or it was filled, and nobody's episode
\* loses its tracking.
LEMMA RowStep ==
  ASSUME TrackingInv, NEW f \in Names, NEW new \in Row, row' = [row EXCEPT ![f] = new],
         catalogue' = catalogue, orphans' \subseteq orphans,
         new.st # "none", new.ep # None => new.ep \in catalogue,
         track' \in [Keys -> Tracks], \A k \in Keys \ catalogue : track'[k] = Untracked,
         filled \subseteq filled', loose \subseteq loose',
         \/ new.ep = None \/ new.ep = row[f].ep
         \/ f \in filled' \/ \A o \in orphans' : o.file # f,
         new.st = "routed" /\ new.ep # None /\ f \notin loose' => track'[new.ep] # Untracked,
         \A x \in Names \ (loose' \cup {f}) :
           row[x].st = "routed" /\ row[x].ep # None => track'[row[x].ep] # Untracked,
         relink' \in [Users -> RelinkRecord], \A u \in Users : RelinkIsFair(u)',
         SnapshotIsTracked'
  PROVE  TrackingInv'
<1>1. row'[f] = new /\ \A x \in Names \ {f} : row'[x] = row[x]
  BY DEF TrackingInv, Tables
<1>2. Tables'
  BY DEF TrackingInv, Tables
<1>3. GoneIsFree'
  <2>1. ASSUME NEW k \in Keys \ catalogue, NEW x \in Names PROVE row'[x].ep # k
    <3>1. k # None
      BY TrackingConstants
    <3> QED
      BY <1>1, <3>1 DEF TrackingInv, GoneIsFree
  <2> QED
    BY <2>1 DEF GoneIsFree
<1>4. RowsAreMarked'
  BY <1>1 DEF TrackingInv, RowsAreMarked
<1>5. OrphansHaveRows' /\ OneRecordPerFile'
  <2>1. new # NoRow
    BY DEF NoRow
  <2>2. OrphansHaveRows'
    BY <1>1, <2>1 DEF TrackingInv, Tables, OrphansHaveRows, Orphan
  <2>3. OneRecordPerFile'
    BY DEF TrackingInv, OneRecordPerFile
  <2> QED
    BY <2>2, <2>3
<1>6. OrphanIsUnlinkedUnlessFilled'
  <2>1. ASSUME NEW o \in orphans', o.file # None, o.file \notin filled'
        PROVE  row'[o.file].ep = None
    <3>1. o.file \in Names /\ row[o.file].ep = None
      BY <2>1 DEF TrackingInv, Tables, Orphan, OrphanIsUnlinkedUnlessFilled
    <3> QED
      BY <1>1, <2>1, <3>1
  <2> QED
    BY <2>1 DEF OrphanIsUnlinkedUnlessFilled
<1>7. RoutedIsTrackedUnlessLoose'
  <2>1. ASSUME NEW x \in Names \ loose', row'[x].st = "routed", row'[x].ep # None
        PROVE  track'[row'[x].ep] # Untracked
    BY <1>1, <2>1
  <2> QED
    BY <2>1 DEF RoutedIsTrackedUnlessLoose, IsTracked
<1> QED
  BY <1>2, <1>3, <1>4, <1>5, <1>6, <1>7 DEF TrackingInv

\* The same for a step that touches neither requests nor snapshot, and loses no
\* tracking.
LEMMA PlainRowStep ==
  ASSUME TrackingInv, NEW f \in Names, NEW new \in Row, row' = [row EXCEPT ![f] = new],
         catalogue' = catalogue, relink' = relink, snapshot' = snapshot,
         orphans' \subseteq orphans, filled \subseteq filled', loose' = loose,
         new.st # "none", new.ep # None => new.ep \in catalogue,
         track' \in [Keys -> Tracks], \A k \in Keys \ catalogue : track'[k] = Untracked,
         \A k \in Keys : track[k] # Untracked => track'[k] # Untracked,
         \/ new.ep = None \/ new.ep = row[f].ep
         \/ f \in filled' \/ \A o \in orphans' : o.file # f,
         new.st = "routed" /\ new.ep # None /\ f \notin loose => track'[new.ep] # Untracked
  PROVE  TrackingInv'
<1>1. \A u \in Users : RelinkIsFair(u)'
  BY RelinksStay
<1>2. SnapshotIsTracked'
  BY SnapshotStays
<1>3. ASSUME NEW x \in Names \ loose, row[x].st = "routed", row[x].ep # None
      PROVE  track'[row[x].ep] # Untracked
  <2>1. row[x].ep \in Keys
    BY <1>3 DEF TrackingInv, Tables, Row
  <2> QED
    BY <1>3, <2>1 DEF TrackingInv, RoutedIsTrackedUnlessLoose, IsTracked
<1>4. relink' \in [Users -> RelinkRecord]
  BY DEF TrackingInv, Tables
<1> QED
  BY <1>1, <1>2, <1>3, <1>4, RowStep

\* A step that writes no row.
LEMMA TableStep ==
  ASSUME TrackingInv, row' = row, catalogue \subseteq catalogue', catalogue' \subseteq Keys,
         orphans' \subseteq orphans, filled' = filled, loose' = loose,
         track' \in [Keys -> Tracks], \A k \in Keys \ catalogue' : track'[k] = Untracked,
         \A k \in Keys : track[k] # Untracked => track'[k] # Untracked,
         relink' \in [Users -> RelinkRecord], \A u \in Users : RelinkIsFair(u)',
         SnapshotIsTracked'
  PROVE  TrackingInv'
<1>1. Tables' /\ RowsAreMarked' /\ OrphansHaveRows' /\ OneRecordPerFile' /\ GoneIsFree'
  BY DEF TrackingInv, Tables, RowsAreMarked, OrphansHaveRows, OneRecordPerFile, GoneIsFree
<1>2. OrphanIsUnlinkedUnlessFilled'
  BY DEF TrackingInv, OrphanIsUnlinkedUnlessFilled
<1>3. RoutedIsTrackedUnlessLoose'
  <2>1. ASSUME NEW x \in Names \ loose, row[x].st = "routed", row[x].ep # None
        PROVE  track'[row[x].ep] # Untracked
    <3>1. row[x].ep \in Keys
      BY <2>1 DEF TrackingInv, Tables, Row
    <3> QED
      BY <2>1, <3>1 DEF TrackingInv, RoutedIsTrackedUnlessLoose, IsTracked
  <2> QED
    BY <2>1 DEF RoutedIsTrackedUnlessLoose, IsTracked
<1> QED
  BY <1>1, <1>2, <1>3 DEF TrackingInv

\* The tracking of one episode.
LEMMA MarkedIsTracked ==
  ASSUME TrackingInv, NEW k \in Keys, NEW x \in Names, NEW by \in {"match", "import"},
         MarkTracked(k, x, by)
  PROVE  /\ track' \in [Keys -> Tracks] /\ track'[k] # Untracked
         /\ \A j \in Keys \ {k} : track'[j] = track[j]
<1>1. [name |-> x, by |-> by] \in Tracks
  BY DEF Tracks
<1>2. [name |-> x, by |-> by] # Untracked
  BY TrackingConstants DEF Untracked, Names
<1> QED
  BY <1>1, <1>2 DEF MarkTracked, TrackingInv, Tables

\* Nothing is tracked and nothing linked of an episode that is gone.
LEMMA LinkedIsThere ==
  ASSUME TrackingInv
  PROVE  /\ track \in [Keys -> Tracks] /\ row \in [Names -> Row] /\ catalogue \subseteq Keys
         /\ \A k \in Keys \ catalogue : track[k] = Untracked
         /\ \A x \in Names : row[x].ep # None => row[x].ep \in catalogue
  BY DEF TrackingInv, Tables, GoneIsFree, Row
-----------------------------------------------------------------------------
(* The pipeline. *)

LEMMA ParseHitStep ==
  ASSUME TrackingInv, NEW f \in Files, NEW k \in Keys, ParseHit(f, k)
  PROVE  TrackingInv'
<1> DEFINE new == [here |-> TRUE, ep |-> k, parsed |-> k, st |-> "matched"]
<1>1. /\ row' = [row EXCEPT ![f] = new] /\ orphans' = {o \in orphans : o.file # f}
      /\ track' = track /\ catalogue' = catalogue /\ relink' = relink
      /\ snapshot' = snapshot /\ loose' = loose /\ filled' = filled
      /\ k \in catalogue
  BY DEF ParseHit, Waived, requestVars, rematchVars
<1>2. f \in Names /\ new \in Row /\ new.st = "matched" /\ new.ep = k
  BY DEF Names, Row
<1> HIDE DEF new
<1> QED
  BY <1>1, <1>2, LinkedIsThere, PlainRowStep

LEMMA ParseMissStep ==
  ASSUME TrackingInv, NEW f \in Files, NEW k \in Keys, ParseMiss(f, k)
  PROVE  TrackingInv'
<1> DEFINE new == [here |-> TRUE, ep |-> None, parsed |-> k, st |-> "waiting"]
<1>1. /\ row' = [row EXCEPT ![f] = new] /\ orphans' = orphans
      /\ track' = track /\ catalogue' = catalogue /\ relink' = relink
      /\ snapshot' = snapshot /\ loose' = loose /\ filled' = filled
  BY DEF ParseMiss, requestVars, rematchVars
<1>2. f \in Names /\ new \in Row /\ new.st = "waiting" /\ new.ep = None
  BY DEF Names, Row
<1> HIDE DEF new
<1> QED
  BY <1>1, <1>2, LinkedIsThere, PlainRowStep

LEMMA FillGapStep == ASSUME TrackingInv, NEW f \in Files, FillGap(f) PROVE TrackingInv'
<1> DEFINE new == [row[f] EXCEPT !.ep = row[f].parsed]
<1>1. /\ row' = [row EXCEPT ![f] = new] /\ orphans' = orphans
      /\ track' = track /\ catalogue' = catalogue /\ relink' = relink
      /\ snapshot' = snapshot /\ loose' = loose /\ filled' = filled \cup ({f} \cap Awaited)
      /\ row[f].st = "matched" /\ row[f].parsed \in catalogue
  BY DEF FillGap, requestVars, rematchVars
<1>2. f \in Names /\ row[f] \in Row /\ row[f].parsed \in Keys /\ f # None
  BY <1>1, TrackingConstants DEF Names, TrackingInv, Tables
<1>3. new \in Row /\ new.st = "matched" /\ new.ep = row[f].parsed
  BY <1>1, <1>2 DEF Row
<1>4. f \in filled' \/ \A o \in orphans : o.file # f
  BY <1>1, <1>2 DEF Awaited
<1> HIDE DEF new
<1> QED
  BY <1>1, <1>2, <1>3, <1>4, LinkedIsThere, PlainRowStep

LEMMA RouteStep == ASSUME TrackingInv, NEW f \in Files, Route(f) PROVE TrackingInv'
<1> DEFINE known == row[f].ep # None
           found == ~known /\ row[f].parsed \in catalogue
           k == IF known THEN row[f].ep ELSE row[f].parsed
           new == [row[f] EXCEPT !.st = "routed", !.ep = IF known \/ found THEN k ELSE None]
<1>1. /\ catalogue' = catalogue /\ relink' = relink
      /\ snapshot' = snapshot /\ loose' = loose /\ filled' = filled
      /\ row[f].st = "matched"
      /\ orphans' = IF found THEN Waived(f) ELSE orphans
  BY DEF Route, requestVars, rematchVars
<1>2. f \in Names /\ row[f] \in Row
  BY DEF Names, TrackingInv, Tables
<1>3. known \/ found => k \in Keys /\ k \in catalogue /\ k # None
  BY <1>2, TrackingConstants, LinkedIsThere
<1>4. new \in Row /\ new.st = "routed" /\ new.ep = (IF known \/ found THEN k ELSE None)
  BY <1>2, <1>3 DEF Row
<1>5. row' = [row EXCEPT ![f] = new]
  <2>1. CASE known \/ found
    <3>1. row' = [row EXCEPT ![f].st = "routed", ![f].ep = k]
      BY <2>1 DEF Route
    <3>2. [row EXCEPT ![f].st = "routed", ![f].ep = k]
             = [row EXCEPT ![f] = [row[f] EXCEPT !.st = "routed", !.ep = k]]
      BY <1>2 DEF TrackingInv, Tables
    <3> QED
      BY <2>1, <3>1, <3>2
  <2>2. CASE ~(known \/ found)
    <3>1. row' = [row EXCEPT ![f].st = "routed"] /\ row[f].ep = None
      BY <2>2 DEF Route
    <3>2. [row[f] EXCEPT !.st = "routed"] = new
      BY <1>2, <2>2 DEF Row
    <3> QED
      BY <3>1, <3>2
  <2> QED
    BY <2>1, <2>2
<1>6. /\ track' \in [Keys -> Tracks]
      /\ known \/ found => track'[k] # Untracked
      /\ \A j \in Keys : track[j] # Untracked => track'[j] # Untracked
      /\ \A j \in Keys \ catalogue : track'[j] = Untracked
  <2>1. CASE known \/ found
    <3>1. MarkTracked(k, f, "match")
      BY <2>1 DEF Route
    <3> HIDE DEF k, known, found
    <3> QED
      BY <1>2, <1>3, <2>1, <3>1, MarkedIsTracked, LinkedIsThere
  <2>2. CASE ~(known \/ found)
    BY <2>2, LinkedIsThere DEF Route
  <2> QED
    BY <2>1, <2>2
<1>7. orphans' \subseteq orphans /\ (found => \A o \in orphans' : o.file # f)
  BY <1>1 DEF Waived
<1>8. new.ep = None \/ new.ep = row[f].ep \/ \A o \in orphans' : o.file # f
  BY <1>4, <1>7
<1>9. (new.ep # None => new.ep \in catalogue /\ track'[new.ep] # Untracked)
  BY <1>3, <1>4, <1>6
<1> HIDE DEF new, known, found, k
<1> QED
  BY <1>1, <1>2, <1>4, <1>5, <1>6, <1>7, <1>8, <1>9, PlainRowStep

LEMMA PathImportStep ==
  ASSUME TrackingInv, NEW p \in Paths, NEW k \in Keys, PathImport(p, k)
  PROVE  TrackingInv'
<1> DEFINE new == SyntheticRow(p, k)
<1>1. /\ row' = [row EXCEPT ![p] = new] /\ MarkTracked(k, p, "import") /\ k \in catalogue
      /\ orphans' = orphans /\ catalogue' = catalogue /\ relink' = relink
      /\ snapshot' = snapshot /\ loose' = loose /\ filled' = filled
  BY DEF PathImport, requestVars, rematchVars
<1>2. p \in Names
  BY DEF Names
<1>3. /\ track' \in [Keys -> Tracks] /\ track'[k] # Untracked
      /\ \A j \in Keys : track[j] # Untracked => track'[j] # Untracked
      /\ \A j \in Keys \ catalogue : track'[j] = Untracked
  BY <1>1, <1>2, MarkedIsTracked, LinkedIsThere
<1>4. CASE row[p] = NoRow
  <2>1. new = [here |-> TRUE, ep |-> k, parsed |-> k, st |-> "routed"]
    BY <1>4 DEF SyntheticRow
  <2>2. new \in Row /\ new.ep = k /\ new.st = "routed"
    BY <2>1 DEF Row
  <2>3. \A o \in orphans : o.file # p
    BY <1>2, <1>4, TrackingConstants DEF TrackingInv, OrphansHaveRows, Names
  <2> HIDE DEF new
  <2> QED
    BY <1>1, <1>2, <1>3, <2>2, <2>3, PlainRowStep
<1>5. CASE row[p] # NoRow
  <2>1. new = row[p] /\ new \in Row /\ new.st # "none" /\ (new.ep # None => new.ep \in catalogue)
    BY <1>2, <1>5, LinkedIsThere DEF SyntheticRow, TrackingInv, RowsAreMarked
  <2>2. new.st = "routed" /\ new.ep # None /\ p \notin loose => track'[new.ep] # Untracked
    BY <1>2, <1>3, <2>1, LinkedIsThere DEF TrackingInv, RoutedIsTrackedUnlessLoose, IsTracked
  <2> HIDE DEF new
  <2> QED
    BY <1>1, <1>2, <1>3, <2>1, <2>2, PlainRowStep
<1> QED
  BY <1>4, <1>5

LEMMA AnnounceStep == ASSUME TrackingInv, NEW k \in Keys, Announce(k) PROVE TrackingInv'
<1>1. /\ catalogue' = catalogue \cup {k} /\ UNCHANGED <<track, row, orphans, relink>>
      /\ snapshot' = snapshot /\ loose' = loose /\ filled' = filled
  BY DEF Announce, requestVars
<1>2. (\A u \in Users : RelinkIsFair(u)') /\ SnapshotIsTracked'
  BY <1>1, RelinksStay, SnapshotStays
<1>3. relink' \in [Users -> RelinkRecord]
  BY <1>1 DEF TrackingInv, Tables
<1> QED
  BY <1>1, <1>2, <1>3, LinkedIsThere, TableStep
-----------------------------------------------------------------------------
(* Relinks. *)

\* The request begins: nothing is written, and what is flushed is fair.
LEMMA BeginStep ==
  ASSUME TrackingInv, NEW u \in Users, NEW f \in Names, NEW new \in Row,
         NEW mark \in Keys \cup {None}, Begin(u, f, new, mark),
         new.st # "none", new.ep = mark, mark # None => mark \in catalogue
  PROVE  TrackingInv'
<1> DEFINE clear == Cleared(f, new)
           seen == LinkedTo(row[f].ep)
           begun == [file |-> f, new |-> new, mark |-> mark, clear |-> clear, seen |-> seen]
<1>1. /\ relink' = [relink EXCEPT ![u] = begun]
      /\ UNCHANGED <<track, row, orphans, catalogue, snapshot, loose, filled>>
  BY DEF Begin, rematchVars
<1>2. clear \in Keys \cup {None} /\ seen \in SUBSET Names
  BY DEF Cleared, LinkedTo, TrackingInv, Tables, Row
<1>3. clear # None => clear # new.ep /\ seen = {f}
  BY DEF Cleared
<1>4. begun \in RelinkRecord
  BY <1>2 DEF RelinkRecord
<1>5. ASSUME NEW v \in Users PROVE RelinkIsFair(v)'
  <2>1. CASE v = u
    <3>1. relink'[v] = begun
      BY <1>1, <2>1 DEF TrackingInv, Tables
    <3>2. /\ begun.file = f /\ begun.new = new /\ begun.mark = mark
          /\ begun.clear = clear /\ begun.seen = seen
      OBVIOUS
    <3> HIDE DEF begun, clear, seen
    <3> QED
      BY <1>1, <1>3, <3>1, <3>2 DEF RelinkIsFair
  <2>2. CASE v # u
    <3>1. relink'[v] = relink[v]
      BY <1>1, <2>2 DEF TrackingInv, Tables
    <3> QED
      BY <1>1, <3>1 DEF TrackingInv, RelinkIsFair
  <2> QED
    BY <2>1, <2>2
<1> HIDE DEF begun
<1>6. relink' \in [Users -> RelinkRecord]
  BY <1>1, <1>4 DEF TrackingInv, Tables
<1>7. SnapshotIsTracked'
  BY <1>1, SnapshotStays
<1> QED
  BY <1>1, <1>5, <1>6, <1>7, LinkedIsThere, TableStep

LEMMA PatchStep ==
  ASSUME TrackingInv, NEW u \in Users, NEW f \in Names,
         \/ PatchNoEpisode(u, f) \/ PatchShow(u, f)
         \/ \E k \in Keys : PatchEpisode(u, f, k) \/ Match(u, f, k)
  PROVE  TrackingInv'
<1>1. row[f] \in Row /\ catalogue \subseteq Keys /\ (row[f] # NoRow => row[f].st # "none")
  BY LinkedIsThere DEF TrackingInv, RowsAreMarked
<1>2. CASE PatchNoEpisode(u, f)
  <2> DEFINE new == [row[f] EXCEPT !.ep = None, !.parsed = None]
  <2>1. Begin(u, f, new, None) /\ row[f] # NoRow
    BY <1>2 DEF PatchNoEpisode, Begin
  <2>2. new \in Row /\ new.ep = None /\ new.st # "none"
    BY <1>1, <2>1 DEF Row
  <2> HIDE DEF new
  <2> QED
    BY <2>1, <2>2, BeginStep
<1>3. CASE PatchShow(u, f)
  <2> DEFINE new == [row[f] EXCEPT !.here = FALSE, !.ep = None]
  <2>1. Begin(u, f, new, None) /\ row[f] # NoRow
    BY <1>3 DEF PatchShow, Begin
  <2>2. new \in Row /\ new.ep = None /\ new.st # "none"
    BY <1>1, <2>1 DEF Row
  <2> HIDE DEF new
  <2> QED
    BY <2>1, <2>2, BeginStep
<1>4. ASSUME NEW k \in Keys, PatchEpisode(u, f, k) PROVE TrackingInv'
  <2> DEFINE new == [row[f] EXCEPT !.here = TRUE, !.ep = k, !.parsed = k]
  <2>1. Begin(u, f, new, k) /\ row[f] # NoRow /\ k \in catalogue
    BY <1>4 DEF PatchEpisode, Begin
  <2>2. new \in Row /\ new.ep = k /\ new.st # "none"
    BY <1>1, <2>1 DEF Row
  <2> HIDE DEF new
  <2> QED
    BY <2>1, <2>2, BeginStep
<1>5. ASSUME NEW k \in Keys, Match(u, f, k) PROVE TrackingInv'
  <2> DEFINE parsed == IF row[f].parsed = None THEN k ELSE row[f].parsed
             ep == IF parsed \in catalogue THEN parsed ELSE None
             new == [here |-> TRUE, ep |-> ep, parsed |-> parsed, st |-> "matched"]
  <2>1. Begin(u, f, new, ep)
    BY <1>5 DEF Match
  <2>2. parsed \in Keys \cup {None} /\ ep \in Keys \cup {None} /\ (ep # None => ep \in catalogue)
    BY <1>1 DEF Row
  <2> HIDE DEF parsed, ep
  <2>3. new \in Row /\ new.ep = ep /\ new.st # "none"
    BY <2>2 DEF Row
  <2> HIDE DEF new
  <2> QED
    BY <2>1, <2>2, <2>3, BeginStep
<1> QED
  BY <1>2, <1>3, <1>4, <1>5

\* A request that ends leaves the others as they are.
LEMMA RelinkEnds ==
  ASSUME TrackingInv, NEW u \in Users, relink' = [relink EXCEPT ![u] = NoRelink],
         catalogue' = catalogue
  PROVE  relink' \in [Users -> RelinkRecord] /\ \A v \in Users : RelinkIsFair(v)'
<1>1. relink' \in [Users -> RelinkRecord]
  BY NoRowIsRow DEF TrackingInv, Tables
<1>2. ASSUME NEW v \in Users PROVE RelinkIsFair(v)'
  <2>1. relink'[v] = NoRelink \/ relink'[v] = relink[v]
    BY DEF TrackingInv, Tables
  <2> QED
    BY <2>1 DEF TrackingInv, RelinkIsFair
<1> QED
  BY <1>1, <1>2

LEMMA CommitRelinkStep ==
  ASSUME TrackingInv, NEW u \in Users, CommitRelink(u)
  PROVE  TrackingInv'
<1> DEFINE f == relink[u].file
           new == relink[u].new
           mark == relink[u].mark
           clear == relink[u].clear
<1>1. /\ relink[u] # NoRelink /\ row' = [row EXCEPT ![f] = new]
      /\ track' = [k \in Keys |-> CASE k = mark -> [name |-> f, by |-> "match"]
                                    [] k = clear -> Untracked
                                    [] OTHER -> track[k]]
      /\ orphans' = IF mark # None \/ new.here # row[f].here THEN Waived(f) ELSE orphans
      /\ loose' = loose \cup (IF clear = None THEN {} ELSE LinkedTo(clear) \ relink[u].seen)
      /\ relink' = [relink EXCEPT ![u] = NoRelink]
      /\ catalogue' = catalogue /\ snapshot' = snapshot /\ filled' = filled
  BY DEF CommitRelink, rematchVars
<1>2. /\ f \in Names /\ new \in Row /\ new.st # "none" /\ new.ep = mark
      /\ mark \in Keys \cup {None} /\ clear \in Keys \cup {None}
      /\ mark # None => mark \in catalogue
      /\ clear # None => clear # mark /\ relink[u].seen = {f}
  BY <1>1 DEF TrackingInv, Tables, RelinkIsFair, RelinkRecord
<1> HIDE DEF f, new, mark, clear
<1>3. [name |-> f, by |-> "match"] \in Tracks \ {Untracked} /\ Untracked \in Tracks
  BY <1>2, NoRowIsRow, TrackingConstants DEF Tracks, Untracked, Names
<1>4. track' \in [Keys -> Tracks]
  <2> DEFINE t(k) == CASE k = mark -> [name |-> f, by |-> "match"]
                       [] k = clear -> Untracked
                       [] OTHER -> track[k]
  <2>1. ASSUME NEW k \in Keys PROVE t(k) \in Tracks
    <3>1. CASE k = mark
      BY <1>2, <1>3, <3>1
    <3>2. CASE k # mark /\ k = clear
      BY <1>3, <3>2
    <3>3. CASE k # mark /\ k # clear
      BY <3>3, LinkedIsThere
    <3> QED
      BY <3>1, <3>2, <3>3
  <2>2. track' = [k \in Keys |-> t(k)]
    BY <1>1
  <2> HIDE DEF t
  <2> QED
    BY <2>1, <2>2
<1>5. ASSUME NEW k \in Keys \ catalogue PROVE track'[k] = Untracked
  <2>1. k # mark /\ track[k] = Untracked
    BY <1>2, TrackingConstants, LinkedIsThere
  <2>2. track'[k] = IF k = clear THEN Untracked ELSE track[k]
    BY <1>1, <2>1
  <2> QED
    BY <2>1, <2>2
<1>6. mark # None => track'[mark] # Untracked
  BY <1>1, <1>2, <1>3
<1>7. ASSUME NEW x \in Names \ (loose' \cup {f}), row[x].st = "routed", row[x].ep # None
      PROVE  track'[row[x].ep] # Untracked
  <2> DEFINE k == row[x].ep
  <2>1. k \in Keys /\ track[k] # Untracked
    BY <1>1, <1>7, LinkedIsThere DEF TrackingInv, RoutedIsTrackedUnlessLoose, IsTracked
  <2>2. k # clear
    <3>1. ASSUME k = clear PROVE FALSE
      <4>1. x \in LinkedTo(clear) /\ clear # None
        BY <1>7, <3>1 DEF LinkedTo
      <4> QED
        BY <1>1, <1>2, <1>7, <4>1
    <3> QED
      BY <3>1
  <2> HIDE DEF k
  <2>3. track'[k] # Untracked
    BY <1>1, <1>3, <2>1, <2>2
  <2> QED
    BY <2>3 DEF k
<1>8. orphans' \subseteq orphans /\ (new.ep # None => \A o \in orphans' : o.file # f)
  BY <1>1, <1>2 DEF Waived
<1>9. relink' \in [Users -> RelinkRecord] /\ \A v \in Users : RelinkIsFair(v)'
  BY <1>1, RelinkEnds
<1>10. SnapshotIsTracked'
  BY <1>1, SnapshotStays
<1>11. filled \subseteq filled' /\ loose \subseteq loose'
  BY <1>1
<1> QED
  BY <1>1, <1>2, <1>4, <1>5, <1>6, <1>7, <1>8, <1>9, <1>10, <1>11, RowStep

LEMMA RollBackStep == ASSUME TrackingInv, NEW u \in Users, RollBack(u) PROVE TrackingInv'
<1>1. /\ relink' = [relink EXCEPT ![u] = NoRelink]
      /\ UNCHANGED <<track, row, orphans, catalogue, snapshot, loose, filled>>
  BY DEF RollBack, rematchVars
<1>2. SnapshotIsTracked'
  BY <1>1, SnapshotStays
<1> QED
  BY <1>1, <1>2, RelinkEnds, LinkedIsThere, TableStep
-----------------------------------------------------------------------------
(* Requests of one step. *)

LEMMA ResetStep == ASSUME TrackingInv, NEW f \in Files, Reset(f) PROVE TrackingInv'
<1> DEFINE new == [row[f] EXCEPT !.here = FALSE, !.ep = None, !.st = "waiting"]
<1>1. /\ row' = [row EXCEPT ![f] = new] /\ UNCHANGED <<track, orphans, loose, filled>>
      /\ catalogue' = catalogue /\ relink' = relink /\ snapshot' = snapshot
  BY DEF Reset, Request, rematchVars
<1>2. f \in Names /\ row[f] \in Row
  BY LinkedIsThere DEF Names
<1>3. new \in Row /\ new.st = "waiting" /\ new.ep = None
  BY <1>2 DEF Row
<1> HIDE DEF new
<1> QED
  BY <1>1, <1>2, <1>3, LinkedIsThere, PlainRowStep

LEMMA DismissOrphanStep ==
  ASSUME TrackingInv, NEW o \in orphans, DismissOrphan(o)
  PROVE  TrackingInv'
<1>1. /\ orphans' = orphans \ {o} /\ UNCHANGED <<track, row, loose, filled>>
      /\ catalogue' = catalogue /\ relink' = relink /\ snapshot' = snapshot
  BY DEF DismissOrphan, Request, rematchVars
<1>2. (\A u \in Users : RelinkIsFair(u)') /\ SnapshotIsTracked'
  BY <1>1, RelinksStay, SnapshotStays
<1>3. relink' \in [Users -> RelinkRecord]
  BY <1>1 DEF TrackingInv, Tables
<1> QED
  BY <1>1, <1>2, <1>3, LinkedIsThere, TableStep

LEMMA ResolveOrphanStep ==
  ASSUME TrackingInv, NEW o \in orphans, NEW k \in Keys, ResolveOrphan(o, k)
  PROVE  TrackingInv'
<1> DEFINE f == o.file
<1>1. /\ orphans' = orphans \ {o} /\ UNCHANGED <<loose, filled>> /\ k \in catalogue
      /\ catalogue' = catalogue /\ relink' = relink /\ snapshot' = snapshot
  BY DEF ResolveOrphan, Request, rematchVars
<1>2. (\A u \in Users : RelinkIsFair(u)') /\ SnapshotIsTracked'
  BY <1>1, RelinksStay, SnapshotStays
<1>3. relink' \in [Users -> RelinkRecord]
  BY <1>1 DEF TrackingInv, Tables
<1>4. o.name \in Names /\ o.by \in {"match", "import"} /\ f \in Names \cup {None}
  BY DEF TrackingInv, Tables, Orphan
<1>5. CASE f = None
  <2>1. MarkTracked(k, o.name, o.by) /\ row' = row
    BY <1>5 DEF ResolveOrphan
  <2>2. /\ track' \in [Keys -> Tracks]
        /\ \A j \in Keys : track[j] # Untracked => track'[j] # Untracked
        /\ \A j \in Keys \ catalogue : track'[j] = Untracked
    BY <1>1, <1>4, <2>1, MarkedIsTracked, LinkedIsThere
  <2> QED
    BY <1>1, <1>2, <1>3, <2>1, <2>2, LinkedIsThere, TableStep
<1>6. CASE f # None
  <2> DEFINE new == [row[f] EXCEPT !.ep = k]
  <2>1. MarkTracked(k, f, "match") /\ row' = [row EXCEPT ![f] = new]
    BY <1>6 DEF ResolveOrphan
  <2>2. f \in Names /\ row[f] \in Row /\ row[f] # NoRow
    BY <1>4, <1>6, LinkedIsThere DEF TrackingInv, OrphansHaveRows
  <2>3. new \in Row /\ new.st # "none" /\ new.ep = k
    BY <2>2 DEF Row, TrackingInv, RowsAreMarked
  <2>4. /\ track' \in [Keys -> Tracks] /\ track'[k] # Untracked
        /\ \A j \in Keys : track[j] # Untracked => track'[j] # Untracked
        /\ \A j \in Keys \ catalogue : track'[j] = Untracked
    BY <1>1, <2>1, <2>2, MarkedIsTracked, LinkedIsThere
  <2>5. f \in filled' \/ \A p \in orphans' : p.file # f
    BY <1>1, <1>6 DEF TrackingInv, OneRecordPerFile
  <2> HIDE DEF new, f
  <2> QED
    BY <1>1, <2>1, <2>2, <2>3, <2>4, <2>5, PlainRowStep
<1> QED
  BY <1>5, <1>6

\* What a step has to see to that writes several rows.
LEMMA RowsStep ==
  ASSUME TrackingInv, row' \in [Names -> Row], track' \in [Keys -> Tracks],
         catalogue' \subseteq Keys, \A k \in Keys \ catalogue' : track'[k] = Untracked,
         \A x \in Names : row'[x].ep # None => row'[x].ep \in catalogue',
         \A x \in Names : row'[x] = NoRow \/ row'[x].st # "none",
         orphans' \subseteq Orphan,
         \A o \in orphans' : o.file # None => row'[o.file] # NoRow,
         \A o \in orphans' : o.file # None /\ o.file \notin filled' => row'[o.file].ep = None,
         OneRecordPerFile',
         \A x \in Names \ loose' :
           row'[x].st = "routed" /\ row'[x].ep # None => track'[row'[x].ep] # Untracked,
         relink' = relink, \A u \in Users : RelinkIsFair(u)', SnapshotIsTracked'
  PROVE  TrackingInv'
<1>1. Tables'
  BY DEF TrackingInv, Tables
<1>2. GoneIsFree'
  <2>1. ASSUME NEW k \in Keys \ catalogue', NEW x \in Names PROVE row'[x].ep # k
    BY TrackingConstants
  <2> QED
    BY <2>1 DEF GoneIsFree
<1>3. RowsAreMarked' /\ OrphansHaveRows'
  BY DEF RowsAreMarked, OrphansHaveRows
<1>4. OrphanIsUnlinkedUnlessFilled'
  BY DEF OrphanIsUnlinkedUnlessFilled
<1>5. RoutedIsTrackedUnlessLoose'
  BY DEF RoutedIsTrackedUnlessLoose, IsTracked
<1> QED
  BY <1>1, <1>2, <1>3, <1>4, <1>5 DEF TrackingInv

\* The rows of an episode that is detached.
LEMMA DetachedRows ==
  ASSUME TrackingInv, NEW k \in Keys
  PROVE  /\ Detached(k) \in [Names -> Row]
         /\ \A x \in Names :
              \/ Detached(k)[x] = row[x] /\ row[x].ep # k
              \/ x \in Paths /\ row[x].ep = k /\ Detached(k)[x] = NoRow
              \/ row[x].ep = k /\ x \notin Paths /\ Detached(k)[x].st = "waiting"
                   /\ Detached(k)[x].ep = None
<1>1. ASSUME NEW x \in Names
      PROVE  /\ Detached(k)[x] \in Row
             /\ \/ Detached(k)[x] = row[x] /\ row[x].ep # k
                \/ x \in Paths /\ row[x].ep = k /\ Detached(k)[x] = NoRow
                \/ row[x].ep = k /\ x \notin Paths /\ Detached(k)[x].st = "waiting"
                     /\ Detached(k)[x].ep = None
  <2>1. row[x] \in Row
    BY LinkedIsThere
  <2>2. CASE row[x].ep # k
    BY <2>1, <2>2 DEF Detached, LinkedTo
  <2>3. CASE row[x].ep = k /\ x \in Paths
    BY <2>3, NoRowIsRow DEF Detached, LinkedTo
  <2>4. CASE row[x].ep = k /\ x \notin Paths
    <3>1. Detached(k)[x] = [row[x] EXCEPT !.ep = None, !.st = "waiting"]
      BY <2>4 DEF Detached, LinkedTo
    <3> QED
      BY <2>1, <2>4, <3>1 DEF Row
  <2> QED
    BY <2>2, <2>3, <2>4
<1>2. Detached(k) = [x \in Names |-> Detached(k)[x]]
  BY DEF Detached
<1> QED
  BY <1>1, <1>2

\* A record of a file whose row is deleted refers to no file any more.
LEMMA UnhookedRecords ==
  ASSUME TrackingInv, NEW k \in Keys
  PROVE  /\ Unhooked(k) \subseteq Orphan
         /\ \A o \in Unhooked(k) : o.file # None =>
              o \in orphans /\ ~(o.file \in Paths /\ row[o.file].ep = k)
<1>1. ASSUME NEW o \in orphans,
             NEW p, p = [o EXCEPT !.file = IF @ \in LinkedTo(k) \cap Paths THEN None ELSE @]
      PROVE  p \in Orphan /\ (p.file # None =>
               p = o /\ ~(p.file \in Paths /\ row[p.file].ep = k))
  <2>1. o \in Orphan
    BY DEF TrackingInv, Tables
  <2>2. CASE o.file \in LinkedTo(k) \cap Paths
    <3>1. p = [o EXCEPT !.file = None]
      BY <1>1, <2>2
    <3> QED
      BY <2>1, <3>1 DEF Orphan
  <2>3. CASE o.file \notin LinkedTo(k) \cap Paths
    <3>1. p = o
      BY <1>1, <2>1, <2>3 DEF Orphan
    <3> QED
      BY <2>1, <2>3, <3>1 DEF LinkedTo, Orphan
  <2> QED
    BY <2>2, <2>3
<1> QED
  BY <1>1 DEF Unhooked

\* The episode k is detached: its files are unlinked, their records stay.
LEMMA DetachedStep ==
  ASSUME TrackingInv, NEW k \in Keys
  PROVE  /\ \A x \in Names : Detached(k)[x].ep # None =>
              Detached(k)[x].ep \in catalogue \ {k} /\ Detached(k)[x] = row[x]
         /\ \A x \in Names : Detached(k)[x] = NoRow \/ Detached(k)[x].st # "none"
         /\ \A o \in Unhooked(k) : o.file # None =>
              o.file \in Names /\ Detached(k)[o.file] # NoRow
         /\ \A o \in Unhooked(k) : o.file # None /\ o.file \notin filled =>
              Detached(k)[o.file].ep = None
         /\ \A o1, o2 \in Unhooked(k) :
              o1.file = o2.file /\ o1.file # None /\ o1.file \notin filled => o1 = o2
<1>1. \A x \in Names : Detached(k)[x].ep # None =>
        Detached(k)[x].ep \in catalogue \ {k} /\ Detached(k)[x] = row[x]
  BY DetachedRows, LinkedIsThere DEF NoRow
<1>2. \A x \in Names : Detached(k)[x] = NoRow \/ Detached(k)[x].st # "none"
  BY DetachedRows DEF TrackingInv, RowsAreMarked
<1>3. ASSUME NEW o \in Unhooked(k), o.file # None
      PROVE  /\ o.file \in Names /\ Detached(k)[o.file] # NoRow
             /\ o.file \notin filled => Detached(k)[o.file].ep = None
  <2>1. /\ o \in orphans /\ o.file \in Names /\ row[o.file] # NoRow
        /\ o.file \notin filled => row[o.file].ep = None
    BY <1>3, UnhookedRecords
       DEF TrackingInv, Tables, Orphan, OrphansHaveRows, OrphanIsUnlinkedUnlessFilled
  <2>2. ~(o.file \in Paths /\ row[o.file].ep = k)
    BY <1>3, UnhookedRecords
  <2> QED
    BY <2>1, <2>2, DetachedRows DEF NoRow
<1>4. \A o1, o2 \in Unhooked(k) :
        o1.file = o2.file /\ o1.file # None /\ o1.file \notin filled => o1 = o2
  BY UnhookedRecords DEF TrackingInv, OneRecordPerFile
<1> QED
  BY <1>1, <1>2, <1>3, <1>4

LEMMA ClearTrackingStep ==
  ASSUME TrackingInv, NEW k \in Keys, ClearTracking(k)
  PROVE  TrackingInv'
<1>1. /\ row' = Detached(k) /\ track' = [track EXCEPT ![k] = Untracked]
      /\ orphans' = Unhooked(k) /\ UNCHANGED <<loose, filled>>
      /\ catalogue' = catalogue /\ relink' = relink /\ snapshot' = snapshot
  BY DEF ClearTracking, Request, rematchVars
<1>2. (\A u \in Users : RelinkIsFair(u)') /\ SnapshotIsTracked'
  BY <1>1, RelinksStay, SnapshotStays
<1>3. /\ track' \in [Keys -> Tracks] /\ \A j \in Keys \ catalogue : track'[j] = Untracked
      /\ \A j \in Keys \ {k} : track'[j] = track[j]
  BY <1>1, LinkedIsThere, NoRowIsRow
<1>4. row' \in [Names -> Row] /\ orphans' \subseteq Orphan /\ OneRecordPerFile'
  <2>1. OneRecordPerFile'
    BY <1>1, DetachedStep DEF OneRecordPerFile
  <2> QED
    BY <1>1, <2>1, DetachedRows, UnhookedRecords
<1>5. ASSUME NEW x \in Names \ loose', row'[x].st = "routed", row'[x].ep # None
      PROVE  track'[row'[x].ep] # Untracked
  <2>1. row'[x].ep \in catalogue \ {k} /\ row'[x] = row[x]
    BY <1>1, <1>5, DetachedStep
  <2>2. track[row[x].ep] # Untracked
    BY <1>1, <1>5, <2>1 DEF TrackingInv, RoutedIsTrackedUnlessLoose, IsTracked
  <2> QED
    BY <1>3, <2>1, <2>2, LinkedIsThere
<1>6. /\ \A x \in Names : row'[x].ep # None => row'[x].ep \in catalogue'
      /\ \A x \in Names : row'[x] = NoRow \/ row'[x].st # "none"
      /\ \A o \in orphans' : o.file # None => row'[o.file] # NoRow
      /\ \A o \in orphans' : o.file # None /\ o.file \notin filled' => row'[o.file].ep = None
  BY <1>1, DetachedStep
<1> QED
  BY <1>1, <1>2, <1>3, <1>4, <1>5, <1>6, LinkedIsThere, RowsStep

LEMMA LinkFileStep ==
  ASSUME TrackingInv, NEW p \in Paths, NEW k \in Keys, LinkFile(p, k)
  PROVE  TrackingInv'
<1> DEFINE detach == IsTracked(k)
           rows == IF detach THEN Detached(k) ELSE row
           made == [here |-> TRUE, ep |-> k, parsed |-> k, st |-> "routed"]
<1>1. /\ row' = [rows EXCEPT ![p] = IF rows[p] = NoRow THEN made ELSE rows[p]]
      /\ MarkTracked(k, p, "import") /\ k \in catalogue
      /\ orphans' = IF detach THEN Unhooked(k) ELSE orphans
      /\ UNCHANGED <<loose, filled>>
      /\ catalogue' = catalogue /\ relink' = relink /\ snapshot' = snapshot
  BY DEF LinkFile, Request, rematchVars
<1>2. (\A u \in Users : RelinkIsFair(u)') /\ SnapshotIsTracked'
  BY <1>1, RelinksStay, SnapshotStays
<1>3. p \in Names /\ k # None /\ made \in Row /\ made.st = "routed" /\ made.ep = k
  BY TrackingConstants DEF Names, Row
<1>4. /\ track' \in [Keys -> Tracks] /\ track'[k] # Untracked
      /\ \A j \in Keys : track[j] # Untracked => track'[j] # Untracked
      /\ \A j \in Keys \ catalogue : track'[j] = Untracked
  BY <1>1, <1>3, MarkedIsTracked, LinkedIsThere
<1>5. /\ rows \in [Names -> Row]
      /\ \A x \in Names : rows[x].ep # None => rows[x].ep \in catalogue /\ rows[x] = row[x]
      /\ \A x \in Names : rows[x] = NoRow \/ rows[x].st # "none"
      /\ orphans' \subseteq Orphan
      /\ \A o \in orphans' : o.file # None => o.file \in Names /\ rows[o.file] # NoRow
      /\ \A o \in orphans' : o.file # None /\ o.file \notin filled => rows[o.file].ep = None
      /\ \A o1, o2 \in orphans' :
           o1.file = o2.file /\ o1.file # None /\ o1.file \notin filled => o1 = o2
  <2>1. CASE detach
    BY <1>1, <2>1, DetachedRows, DetachedStep, UnhookedRecords
  <2>2. CASE ~detach
    BY <1>1, <2>2, LinkedIsThere
       DEF TrackingInv, Tables, Orphan, RowsAreMarked, OrphansHaveRows, OneRecordPerFile,
           OrphanIsUnlinkedUnlessFilled
  <2> QED
    BY <2>1, <2>2
<1> HIDE DEF rows, made, detach
<1>6. /\ row' \in [Names -> Row]
      /\ \A x \in Names : row'[x] = rows[x] \/ (x = p /\ rows[p] = NoRow /\ row'[x] = made)
  BY <1>1, <1>3, <1>5
<1>7. /\ \A x \in Names : row'[x].ep # None => row'[x].ep \in catalogue'
      /\ \A x \in Names : row'[x] = NoRow \/ row'[x].st # "none"
      /\ \A o \in orphans' : o.file # None => row'[o.file] # NoRow
      /\ \A o \in orphans' : o.file # None /\ o.file \notin filled' => row'[o.file].ep = None
  <2>1. made # NoRow
    BY <1>3 DEF NoRow
  <2> QED
    BY <1>1, <1>3, <1>5, <1>6, <2>1
<1>8. OneRecordPerFile'
  BY <1>1, <1>5 DEF OneRecordPerFile
<1>9. ASSUME NEW x \in Names \ loose', row'[x].st = "routed", row'[x].ep # None
      PROVE  track'[row'[x].ep] # Untracked
  <2>1. CASE row'[x] = rows[x]
    <3>1. row'[x] = row[x] /\ row[x].ep \in Keys
      BY <1>5, <1>9, <2>1, LinkedIsThere
    <3>2. track[row[x].ep] # Untracked
      BY <1>1, <1>9, <3>1 DEF TrackingInv, RoutedIsTrackedUnlessLoose, IsTracked
    <3> QED
      BY <1>4, <3>1, <3>2
  <2>2. CASE row'[x] = made
    BY <1>3, <1>4, <2>2
  <2> QED
    BY <1>6, <2>1, <2>2
<1> QED
  BY <1>1, <1>2, <1>4, <1>5, <1>6, <1>7, <1>8, <1>9, LinkedIsThere, RowsStep

LEMMA TakeSnapshotStep ==
  ASSUME TrackingInv, NEW kind \in {"rematch", "forget", "group"}, TakeSnapshot(kind)
  PROVE  TrackingInv'
<1> DEFINE seen == [k \in {k \in catalogue : IsTracked(k) /\ kind # "forget"} |-> track[k]]
<1>1. /\ snapshot' = [kind |-> kind, seen |-> seen]
      /\ UNCHANGED <<catalogue, track, row, orphans, relink, loose, filled>>
  BY DEF TakeSnapshot, requestVars
<1>2. DOMAIN seen \subseteq Keys /\ \A k \in DOMAIN seen : seen[k] \in Tracks \ {Untracked}
  BY LinkedIsThere DEF IsTracked
<1> HIDE DEF seen
<1>3. SnapshotIsTracked'
  BY <1>1, <1>2 DEF SnapshotIsTracked
<1>4. (\A u \in Users : RelinkIsFair(u)') /\ relink' \in [Users -> RelinkRecord]
  BY <1>1, RelinksStay DEF TrackingInv, Tables
<1> QED
  BY <1>1, <1>3, <1>4, LinkedIsThere, TableStep
-----------------------------------------------------------------------------
(* assign-import, which moves up to two rows and two trackings. *)

\* A row that is there moves to an episode of the catalogue.
LEMMA MovedRow ==
  ASSUME TrackingInv, NEW rows \in [Names -> Row], NEW x \in Names, NEW to \in catalogue,
         NEW moved, moved = Resynced(rows, x, to)
  PROVE  /\ moved \in [Names -> Row]
         /\ \A y \in Names \ {x} : moved[y] = rows[y]
         /\ \/ rows[x] = NoRow /\ moved[x] = NoRow
            \/ rows[x] # NoRow /\ moved[x].ep = to /\ moved[x].st = rows[x].st
<1> DEFINE new == [rows[x] EXCEPT !.ep = to, !.parsed = to]
<1>1. CASE rows[x] = NoRow
  BY <1>1 DEF Resynced
<1>2. CASE rows[x] # NoRow
  <2>1. moved = [rows EXCEPT ![x] = new]
    BY <1>2 DEF Resynced
  <2>2. new \in Row /\ new.ep = to /\ new.st = rows[x].st
    BY LinkedIsThere DEF Row
  <2> HIDE DEF new
  <2> QED
    BY <1>2, <2>1, <2>2
<1> QED
  BY <1>1, <1>2

\* Every row is as it was, or is moved with its records known to the history and
\* its episode tracked.
LEMMA MovedRows ==
  ASSUME TrackingInv, row' \in [Names -> Row], track' \in [Keys -> Tracks],
         catalogue' = catalogue, relink' = relink, snapshot' = snapshot,
         orphans' = orphans, filled \subseteq filled', loose \subseteq loose',
         \A k \in Keys \ catalogue : track'[k] = Untracked,
         \A x \in Names :
           \/ row'[x] = row[x]
           \/ /\ row[x] # NoRow /\ row'[x].st = row[x].st /\ row'[x].ep \in catalogue
              /\ track'[row'[x].ep] # Untracked
              /\ x \in filled' \/ \A o \in orphans : o.file # x,
         \A x \in Names \ loose' : row'[x] = row[x] /\ row[x].ep # None =>
           (track[row[x].ep] # Untracked => track'[row[x].ep] # Untracked)
  PROVE  TrackingInv'
<1>1. (\A u \in Users : RelinkIsFair(u)') /\ SnapshotIsTracked'
  BY RelinksStay, SnapshotStays
<1>2. \A x \in Names : row[x] = NoRow \/ row[x].st # "none"
  BY DEF TrackingInv, RowsAreMarked
<1>3. \A x \in Names : row'[x] = NoRow \/ row'[x].st # "none"
  BY <1>2
<1>4. \A x \in Names : row[x] # NoRow => row'[x] # NoRow
  <2>1. NoRow.st = "none"
    BY DEF NoRow
  <2> QED
    BY <1>2, <2>1
<1>5. /\ \A o \in orphans' : o.file # None => row'[o.file] # NoRow
      /\ \A o \in orphans' : o.file # None /\ o.file \notin filled' => row'[o.file].ep = None
  BY <1>4 DEF TrackingInv, Tables, Orphan, OrphansHaveRows, OrphanIsUnlinkedUnlessFilled
<1>6. OneRecordPerFile'
  BY DEF TrackingInv, OneRecordPerFile
<1>7. ASSUME NEW x \in Names \ loose', row'[x].st = "routed", row'[x].ep # None
      PROVE  track'[row'[x].ep] # Untracked
  BY <1>7 DEF TrackingInv, RoutedIsTrackedUnlessLoose, IsTracked
<1>8. \A x \in Names : row'[x].ep # None => row'[x].ep \in catalogue
  BY LinkedIsThere
<1>9. orphans' \subseteq Orphan
  BY DEF TrackingInv, Tables
<1> QED
  BY <1>1, <1>3, <1>5, <1>6, <1>7, <1>8, <1>9, LinkedIsThere, RowsStep

LEMMA AssignImportStep ==
  ASSUME TrackingInv, NEW p \in Paths, NEW k \in Keys, AssignImport(p, k)
  PROVE  TrackingInv'
<1> DEFINE displaced == track[k].name
<1>1. PICK h \in catalogue :
        LET swap == h # k /\ displaced \notin {None, p} IN
        /\ track' = [track EXCEPT
             ![h] = IF swap THEN [name |-> displaced, by |-> "import"] ELSE Untracked,
             ![k] = [name |-> p, by |-> "import"]]
        /\ row' = Resynced(IF swap THEN Resynced(row, displaced, h) ELSE row, p, k)
        /\ filled' = filled \cup (Awaited \cap ({p} \cup IF swap THEN {displaced} ELSE {}))
        /\ loose' = loose \cup (IF swap \/ h = k THEN {} ELSE LinkedTo(h) \ {p})
  BY DEF AssignImport
<1> DEFINE swap == h # k /\ displaced \notin {None, p}
           mid == IF swap THEN Resynced(row, displaced, h) ELSE row
<1>2. /\ orphans' = orphans /\ catalogue' = catalogue /\ relink' = relink
      /\ snapshot' = snapshot /\ k \in catalogue
  BY DEF AssignImport, Request, rematchVars
<1>3. p \in Names /\ h \in Keys /\ p # None /\ (swap => displaced \in Names \ {p})
  BY LinkedIsThere, TrackingConstants DEF Names, Tracks, Untracked
<1>4. [name |-> p, by |-> "import"] \in Tracks \ {Untracked}
  BY <1>3 DEF Tracks, Untracked
<1>5. swap => [name |-> displaced, by |-> "import"] \in Tracks \ {Untracked}
  BY <1>3 DEF Tracks, Untracked
<1>6. /\ track' \in [Keys -> Tracks] /\ track'[k] # Untracked
      /\ swap => track'[h] # Untracked
      /\ \A j \in Keys \ {h, k} : track'[j] = track[j]
  <2> DEFINE first == IF swap THEN [name |-> displaced, by |-> "import"] ELSE Untracked
  <2>1. first \in Tracks /\ (swap => first # Untracked)
    BY <1>5, NoRowIsRow
  <2>2. track' = [track EXCEPT ![h] = first, ![k] = [name |-> p, by |-> "import"]]
    BY <1>1
  <2>3. swap => h # k
    OBVIOUS
  <2> HIDE DEF first, swap
  <2> QED
    BY <1>3, <1>4, <2>1, <2>2, <2>3, LinkedIsThere
<1>7. /\ mid \in [Names -> Row]
      /\ \A y \in Names : mid[y] = row[y] \/
           (swap /\ y = displaced /\ row[y] # NoRow /\ mid[y].ep = h /\ mid[y].st = row[y].st)
  <2>1. CASE swap
    <3>1. mid = Resynced(row, displaced, h)
      BY <2>1
    <3>2. /\ mid \in [Names -> Row] /\ \A y \in Names \ {displaced} : mid[y] = row[y]
          /\ \/ row[displaced] = NoRow /\ mid[displaced] = NoRow
             \/ row[displaced] # NoRow /\ mid[displaced].ep = h
                  /\ mid[displaced].st = row[displaced].st
      <4> HIDE DEF displaced, mid, swap
      <4> QED
        BY <1>3, <2>1, <3>1, MovedRow, LinkedIsThere
    <3> HIDE DEF displaced, mid, swap
    <3> QED
      BY <1>3, <2>1, <3>2
  <2>2. CASE ~swap
    <3>1. mid = row
      BY <2>2
    <3> QED
      BY <3>1, LinkedIsThere
  <2> QED
    BY <2>1, <2>2
<1>8. row' = Resynced(mid, p, k)
  BY <1>1
<1>9. /\ filled' = filled \cup (Awaited \cap ({p} \cup IF swap THEN {displaced} ELSE {}))
      /\ loose' = loose \cup (IF swap \/ h = k THEN {} ELSE LinkedTo(h) \ {p})
  BY <1>1
<1> HIDE DEF mid, swap, displaced
<1>10. /\ row' \in [Names -> Row] /\ \A y \in Names \ {p} : row'[y] = mid[y]
       /\ \/ row'[p] = mid[p]
          \/ mid[p] # NoRow /\ row'[p].ep = k /\ row'[p].st = mid[p].st
  BY <1>2, <1>3, <1>7, <1>8, MovedRow
<1>11. ASSUME NEW x \in Names
       PROVE \/ row'[x] = row[x]
             \/ /\ row[x] # NoRow /\ row'[x].st = row[x].st /\ row'[x].ep \in catalogue
                /\ track'[row'[x].ep] # Untracked
                /\ x \in filled' \/ \A o \in orphans : o.file # x
  <2>1. x # None
    BY TrackingConstants DEF Names
  <2>2. x \in {p, displaced} /\ (x = displaced => swap \/ x = p) =>
          x \in filled' \/ \A o \in orphans : o.file # x
    BY <1>9, <2>1 DEF Awaited
  <2>3. p = displaced => ~swap
    BY <1>3
  <2>4. CASE x = p
    <3>1. mid[p] = row[p]
      BY <1>3, <1>7, <2>3
    <3> QED
      BY <1>2, <1>6, <1>10, <2>2, <2>4, <3>1
  <2>5. CASE x # p
    <3>1. row'[x] = mid[x]
      BY <1>10, <2>5
    <3> QED
      BY <1>6, <1>7, <2>2, <3>1
  <2> QED
    BY <2>4, <2>5
<1>12. ASSUME NEW x \in Names \ loose', row'[x] = row[x], row[x].ep # None,
              track[row[x].ep] # Untracked
       PROVE  track'[row[x].ep] # Untracked
  <2>1. row[x].ep \in Keys
    BY <1>12, LinkedIsThere
  <2>2. CASE row[x].ep \notin {h, k}
    BY <1>6, <1>12, <2>1, <2>2
  <2>3. CASE row[x].ep = k \/ swap
    BY <1>6, <1>12, <2>1, <2>3
  <2>4. CASE row[x].ep = h /\ h # k /\ ~swap
    <3>1. x = p
      BY <1>9, <1>12, <2>4 DEF LinkedTo
    <3>2. row[p] # NoRow
      BY <1>12, <3>1 DEF NoRow
    <3>3. mid[p] = row[p]
      BY <1>3, <1>7, <2>4
    <3>4. row'[p].ep = k
      BY <1>3, <1>7, <1>8, <1>2, <3>2, <3>3, MovedRow
    <3> QED
      BY <1>12, <2>4, <3>1, <3>4
  <2> QED
    BY <2>2, <2>3, <2>4
<1>13. \A j \in Keys \ catalogue : track'[j] = Untracked
  BY <1>2, <1>6, LinkedIsThere
<1>14. filled \subseteq filled' /\ loose \subseteq loose'
  BY <1>9
<1> QED
  BY <1>2, <1>6, <1>10, <1>11, <1>12, <1>13, <1>14, MovedRows
-----------------------------------------------------------------------------
(* The episodes are replaced.  Nobody holds a row, so every request is as fair as *)
(* before, and every link is purged or made anew.                                 *)

LEMMA PurgedRow ==
  ASSUME TrackingInv, NEW x \in Names
  PROVE  /\ Purged(x) \in Row /\ Purged(x).ep = None /\ Purged(x).st = row[x].st
         /\ Purged(x) = NoRow \/ Purged(x).st # "none"
         /\ row[x].st # "none" => Purged(x) # NoRow
<1>1. row[x] \in Row
  BY LinkedIsThere
<1>2. Purged(x) \in Row /\ Purged(x).ep = None /\ Purged(x).st = row[x].st
  BY <1>1 DEF Purged, Row
<1>3. row[x] = NoRow => Purged(x) = NoRow
  <2>1. NoRow \in Row /\ NoRow.ep = None
    BY NoRowIsRow DEF NoRow
  <2>2. [NoRow EXCEPT !.ep = None] = NoRow
    BY <2>1 DEF Row
  <2> QED
    BY <2>2 DEF Purged
<1>4. NoRow.st = "none"
  BY DEF NoRow
<1> QED
  BY <1>2, <1>3, <1>4 DEF TrackingInv, RowsAreMarked

LEMMA QuietIsFair ==
  ASSUME Quiet, relink' = relink
  PROVE  \A u \in Users : RelinkIsFair(u)'
  BY DEF Quiet, RelinkIsFair

\* No link survives.
LEMMA PurgeStep ==
  ASSUME TrackingInv, Quiet, catalogue' \subseteq Keys, snapshot' = NoSnapshot,
         row' = [x \in Names |-> Purged(x)], track' = [k \in Keys |-> Untracked],
         orphans' \subseteq Orphan, relink' = relink,
         \A o \in orphans' : o.file # None => row[o.file] # NoRow,
         OneRecordPerFile'
  PROVE  TrackingInv'
<1>1. (\A u \in Users : RelinkIsFair(u)') /\ SnapshotIsTracked'
  BY QuietIsFair DEF SnapshotIsTracked
<1>2. /\ row' \in [Names -> Row] /\ track' \in [Keys -> Tracks]
      /\ \A x \in Names : row'[x].ep = None /\ (row'[x] = NoRow \/ row'[x].st # "none")
  BY PurgedRow, NoRowIsRow
<1>3. \A o \in orphans' : o.file # None => row'[o.file] # NoRow /\ row'[o.file].ep = None
  BY PurgedRow DEF TrackingInv, RowsAreMarked, Orphan
<1> QED
  BY <1>1, <1>2, <1>3, RowsStep

LEMMA ForgettingStep ==
  ASSUME TrackingInv, NEW keep \in SUBSET Keys, RematchForgetting(keep)
  PROVE  TrackingInv'
<1>1. /\ Quiet /\ catalogue' = keep /\ snapshot' = NoSnapshot /\ orphans' = {}
      /\ row' = [x \in Names |-> Purged(x)] /\ track' = [k \in Keys |-> Untracked]
      /\ relink' = relink
  BY DEF RematchForgetting, requestVars
<1>2. OneRecordPerFile'
  BY <1>1 DEF OneRecordPerFile
<1> QED
  BY <1>1, <1>2, PurgeStep

LEMMA ApplyGroupStep ==
  ASSUME TrackingInv, NEW new \in SUBSET Keys, ApplyGroup(new)
  PROVE  /\ TrackingInv'
         /\ \A k \in DOMAIN snapshot.seen : \E o \in orphans' : o.key = k
<1> DEFINE seen == snapshot.seen
<1>1. /\ Quiet /\ catalogue' = new /\ snapshot' = NoSnapshot
      /\ row' = [x \in Names |-> Purged(x)] /\ track' = [k \in Keys |-> Untracked]
      /\ relink' = relink /\ filled' = filled /\ snapshot.kind = "group"
  BY DEF ApplyGroup, requestVars
<1>2. PICK file \in [DOMAIN seen -> Names \cup {None}] :
        /\ \A k \in DOMAIN seen : IF LinkedTo(k) = {} THEN file[k] = None
                                  ELSE file[k] \in LinkedTo(k)
        /\ orphans' = orphans \cup GroupRecords(seen, file)
  BY DEF ApplyGroup
<1>3. DOMAIN seen \subseteq Keys /\ \A k \in DOMAIN seen : seen[k] \in Tracks \ {Untracked}
  BY <1>1 DEF TrackingInv, SnapshotIsTracked, NoSnapshot
<1>4. \A k \in DOMAIN seen :
        file[k] # None => file[k] \in Names /\ row[file[k]].ep = k /\ row[file[k]] # NoRow
  BY <1>2, <1>3, TrackingConstants DEF LinkedTo, NoRow
<1> HIDE DEF seen
<1>5. ASSUME NEW o \in GroupRecords(seen, file)
      PROVE  /\ o \in Orphan
             /\ o.file # None => row[o.file] # NoRow /\ row[o.file].ep # None
             /\ \A p \in GroupRecords(seen, file) :
                  p.file = o.file /\ o.file # None => p = o
  <2>1. PICK k \in DOMAIN seen :
          o = [name |-> seen[k].name, by |-> seen[k].by, key |-> k, file |-> file[k]]
    BY DEF GroupRecords
  <2>2. k \in Keys /\ k # None /\ seen[k].name \in Names /\ seen[k].by \in {"match", "import"}
    BY <1>3, TrackingConstants DEF Tracks
  <2>3. o \in Orphan
    BY <1>2, <2>1, <2>2 DEF Orphan
  <2>4. o.file # None => row[o.file] # NoRow /\ row[o.file].ep # None
    BY <1>4, <2>1, <2>2
  <2>5. ASSUME NEW p \in GroupRecords(seen, file), p.file = o.file, o.file # None
        PROVE  p = o
    <3>1. PICK j \in DOMAIN seen :
            p = [name |-> seen[j].name, by |-> seen[j].by, key |-> j, file |-> file[j]]
      BY DEF GroupRecords
    <3>2. j = k
      BY <1>4, <2>1, <2>5, <3>1
    <3> QED
      BY <2>1, <3>1, <3>2
  <2> QED
    BY <2>3, <2>4, <2>5
<1>6. orphans' \subseteq Orphan /\ \A o \in orphans' : o.file # None => row[o.file] # NoRow
  BY <1>2, <1>5 DEF TrackingInv, Tables, OrphansHaveRows
<1>7. OneRecordPerFile'
  <2>1. ASSUME NEW o \in orphans, NEW p \in GroupRecords(seen, file),
               o.file = p.file, o.file # None, o.file \notin filled
        PROVE  FALSE
    BY <1>5, <2>1 DEF TrackingInv, OrphanIsUnlinkedUnlessFilled
  <2> QED
    BY <1>1, <1>2, <1>5, <2>1 DEF TrackingInv, OneRecordPerFile
<1>8. TrackingInv'
  BY <1>1, <1>6, <1>7, PurgeStep
<1>9. ASSUME NEW k \in DOMAIN seen PROVE \E o \in orphans' : o.key = k
  <2> DEFINE o == [name |-> seen[k].name, by |-> seen[k].by, key |-> k, file |-> file[k]]
  <2>1. o \in orphans' /\ o.key = k
    BY <1>2 DEF GroupRecords
  <2> QED
    BY <2>1
<1> QED
  BY <1>8, <1>9 DEF seen

LEMMA RematchStep ==
  ASSUME TrackingInv, NEW keep \in SUBSET Keys, Rematch(keep)
  PROVE  /\ TrackingInv'
         /\ \A k \in DOMAIN snapshot.seen :
              track'[k] = snapshot.seen[k] \/ \E o \in orphans' : o.key = k
<1> DEFINE seen == snapshot.seen
           unlinked == {x \in Names : row[x].here /\ row[x].parsed # None}
           back == {x \in unlinked : row[x].parsed \in keep}
           lost == unlinked \ back
           OfFile(x) == [name |-> x, by |-> "match", key |-> row[x].parsed, file |-> x]
           OfNumber(k) == [name |-> seen[k].name, by |-> seen[k].by, key |-> k, file |-> None]
           gone == (DOMAIN seen \ keep) \ {row[x].parsed : x \in lost}
<1>1. /\ Quiet /\ catalogue' = keep /\ snapshot' = NoSnapshot /\ snapshot.kind = "rematch"
      /\ track' = [k \in Keys |-> IF k \in keep \cap DOMAIN seen THEN seen[k] ELSE Untracked]
      /\ row' = [x \in Names |-> IF x \in back THEN [row[x] EXCEPT !.ep = row[x].parsed]
                                  ELSE Purged(x)]
      /\ orphans' = {OfFile(x) : x \in lost} \cup {OfNumber(k) : k \in gone}
      /\ loose' = loose \cup {x \in back : row[x].parsed \notin DOMAIN seen}
      /\ relink' = relink
  BY DEF Rematch, Records, requestVars
<1>2. DOMAIN seen \subseteq Keys /\ \A k \in DOMAIN seen : seen[k] \in Tracks \ {Untracked}
  BY <1>1 DEF TrackingInv, SnapshotIsTracked, NoSnapshot
<1>3. (\A u \in Users : RelinkIsFair(u)') /\ SnapshotIsTracked'
  BY <1>1, QuietIsFair DEF SnapshotIsTracked
<1>4. ASSUME NEW x \in unlinked
      PROVE  row[x] \in Row /\ row[x].parsed \in Keys /\ row[x].st # "none"
  <2>1. x \in Names /\ row[x] \in Row /\ row[x].here /\ row[x].parsed # None
    BY LinkedIsThere
  <2>2. row[x] # NoRow
    BY <2>1 DEF NoRow
  <2> QED
    BY <2>1, <2>2 DEF Row, TrackingInv, RowsAreMarked
<1>5. lost \subseteq unlinked /\ back \subseteq unlinked /\ lost \cap back = {}
  OBVIOUS
<1>6. unlinked \subseteq Names /\ (\A x \in back : row[x].parsed \in keep)
      /\ gone \subseteq DOMAIN seen
      /\ \A k \in DOMAIN seen \ keep : k \in gone \/ \E x \in lost : row[x].parsed = k
  OBVIOUS
<1> HIDE DEF seen, unlinked, back, lost, gone
<1>7. \A x \in lost : OfFile(x) \in Orphan
  BY <1>4, <1>5, <1>6 DEF Orphan
<1>8. \A k \in gone : OfNumber(k) \in Orphan
  BY <1>2, <1>6 DEF Orphan, Tracks
<1>9. (\A x \in lost : OfFile(x).file = x /\ OfFile(x).key = row[x].parsed)
      /\ \A k \in gone : OfNumber(k).file = None /\ OfNumber(k).key = k
  OBVIOUS
<1> HIDE DEF OfFile, OfNumber
<1>10. \A o \in orphans' : o.file # None => o.file \in lost /\ o = OfFile(o.file)
  BY <1>1, <1>9
<1>11. orphans' \subseteq Orphan /\ OneRecordPerFile'
  BY <1>1, <1>7, <1>8, <1>10 DEF OneRecordPerFile
<1>12. ASSUME NEW x \in Names
       PROVE  /\ row'[x] \in Row /\ row'[x].st = row[x].st
              /\ row'[x].ep # None => row'[x].ep \in keep /\ x \in back
                                        /\ row'[x].ep = row[x].parsed
              /\ row'[x] = NoRow \/ row'[x].st # "none"
              /\ x \in lost => row'[x] # NoRow /\ row'[x].ep = None
  <2>1. CASE x \in back
    <3> DEFINE new == [row[x] EXCEPT !.ep = row[x].parsed]
    <3>1. row'[x] = new
      BY <1>1, <2>1
    <3>2. new \in Row /\ new.ep = row[x].parsed /\ new.st = row[x].st
      BY <1>4, <1>5, <2>1 DEF Row
    <3> HIDE DEF new
    <3> QED
      BY <1>4, <1>5, <1>6, <2>1, <3>1, <3>2
  <2>2. CASE x \notin back
    <3>1. row'[x] = Purged(x)
      BY <1>1, <2>2
    <3> QED
      BY <1>4, <1>5, <2>2, <3>1, PurgedRow
  <2> QED
    BY <2>1, <2>2
<1>13. row' \in [Names -> Row]
  <2>1. row' = [x \in Names |-> row'[x]]
    BY <1>1
  <2> QED
    BY <1>12, <2>1
<1>14. track' \in [Keys -> Tracks] /\ \A k \in Keys \ keep : track'[k] = Untracked
  BY <1>1, <1>2, NoRowIsRow
<1>15. ASSUME NEW x \in Names \ loose', row'[x].st = "routed", row'[x].ep # None
       PROVE  track'[row'[x].ep] # Untracked
  <2>1. row'[x].ep \in keep /\ x \in back /\ row'[x].ep = row[x].parsed
    BY <1>12, <1>15
  <2>2. row'[x].ep \in DOMAIN seen
    BY <1>1, <1>15, <2>1
  <2> QED
    BY <1>1, <1>2, <2>1, <2>2
<1>16. \A o \in orphans' : o.file # None => row'[o.file] # NoRow /\ row'[o.file].ep = None
  BY <1>5, <1>6, <1>10, <1>12
<1>17. TrackingInv'
  BY <1>1, <1>3, <1>11, <1>12, <1>13, <1>14, <1>15, <1>16, RowsStep
<1>18. ASSUME NEW k \in DOMAIN seen, track'[k] # seen[k] PROVE \E o \in orphans' : o.key = k
  <2>1. k \notin keep
    BY <1>1, <1>2, <1>18
  <2>2. CASE k \in gone
    BY <1>1, <1>9, <2>2
  <2>3. CASE \E x \in lost : row[x].parsed = k
    BY <1>1, <1>9, <2>3
  <2> QED
    BY <1>6, <2>1, <2>2, <2>3
<1> QED
  BY <1>17, <1>18 DEF seen
-----------------------------------------------------------------------------
(* The theorems. *)

LEMMA TrackingStep == TrackingInv /\ [Next]_vars => TrackingInv'
<1> SUFFICES ASSUME TrackingInv, [Next]_vars PROVE TrackingInv'
  OBVIOUS
<1>1. CASE Pipeline
  BY <1>1, FillGapStep, RouteStep, ParseHitStep, ParseMissStep, PathImportStep, AnnounceStep
     DEF Pipeline
<1>2. CASE Relinks
  BY <1>2, CommitRelinkStep, RollBackStep, PatchStep DEF Relinks
<1>3. CASE Requests
  BY <1>3, ResetStep, ClearTrackingStep, LinkFileStep, AssignImportStep,
     DismissOrphanStep, ResolveOrphanStep DEF Requests
<1>4. CASE Replacements
  BY <1>4, TakeSnapshotStep, RematchStep, ForgettingStep, ApplyGroupStep DEF Replacements
<1>5. CASE UNCHANGED vars
  <2>1. (\A u \in Users : RelinkIsFair(u)') /\ SnapshotIsTracked'
    BY <1>5, RelinksStay, SnapshotStays DEF vars, requestVars, rematchVars
  <2>2. relink' \in [Users -> RelinkRecord]
    BY <1>5 DEF vars, requestVars, TrackingInv, Tables
  <2> QED
    BY <1>5, <2>1, <2>2, LinkedIsThere, TableStep DEF vars, requestVars, rematchVars
<1> QED
  BY <1>1, <1>2, <1>3, <1>4, <1>5 DEF Next

\* The invariant holds in every state of every behaviour.
THEOREM TrackingInvariant == Spec => []TrackingInv
<1> QED
  BY TrackingInitial, TrackingStep, PTL DEF Spec

\* The tables hold what their columns may hold, and an episode that a rematch or a
\* change of the grouping has removed is neither tracked nor linked.
THEOREM TrackingTyped == Spec => []TypeOK
<1>1. TrackingInv => TypeOK
  BY DEF TrackingInv, Tables, GoneIsFree, TypeOK, LinkedTo
<1> QED
  BY <1>1, TrackingInvariant, PTL

\* A record that refers to a file waits for its link, unless the gap fill or
\* assign-import has linked the file behind its back.
THEOREM OrphansWait == Spec => []OrphanIsUnlinkedUnlessFilled
<1>1. TrackingInv => OrphanIsUnlinkedUnlessFilled
  BY DEF TrackingInv
<1> QED
  BY <1>1, TrackingInvariant, PTL

\* The episode of a routed file is tracked, unless one of the three known races or
\* omissions took its tracking, which the history names.
THEOREM RoutedIsTracked == Spec => []RoutedIsTrackedUnlessLoose
<1>1. TrackingInv => RoutedIsTrackedUnlessLoose
  BY DEF TrackingInv
<1> QED
  BY <1>1, TrackingInvariant, PTL

\* A rematch or a change of the grouping restores or records every tracking that it
\* has read.
LEMMA ReplacementStep ==
  ASSUME TrackingInv, [Next]_vars, snapshot.kind \in {"rematch", "group"},
         snapshot' = NoSnapshot
  PROVE  \A k \in DOMAIN snapshot.seen :
           track'[k] = snapshot.seen[k] \/ \E o \in orphans' : o.key = k
<1>1. snapshot' # snapshot
  BY DEF NoSnapshot
<1>2. Replacements
  <2>1. snapshot' # snapshot => ~Pipeline
    BY DEF Pipeline, FillGap, Route, ParseHit, ParseMiss, PathImport, Announce, rematchVars
  <2>2. Relinks => snapshot' = snapshot
    <3>1. ASSUME NEW u, NEW f, NEW new, NEW mark, Begin(u, f, new, mark)
          PROVE  snapshot' = snapshot
      BY <3>1 DEF Begin, rematchVars
    <3>2. ASSUME NEW u, CommitRelink(u) \/ RollBack(u) PROVE snapshot' = snapshot
      BY <3>2 DEF CommitRelink, RollBack, rematchVars
    <3>3. ASSUME NEW u, NEW f, PatchNoEpisode(u, f) \/ PatchShow(u, f)
          PROVE  snapshot' = snapshot
      BY <3>1, <3>3 DEF PatchNoEpisode, PatchShow
    <3>4. ASSUME NEW u, NEW f, NEW k, PatchEpisode(u, f, k) \/ Match(u, f, k)
          PROVE  snapshot' = snapshot
      BY <3>1, <3>4 DEF PatchEpisode, Match
    <3> QED
      BY <3>2, <3>3, <3>4 DEF Relinks
  <2>3. Requests => snapshot' = snapshot
    BY DEF Requests, Request, Reset, ClearTracking, LinkFile, AssignImport, DismissOrphan,
       ResolveOrphan, rematchVars
  <2> QED
    BY <1>1, <2>1, <2>2, <2>3 DEF Next, vars, rematchVars
<1>3. CASE \E kind \in {"rematch", "forget", "group"} : TakeSnapshot(kind)
  BY <1>3 DEF TakeSnapshot, NoSnapshot
<1>4. CASE \E keep \in SUBSET Keys : Rematch(keep) \/ RematchForgetting(keep) \/ ApplyGroup(keep)
  <2>1. ~(\E keep \in SUBSET Keys : RematchForgetting(keep))
    BY DEF RematchForgetting
  <2> QED
    BY <1>4, <2>1, RematchStep, ApplyGroupStep
<1> QED
  BY <1>2, <1>3, <1>4 DEF Replacements

THEOREM ReplacementIsComplete == Spec => ReplacementKeepsTracking
<1>1. TrackingInv /\ [Next]_vars =>
        [snapshot.kind \in {"rematch", "group"} /\ snapshot' = NoSnapshot
           => \A k \in DOMAIN snapshot.seen :
                track'[k] = snapshot.seen[k] \/ \E o \in orphans' : o.key = k]_vars
  BY ReplacementStep
<1> QED
  BY <1>1, TrackingInvariant, PTL DEF Spec, ReplacementKeepsTracking
=============================================================================
