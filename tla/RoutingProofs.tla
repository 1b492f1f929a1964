--------------------------- MODULE RoutingProofs ---------------------------
(***************************************************************************)
(* Proofs about Routing, for any number of files, destinations, runs,      *)
(* losses and requests: the types hold without further ado; no file is     *)
(* lost or overwritten as long as no two moves share a place; a ROUTED row *)
(* names its own file, and a retry finds an unrecorded move, as long as    *)
(* one run works at a time.                                                *)
(***************************************************************************)
EXTENDS Routing, TLAPS

\* The overlap guard: at most one run works at a time.
OneAtATime ==
  \A r, q \in Runs : pc[r] # "idle" /\ pc[q] # "idle" => r = q

-----------------------------------------------------------------------------
(* The invariant of the types. *)

AtWork == {"marked", "move", "copy", "delete", "commit"}
Moving == {"move", "copy", "delete"}

RunTyped(r) ==
  /\ pc[r] \in AtWork => cur[r] \in DOMAIN view[r] /\ Known(r).slot \in Slots
  /\ pc[r] \in Moving => dest[r] \in Places
  /\ pc[r] = "commit" => outcome[r] \in {"routed", "error"}

TypeInv == TypeOK /\ \A r \in Runs : RunTyped(r)

-----------------------------------------------------------------------------
(* The invariant of runs that work one at a time. *)

Shelves == Slots \X (0..MaxSuffix)

\* What a run has loaded is as it was, and nobody else has routed it.
Fresh(r) ==
  /\ pc[r] = "idle" => view[r] = NoRows
  /\ outcome[r] = "routed" => pc[r] = "commit"
  /\ dest[r] # NoPlace => dest[r] \in Shelves
  /\ \A f \in DOMAIN view[r] : view[r][f].path = row[f].path /\ row[f].status # "routed"

\* The original is there until the copy is complete.
OriginalKept(r) ==
  LET src == row[cur[r]].path  d == dest[r] IN
  /\ pc[r] \in Moving => d \in Shelves /\ d # src /\ Exists(src)
  /\ pc[r] = "move" => ~Exists(d)
  /\ pc[r] = "copy" => \E c \in Files \cup {Foreign} : disk[d] = Partial(c)
  /\ pc[r] = "delete" => disk[d] = disk[src]

\* A staging place holds its file or nothing.
Staging ==
  \A f \in Files : /\ disk[Staged(f)] \in {Whole(f), Nothing}
                   /\ row[f].path = Staged(f) \/ row[f].path \in Shelves

\* No file is lost.
FilesKept == \A f \in Files : \E p \in Places : disk[p] = Whole(f)

\* A library file that the program does not know stays where it is.
ForeignKept ==
  \A s \in Occupied :
    /\ disk[Shelf(s, 0)] = Whole(Foreign)
    /\ \A f \in Files : row[f].path # Shelf(s, 0)
    /\ \A r \in Runs : dest[r] # Shelf(s, 0)

\* The run has moved f and will record it.
Moved(f) ==
  \E r \in Runs : /\ cur[r] = f /\ pc[r] = "commit" /\ outcome[r] = "routed"
                  /\ dest[r] # NoPlace /\ ~Exists(row[f].path)

\* A row that names a library place has its file there, or a run is about to record
\* where it is.
OwnPlaces ==
  \A f \in Files : row[f].path \in Shelves => disk[row[f].path] = Whole(f) \/ Moved(f)

\* What a run is about to record.
Recorded(r) ==
  pc[r] = "commit" /\ outcome[r] = "routed" =>
    IF dest[r] = NoPlace THEN disk[row[cur[r]].path] = Whole(cur[r])
    ELSE dest[r] \in Shelves /\ disk[dest[r]] = Whole(cur[r])

\* A forgotten move has left the file of its staging place in the library.
Strays ==
  \A f \in Files : stray[f] # NoPlace =>
    /\ row[f].path = Staged(f) /\ ~Exists(Staged(f))
    /\ stray[f] \in Shelves /\ disk[stray[f]] = Whole(f)

Settled ==
  /\ RoutedHoldsOwn /\ OwnPlaces /\ Strays
  /\ \A r \in Runs : Recorded(r)

RouteInv ==
  /\ \A r \in Runs : Fresh(r) /\ OriginalKept(r)
  /\ Staging /\ FilesKept
  /\ KnownSize = Files => ForeignKept /\ (~vacated => Settled)
-----------------------------------------------------------------------------
(* Places and contents. *)

LEMMA PlaceFacts ==
  /\ Shelves \subseteq Places
  /\ \A f \in Files : Staged(f) \in Places /\ Staged(f) \notin Shelves
  /\ \A f, g \in Files : Staged(f) = Staged(g) => f = g
  /\ \A s \in Slots, k \in 0..MaxSuffix : Shelf(s, k) \in Shelves
  /\ \A s \in Slots : Shelf(s, 0) \in Shelves
  /\ \A p \in Shelves : p[1] \in Slots
  /\ NoPlace \notin Places
<1>1. 0 \in 0..MaxSuffix
  BY RoutingConstants
<1> QED
  BY <1>1, RoutingConstants, RoutingMarkers DEF Shelves, Places, Staged, Shelf

LEMMA ContentFacts ==
  /\ Nothing \in Contents
  /\ \A c \in Files \cup {Foreign} :
       /\ Whole(c) \in Contents /\ Partial(c) \in Contents
       /\ Whole(c) # Nothing /\ Partial(c) # Nothing
  /\ \A c, d : Whole(c) # Partial(d) /\ (Whole(c) = Whole(d) => c = d)
  /\ \A x \in Contents : x # Nothing => x[1] \in Files \cup {Foreign}
  /\ \A f \in Files : Whole(f) # Whole(Foreign)
<1>1. ASSUME NEW c \in Files \cup {Foreign}
      PROVE  /\ Whole(c) \in Contents /\ Partial(c) \in Contents
             /\ Whole(c) # Nothing /\ Partial(c) # Nothing
  <2>1. /\ Whole(c) \in (Files \cup {Foreign}) \X BOOLEAN
        /\ Partial(c) \in (Files \cup {Foreign}) \X BOOLEAN
    BY DEF Whole, Partial
  <2> QED
    BY <2>1, RoutingMarkers DEF Contents
<1>0. Nothing \in Contents
  BY DEF Contents
<1>2. \A c, d : Whole(c) # Partial(d) /\ (Whole(c) = Whole(d) => c = d)
  BY DEF Whole, Partial
<1>3. \A x \in Contents : x # Nothing => x[1] \in Files \cup {Foreign}
  BY DEF Contents
<1>4. \A f \in Files : Whole(f) # Whole(Foreign)
  BY <1>2, RoutingConstants
<1> QED
  BY <1>0, <1>1, <1>2, <1>3, <1>4

\* What a run at work knows.
LEMMA KnownFacts ==
  ASSUME TypeInv, NEW r \in Runs, pc[r] \in AtWork
  PROVE  /\ cur[r] \in Files /\ cur[r] \in DOMAIN view[r]
         /\ Known(r) \in Rows /\ Known(r).slot \in Slots
         /\ Source(r) \in Places /\ Shelf(Known(r).slot, 0) \in Shelves
         /\ Shelf(Known(r).slot, 0) \in Places
         /\ disk[Source(r)] \in Contents
<1>1. PICK fs \in SUBSET Files : view[r] \in [fs -> Rows]
  BY DEF TypeInv, TypeOK, Loaded
<1>2. cur[r] \in fs /\ Known(r).slot \in Slots /\ DOMAIN view[r] = fs
  BY <1>1 DEF TypeInv, RunTyped
<1>3. Known(r) \in Rows /\ Source(r) \in Places
  BY <1>1, <1>2 DEF Known, Source, Rows
<1> QED
  BY <1>2, <1>3, PlaceFacts DEF TypeInv, TypeOK

\* What a run has loaded, with a row less.
LEMMA ViewLess ==
  ASSUME TypeInv, NEW r \in Runs, NEW f
  PROVE  [g \in DOMAIN view[r] \ {f} |-> view[r][g]] \in Loaded
<1>1. PICK fs \in SUBSET Files : view[r] \in [fs -> Rows]
  BY DEF TypeInv, TypeOK, Loaded
<1>2. [g \in DOMAIN view[r] \ {f} |-> view[r][g]] \in [fs \ {f} -> Rows]
  BY <1>1
<1> QED
  BY <1>2 DEF Loaded

LEMMA NoRowsTyped == NoRows \in Loaded
<1>1. NoRows \in [{} -> Rows]
  BY DEF NoRows
<1> QED
  BY <1>1 DEF Loaded

LEMMA StatusTyped ==
  ASSUME TypeInv, NEW f \in Files, NEW st \in FileStatus
  PROVE  /\ [row EXCEPT ![f].status = st] \in [Files -> Rows]
         /\ \A s \in Slots : [row EXCEPT ![f].status = st, ![f].slot = s] \in [Files -> Rows]
  BY DEF TypeInv, TypeOK, Rows

-----------------------------------------------------------------------------
(* The types. *)

\* A decision of a run.
LEMMA DecideTyped ==
  ASSUME TypeInv, NEW r \in Runs, pc[r] \in AtWork, NEW point \in AtWork,
         NEW what \in {"none", "routed", "error"}, NEW p \in Places \cup {NoPlace},
         Decide(r, point, what, p),
         point \in Moving => p \in Places, point = "commit" => what \in {"routed", "error"},
         disk' \in [Places -> Contents], row' = row, scan' = scan,
         stray' \in [Files -> Places \cup {NoPlace}], vacated' \in BOOLEAN,
         lost' \in 0..MaxLost, requests' = requests
  PROVE  TypeInv'
<1>1. /\ pc' = [pc EXCEPT ![r] = point] /\ outcome' = [outcome EXCEPT ![r] = what]
      /\ dest' = [dest EXCEPT ![r] = p] /\ view' = view /\ cur' = cur
  BY DEF Decide
<1>2. TypeOK'
  <2>1. pc' \in [Runs -> RunPoints] /\ outcome' \in [Runs -> {"none", "routed", "error"}]
        /\ dest' \in [Runs -> Places \cup {NoPlace}]
    BY <1>1 DEF TypeInv, TypeOK, RunPoints, AtWork
  <2> QED
    BY <1>1, <2>1 DEF TypeInv, TypeOK
<1>3. ASSUME NEW q \in Runs PROVE RunTyped(q)'
  <2>1. Known(q)' = Known(q)
    BY <1>1 DEF Known
  <2>2. CASE q = r
    BY <1>1, <2>1, <2>2 DEF TypeInv, TypeOK, RunTyped
  <2>3. CASE q # r
    BY <1>1, <2>1, <2>3 DEF TypeInv, TypeOK, RunTyped
  <2> QED
    BY <2>2, <2>3
<1> QED
  BY <1>2, <1>3 DEF TypeInv

LEMMA ForgetTyped ==
  ASSUME TypeInv, NEW r \in Runs, ForgetMove(r)
  PROVE  /\ stray' \in [Files -> Places \cup {NoPlace}] /\ vacated' \in BOOLEAN
         /\ lost' \in 0..MaxLost
<1>1. lost' \in 0..MaxLost
  BY RoutingConstants DEF ForgetMove, TypeInv, TypeOK
<1>2. stray' \in [Files -> Places \cup {NoPlace}] /\ vacated' \in BOOLEAN
  BY DEF ForgetMove, TypeInv, TypeOK
<1> QED
  BY <1>1, <1>2

LEMMA AdvanceTyped ==
  ASSUME TypeInv, NEW r \in Runs, Advance(r) \/ TrackFail(r), ~CommitFile(r)
  PROVE  TypeInv'
<1>0. /\ stray \in [Files -> Places \cup {NoPlace}] /\ vacated \in BOOLEAN
      /\ lost \in 0..MaxLost /\ disk \in [Places -> Contents]
  BY DEF TypeInv, TypeOK
<1>1. CASE CompletePriorMove(r)
  <2> DEFINE home == Shelf(Known(r).slot, 0)
  <2>1. pc[r] \in AtWork /\ UNCHANGED <<row, disk, scan, stray, vacated, lost, requests>>
    BY <1>1 DEF CompletePriorMove, AtWork
  <2>2. home \in Places
    BY <2>1, KnownFacts
  <2>3. Decide(r, "commit", "routed", home) \/ Decide(r, "commit", "error", NoPlace)
    BY <1>1 DEF CompletePriorMove
  <2> HIDE DEF home
  <2> QED
    BY <1>0, <2>1, <2>2, <2>3, DecideTyped DEF AtWork, Moving
<1>2. CASE PlaceFile(r)
  <2>1. pc[r] \in AtWork /\ UNCHANGED <<row, disk, scan, stray, vacated, lost, requests>>
    BY <1>2 DEF PlaceFile, AtWork
  <2>2. CASE Decide(r, "commit", "error", NoPlace)
    BY <1>0, <2>1, <2>2, DecideTyped DEF AtWork, Moving
  <2>3. CASE \E p \in UniqueDestination(Known(r).slot, Source(r)) :
               IF p = Source(r) THEN Decide(r, "commit", "routed", NoPlace)
                                ELSE Decide(r, "move", "none", p)
    <3>1. PICK p \in UniqueDestination(Known(r).slot, Source(r)) :
            Decide(r, "commit", "routed", NoPlace) \/ Decide(r, "move", "none", p)
      BY <2>3
    <3>2. p \in Places
      BY <2>1, KnownFacts, PlaceFacts DEF UniqueDestination, FreeSuffix
    <3> QED
      BY <1>0, <2>1, <3>1, <3>2, DecideTyped DEF AtWork, Moving
  <2> QED
    BY <1>2, <2>2, <2>3 DEF PlaceFile
<1>3. CASE Rename(r) \/ CopyBegin(r) \/ CopyEnd(r) \/ DeleteSource(r)
  <2>1. /\ pc[r] \in Moving /\ Exists(Source(r))
        /\ UNCHANGED <<row, scan, stray, vacated, lost, requests>>
    BY <1>3 DEF Rename, CopyBegin, CopyEnd, DeleteSource, Moving
  <2>2. pc[r] \in AtWork /\ dest[r] \in Places /\ dest[r] \in Places \cup {NoPlace}
    BY <2>1 DEF Moving, AtWork, TypeInv, RunTyped
  <2>3. Source(r) \in Places /\ disk[Source(r)] \in Contents /\ disk[Source(r)] # Nothing
    BY <2>1, <2>2, KnownFacts DEF Exists
  <2>4. disk' \in [Places -> Contents]
    <3>1. Nothing \in Contents /\ Partial(disk[Source(r)][1]) \in Contents
      BY <2>3, ContentFacts
    <3>2. CASE Rename(r)
      BY <1>0, <2>3, <3>1, <3>2 DEF Rename
    <3>3. CASE CopyBegin(r)
      BY <1>0, <3>1, <3>3 DEF CopyBegin
    <3>4. CASE CopyEnd(r)
      BY <1>0, <2>3, <3>4 DEF CopyEnd
    <3>5. CASE DeleteSource(r)
      BY <1>0, <3>1, <3>5 DEF DeleteSource
    <3> QED
      BY <1>3, <3>2, <3>3, <3>4, <3>5
  <2>5. \/ Decide(r, "commit", "routed", dest[r])
        \/ \E point \in {"copy", "delete"} : Decide(r, point, "none", dest[r])
    BY <1>3 DEF Rename, CopyBegin, CopyEnd, DeleteSource
  <2> QED
    BY <1>0, <2>1, <2>2, <2>4, <2>5, DecideTyped DEF AtWork, Moving
<1>4. CASE MoveFail(r)
  <2>1. /\ pc[r] \in AtWork /\ Decide(r, "commit", "error", NoPlace)
        /\ UNCHANGED <<row, disk, scan, stray, vacated, lost, requests>>
    BY <1>4 DEF MoveFail, AtWork
  <2> QED
    BY <1>0, <2>1, DecideTyped DEF AtWork, Moving
<1>5. CASE TrackFail(r)
  <2>1. /\ pc[r] \in AtWork /\ Decide(r, "commit", "error", NoPlace) /\ ForgetMove(r)
        /\ UNCHANGED <<row, disk, scan, requests>>
    BY <1>5 DEF TrackFail, AtWork
  <2> QED
    BY <1>0, <2>1, DecideTyped, ForgetTyped DEF AtWork, Moving
<1> QED
  BY <1>1, <1>2, <1>3, <1>4, <1>5 DEF Advance

\* A run that begins, goes on to the next file, or ends.
LEMMA RunTypes ==
  ASSUME TypeInv, NEW r \in Runs,
         StartRun(r) \/ EndRun(r) \/ Lose(r) \/ CommitFile(r)
           \/ \E f \in Files : SkipFile(r, f) \/ MarkFile(r, f)
  PROVE  TypeInv'
<1> DEFINE Same == \A q \in Runs : q # r => /\ pc'[q] = pc[q] /\ view'[q] = view[q]
                                           /\ cur'[q] = cur[q] /\ dest'[q] = dest[q]
                                           /\ outcome'[q] = outcome[q]
<1>0. ASSUME TypeOK', Same, RunTyped(r)' PROVE TypeInv'
  <2>1. ASSUME NEW q \in Runs, q # r PROVE RunTyped(q)'
    BY <1>0, <2>1 DEF TypeInv, RunTyped, Known
  <2> QED
    BY <1>0, <2>1 DEF TypeInv
<1>1. CASE StartRun(r)
  <2> DEFINE v == [f \in {g \in Files : Routable(g)} |-> row[f]]
  <2>1. /\ view' = [view EXCEPT ![r] = v] /\ pc' = [pc EXCEPT ![r] = "next"]
        /\ UNCHANGED <<row, disk, cur, dest, outcome, scan, stray, vacated, lost, requests>>
    BY <1>1 DEF StartRun
  <2>2. v \in [{g \in Files : Routable(g)} -> Rows]
    BY DEF TypeInv, TypeOK
  <2>3. v \in Loaded
    BY <2>2 DEF Loaded
  <2> HIDE DEF v
  <2>4. view' \in [Runs -> Loaded]
    BY <2>1, <2>3 DEF TypeInv, TypeOK
  <2>5. TypeOK' /\ RunTyped(r)'
    BY <2>1, <2>4 DEF TypeInv, TypeOK, RunPoints, RunTyped, AtWork, Moving
  <2> QED
    BY <1>0, <2>1, <2>5
<1>2. CASE EndRun(r)
  <2>1. /\ view' = [view EXCEPT ![r] = NoRows] /\ pc' = [pc EXCEPT ![r] = "idle"]
        /\ UNCHANGED <<row, disk, cur, dest, outcome, scan, stray, vacated, lost, requests>>
    BY <1>2 DEF EndRun
  <2>2. view' \in [Runs -> Loaded]
    BY <2>1, NoRowsTyped DEF TypeInv, TypeOK
  <2>3. TypeOK' /\ RunTyped(r)'
    BY <2>1, <2>2 DEF TypeInv, TypeOK, RunPoints, RunTyped, AtWork, Moving
  <2> QED
    BY <1>0, <2>1, <2>3
<1>3. CASE Lose(r)
  <2>1. /\ view' = [view EXCEPT ![r] = NoRows] /\ pc' = [pc EXCEPT ![r] = "idle"]
        /\ cur' = [cur EXCEPT ![r] = NoFile] /\ dest' = [dest EXCEPT ![r] = NoPlace]
        /\ outcome' = [outcome EXCEPT ![r] = "none"] /\ ForgetMove(r)
        /\ UNCHANGED <<row, disk, scan, requests>>
    BY <1>3 DEF Lose
  <2>2. view' \in [Runs -> Loaded]
    BY <2>1, NoRowsTyped DEF TypeInv, TypeOK
  <2>3. TypeOK' /\ RunTyped(r)'
    BY <2>1, <2>2, ForgetTyped DEF TypeInv, TypeOK, RunPoints, RunTyped, AtWork, Moving
  <2> QED
    BY <1>0, <2>1, <2>3
<1>4. CASE CommitFile(r)
  <2> DEFINE f == cur[r]
             row2 == [status |-> outcome[r], path |-> NewPath(r), slot |-> row[f].slot]
  <2>1. /\ pc[r] = "commit" /\ row' = [row EXCEPT ![f] = row2]
        /\ stray' = IF outcome[r] = "routed" THEN [stray EXCEPT ![f] = NoPlace] ELSE stray
        /\ pc' = [pc EXCEPT ![r] = "next"] /\ view' = [view EXCEPT ![r] = WithoutCur(r)]
        /\ cur' = [cur EXCEPT ![r] = NoFile] /\ dest' = [dest EXCEPT ![r] = NoPlace]
        /\ outcome' = [outcome EXCEPT ![r] = "none"]
        /\ UNCHANGED <<disk, scan, vacated, lost, requests>>
    BY <1>4 DEF CommitFile
  <2>2. f \in Files /\ row[f] \in Rows /\ outcome[r] \in {"routed", "error"}
    BY <2>1, KnownFacts DEF AtWork, TypeInv, TypeOK, RunTyped
  <2>3. row2 \in Rows
    BY <2>2 DEF Rows, NewPath, FileStatus, TypeInv, TypeOK
  <2> HIDE DEF row2
  <2>4. view' \in [Runs -> Loaded]
    BY <2>1, ViewLess DEF TypeInv, TypeOK, WithoutCur
  <2>5. row' \in [Files -> Rows] /\ stray' \in [Files -> Places \cup {NoPlace}]
    BY <2>1, <2>3 DEF TypeInv, TypeOK
  <2>6. TypeOK' /\ RunTyped(r)'
    BY <2>1, <2>4, <2>5 DEF TypeInv, TypeOK, RunPoints, RunTyped, AtWork, Moving
  <2> QED
    BY <1>0, <2>1, <2>6
<1>5. ASSUME NEW f \in Files, SkipFile(r, f) PROVE TypeInv'
  <2>1. /\ pc[r] = "next" /\ row' = [row EXCEPT ![f].status = "error"]
        /\ view' = [view EXCEPT ![r] = [g \in DOMAIN view[r] \ {f} |-> view[r][g]]]
        /\ UNCHANGED <<disk, pc, cur, dest, outcome, scan, stray, vacated, lost, requests>>
    BY <1>5 DEF SkipFile
  <2>2. row' \in [Files -> Rows]
    BY <2>1, StatusTyped DEF TypeInv, TypeOK, FileStatus
  <2>3. view' \in [Runs -> Loaded]
    BY <2>1, ViewLess DEF TypeInv, TypeOK
  <2>4. TypeOK' /\ RunTyped(r)'
    BY <2>1, <2>2, <2>3 DEF TypeInv, TypeOK, RunTyped, AtWork, Moving
  <2> QED
    BY <1>0, <2>1, <2>4
<1>6. ASSUME NEW f \in Files, MarkFile(r, f) PROVE TypeInv'
  <2>1. /\ pc[r] = "next" /\ f \in DOMAIN view[r] /\ view[r][f].slot # NoSlot
        /\ row' = IF view[r][f].status = "routing" THEN row
                  ELSE [row EXCEPT ![f].status = "routing"]
        /\ cur' = [cur EXCEPT ![r] = f] /\ pc' = [pc EXCEPT ![r] = "marked"]
        /\ UNCHANGED <<disk, view, dest, outcome, scan, stray, vacated, lost, requests>>
    BY <1>6 DEF MarkFile
  <2>2. row' \in [Files -> Rows]
    BY <2>1, StatusTyped DEF TypeInv, TypeOK, FileStatus
  <2>3. view[r][f].slot \in Slots
    <3>1. PICK fs \in SUBSET Files : view[r] \in [fs -> Rows]
      BY DEF TypeInv, TypeOK, Loaded
    <3> QED
      BY <2>1, <3>1 DEF Rows
  <2>4. TypeOK' /\ RunTyped(r)'
    BY <2>1, <2>2, <2>3 DEF TypeInv, TypeOK, RunTyped, AtWork, Moving, RunPoints, Known
  <2> QED
    BY <1>0, <2>1, <2>4
<1> QED
  BY <1>1, <1>2, <1>3, <1>4, <1>5, <1>6

\* Users.
LEMMA UserTypes ==
  ASSUME TypeInv, NEW f \in Files,
         (\E s \in Slots : MatchFile(f, s)) \/ ScanRead(f) \/ ScanWrite(f)
  PROVE  TypeInv'
<1>1. UNCHANGED <<disk, pc, view, cur, dest, outcome, stray, vacated, lost>>
  BY DEF MatchFile, ScanRead, ScanWrite, runVars
<1>2. requests' \in 0..MaxRequests
  BY RoutingConstants DEF TypeInv, TypeOK, MatchFile, ScanRead, ScanWrite
<1>3. row' \in [Files -> Rows]
  <2>1. CASE \E s \in Slots : MatchFile(f, s)
    <3>1. PICK s \in Slots : row' = [row EXCEPT ![f].status = "matched", ![f].slot = s]
      BY <2>1 DEF MatchFile
    <3>2. "matched" \in FileStatus
      BY DEF FileStatus
    <3> QED
      BY <3>1, <3>2, StatusTyped
  <2>2. CASE ScanRead(f)
    BY <2>2 DEF ScanRead, TypeInv, TypeOK
  <2>3. CASE ScanWrite(f)
    BY <2>3, StatusTyped DEF ScanWrite, FileStatus, TypeInv, TypeOK
  <2> QED
    BY <2>1, <2>2, <2>3
<1>4. scan' \in [Files -> Rows \cup {Nothing}]
  BY DEF TypeInv, TypeOK, MatchFile, ScanRead, ScanWrite
<1>5. ASSUME NEW r \in Runs PROVE RunTyped(r)'
  BY <1>1 DEF TypeInv, RunTyped, Known
<1> QED
  BY <1>1, <1>2, <1>3, <1>4, <1>5 DEF TypeInv, TypeOK

LEMMA TypesKept == TypeInv /\ [Next]_vars => TypeInv'
<1> SUFFICES ASSUME TypeInv, [Next]_vars PROVE TypeInv'
  OBVIOUS
<1>1. ASSUME NEW r \in Runs,
             StartRun(r) \/ Advance(r) \/ EndRun(r) \/ TrackFail(r) \/ Lose(r)
      PROVE  TypeInv'
  BY <1>1, AdvanceTyped, RunTypes DEF Advance
<1>2. ASSUME NEW r \in Runs, NEW f \in Files, SkipFile(r, f) \/ MarkFile(r, f)
      PROVE  TypeInv'
  BY <1>2, RunTypes
<1>3. ASSUME NEW f \in Files, NEW s \in Slots, MatchFile(f, s) PROVE TypeInv'
  BY <1>3, UserTypes
<1>4. ASSUME NEW f \in Files, ScanRead(f) \/ ScanWrite(f) PROVE TypeInv'
  BY <1>4, UserTypes
<1>5. CASE UNCHANGED vars
  BY <1>5 DEF vars, runVars, TypeInv, TypeOK, RunTyped, Known
<1> QED
  BY <1>1, <1>2, <1>3, <1>4, <1>5 DEF Next

LEMMA TypesInitial == Init => TypeInv
<1> SUFFICES ASSUME Init PROVE TypeInv
  OBVIOUS
<1>1. row \in [Files -> Rows]
  BY RoutingConstants, PlaceFacts DEF Init, Rows, FileStatus
<1>2. disk \in [Places -> Contents]
  <2>1. \A p \in Places : p[1] \in Files => Whole(p[1]) \in Contents
    BY ContentFacts
  <2> QED
    BY <2>1, ContentFacts DEF Init
<1>3. view \in [Runs -> Loaded]
  BY NoRowsTyped DEF Init
<1>4. lost \in 0..MaxLost /\ requests \in 0..MaxRequests
  BY RoutingConstants DEF Init
<1> QED
  BY <1>1, <1>2, <1>3, <1>4 DEF Init, TypeInv, TypeOK, RunTyped, AtWork, Moving, RunPoints
-----------------------------------------------------------------------------
(* Runs one at a time. *)

LEMMA Alone ==
  ASSUME OneAtATime, NEW r \in Runs, pc[r] # "idle", NEW q \in Runs, q # r
  PROVE  pc[q] = "idle"
  BY DEF OneAtATime

LEMMA IdleRun ==
  ASSUME TypeInv, RouteInv, NEW q \in Runs, pc[q] = "idle"
  PROVE  view[q] = NoRows /\ DOMAIN view[q] = {} /\ outcome[q] # "routed"
  BY DEF RouteInv, Fresh, NoRows

\* What a run knows of its file is still so.
LEMMA SourceFacts ==
  ASSUME TypeInv, RouteInv, NEW r \in Runs, pc[r] \in AtWork
  PROVE  /\ cur[r] \in Files /\ Source(r) = row[cur[r]].path
         /\ row[cur[r]].status # "routed" /\ Source(r) \in Places
         /\ Source(r) = Staged(cur[r]) \/ Source(r) \in Shelves
         /\ Shelf(Known(r).slot, 0) \in Shelves
  BY KnownFacts DEF RouteInv, Fresh, Staging, Source, Known

\* Only the run at work can have moved a file.
LEMMA MovedByRun ==
  ASSUME OneAtATime, NEW r \in Runs, pc[r] # "idle", NEW f, Moved(f)
  PROVE  cur[r] = f /\ pc[r] = "commit" /\ outcome[r] = "routed" /\ dest[r] # NoPlace
         /\ ~Exists(row[f].path)
<1>1. PICK q \in Runs : /\ cur[q] = f /\ pc[q] = "commit" /\ outcome[q] = "routed"
                        /\ dest[q] # NoPlace /\ ~Exists(row[f].path)
  BY DEF Moved
<1>2. q = r
  BY <1>1 DEF OneAtATime
<1> QED
  BY <1>1, <1>2

\* A file that is at the path of its row, and that no run has moved, is whole.
LEMMA SourceIsOwn ==
  ASSUME TypeInv, RouteInv, KnownSize = Files, ~vacated, NEW f \in Files,
         Exists(row[f].path), ~Moved(f)
  PROVE  disk[row[f].path] = Whole(f)
  BY DEF RouteInv, Staging, Settled, OwnPlaces, Exists

\* Steps that leave the disk and the paths of the rows alone.
LEMMA QuietKeeps ==
  ASSUME TypeInv, RouteInv, disk' = disk,
         \A f \in Files : /\ row'[f].path = row[f].path
                          /\ row'[f].status = "routed" => row[f].status = "routed",
         ~vacated' => ~vacated,
         KnownSize = Files /\ ~vacated' => Strays',
         \A q \in Runs : Fresh(q)' /\ OriginalKept(q)',
         \A q \in Runs : KnownSize = Files /\ ~vacated' => Recorded(q)',
         \A q \in Runs, s \in Occupied : KnownSize = Files => dest'[q] # Shelf(s, 0),
         \A f \in Files : ~vacated' /\ row[f].path \in Shelves /\ Moved(f) => Moved(f)'
  PROVE  RouteInv'
<1>1. Staging' /\ FilesKept'
  BY DEF RouteInv, Staging, FilesKept
<1>2. KnownSize = Files => ForeignKept'
  BY DEF RouteInv, ForeignKept
<1>3. ASSUME KnownSize = Files, ~vacated' PROVE Settled'
  <2>1. Settled
    BY <1>3 DEF RouteInv
  <2>2. RoutedHoldsOwn'
    BY <2>1 DEF Settled, RoutedHoldsOwn
  <2>3. OwnPlaces'
    BY <1>3, <2>1 DEF Settled, OwnPlaces
  <2> QED
    BY <1>3, <2>2, <2>3 DEF Settled
<1> QED
  BY <1>1, <1>2, <1>3 DEF RouteInv

\* Users change neither paths nor files.
LEMMA UserKeeps ==
  ASSUME TypeInv, RouteInv, UNCHANGED <<disk, pc, view, cur, dest, outcome, vacated, stray>>,
         \A f \in Files : /\ row'[f].path = row[f].path
                          /\ row'[f].status = "routed" => row[f].status = "routed"
  PROVE  RouteInv'
<1>1. ASSUME NEW q \in Runs PROVE Fresh(q)' /\ OriginalKept(q)'
  <2>1. Fresh(q) /\ OriginalKept(q) /\ DOMAIN view[q] \subseteq Files
    BY DEF RouteInv, TypeInv, TypeOK, Loaded
  <2>2. Fresh(q)'
    BY <2>1 DEF Fresh
  <2>3. pc[q] \in AtWork => cur[q] \in Files
    BY KnownFacts
  <2>4. OriginalKept(q)'
    BY <2>1, <2>3 DEF OriginalKept, AtWork, Moving, Exists
  <2> QED
    BY <2>2, <2>4
<1>2. ASSUME NEW q \in Runs, KnownSize = Files, ~vacated' PROVE Recorded(q)'
  <2>1. Recorded(q) /\ (pc[q] = "commit" => cur[q] \in Files)
    BY <1>2, KnownFacts DEF RouteInv, Settled, AtWork
  <2> QED
    BY <2>1 DEF Recorded
<1>3. KnownSize = Files /\ ~vacated' => Strays'
  BY DEF RouteInv, Settled, Strays, Exists
<1>4. \A q \in Runs, s \in Occupied : KnownSize = Files => dest'[q] # Shelf(s, 0)
  BY DEF RouteInv, ForeignKept
<1>5. \A f \in Files : Moved(f) => Moved(f)'
  BY DEF Moved, Exists
<1> QED
  BY <1>1, <1>2, <1>3, <1>4, <1>5, QuietKeeps

LEMMA UserStep ==
  ASSUME TypeInv, RouteInv, NEW f \in Files,
         (\E s \in Slots : MatchFile(f, s)) \/ ScanRead(f) \/ ScanWrite(f)
  PROVE  RouteInv'
<1>1. UNCHANGED <<disk, pc, view, cur, dest, outcome, vacated, stray>>
  BY DEF MatchFile, ScanRead, ScanWrite, runVars
<1>2. \A g \in Files : row[g] \in Rows
  BY DEF TypeInv, TypeOK
<1>3. ASSUME NEW st \in {"matched", "missing"}, row' = [row EXCEPT ![f].status = st]
      PROVE  RouteInv'
  <2>1. \A g \in Files : /\ row'[g].path = row[g].path
                         /\ row'[g].status = "routed" => row[g].status = "routed"
    BY <1>2, <1>3 DEF Rows, TypeInv, TypeOK
  <2> QED
    BY <1>1, <2>1, UserKeeps
<1>4. CASE row' = row
  BY <1>1, <1>4, UserKeeps
<1>5. ASSUME NEW s \in Slots, MatchFile(f, s) PROVE RouteInv'
  <2>1. row' = [row EXCEPT ![f].status = "matched", ![f].slot = s]
    BY <1>5 DEF MatchFile
  <2>2. \A g \in Files : /\ row'[g].path = row[g].path
                         /\ row'[g].status = "routed" => row[g].status = "routed"
    BY <1>2, <2>1 DEF Rows, TypeInv, TypeOK
  <2> QED
    BY <1>1, <2>2, UserKeeps
<1> QED
  BY <1>3, <1>4, <1>5 DEF ScanRead, ScanWrite

\* The move of a run is forgotten.
LEMMA Forgotten ==
  ASSUME TypeInv, RouteInv, OneAtATime, NEW r \in Runs, pc[r] # "idle", ForgetMove(r),
         row' = row, disk' = disk
  PROVE  /\ ~vacated' => ~vacated
         /\ KnownSize = Files /\ ~vacated' => Strays'
         /\ \A f \in Files : ~vacated' /\ row[f].path \in Shelves => ~Moved(f)
<1>1. CASE ~MovedAway(r)
  <2>1. stray' = stray /\ vacated' = vacated
    BY <1>1 DEF ForgetMove
  <2>2. KnownSize = Files /\ ~vacated' => Strays'
    BY <2>1 DEF RouteInv, Settled, Strays, Exists
  <2>3. ASSUME NEW f \in Files, Moved(f) PROVE FALSE
    <3>1. cur[r] = f /\ pc[r] = "commit" /\ outcome[r] = "routed" /\ dest[r] # NoPlace
          /\ ~Exists(row[f].path)
      BY <2>3, MovedByRun
    <3> QED
      BY <1>1, <3>1, SourceFacts DEF MovedAway, AtWork
  <2> QED
    BY <2>1, <2>2, <2>3
<1>2. CASE MovedAway(r)
  <2> DEFINE f == cur[r]
  <2>1. /\ stray' = [stray EXCEPT ![f] = dest[r]]
        /\ vacated' = (vacated \/ Source(r)[1] \in Slots)
    BY <1>2 DEF ForgetMove
  <2>2. outcome[r] = "routed" /\ dest[r] # NoPlace /\ ~Exists(Source(r)) /\ pc[r] = "commit"
    BY <1>2 DEF MovedAway, RouteInv, Fresh
  <2>3. f \in Files /\ Source(r) = row[f].path /\ (Source(r) = Staged(f) \/ Source(r) \in Shelves)
    BY <2>2, SourceFacts DEF AtWork
  <2>4. ~vacated' => ~vacated /\ Source(r) = Staged(f)
    BY <2>1, <2>3, PlaceFacts DEF TypeInv, TypeOK
  <2>5. ASSUME KnownSize = Files, ~vacated' PROVE Strays'
    <3>1. dest[r] \in Shelves /\ disk[dest[r]] = Whole(f)
      BY <2>2, <2>4, <2>5 DEF RouteInv, Settled, Recorded
    <3>2. Strays
      BY <2>4, <2>5 DEF RouteInv, Settled
    <3>3. \A g \in Files : stray'[g] = IF g = f THEN dest[r] ELSE stray[g]
      BY <2>1 DEF TypeInv, TypeOK
    <3> QED
      BY <2>2, <2>3, <2>4, <2>5, <3>1, <3>2, <3>3 DEF Strays, Exists
  <2>6. ASSUME NEW g \in Files, Moved(g), ~vacated' PROVE row[g].path \notin Shelves
    <3>1. g = f
      BY <2>2, <2>6, MovedByRun
    <3> QED
      BY <2>3, <2>4, <2>6, <3>1, PlaceFacts
  <2> QED
    BY <2>4, <2>5, <2>6
<1> QED
  BY <1>1, <1>2
\* A run that does not work has nothing to keep.
LEMMA IdleRest ==
  ASSUME TypeInv, RouteInv, NEW q \in Runs, pc[q] = "idle",
         pc'[q] = pc[q], view'[q] = view[q], dest'[q] = dest[q], outcome'[q] = outcome[q]
  PROVE  Fresh(q)' /\ OriginalKept(q)' /\ Recorded(q)'
<1>1. DOMAIN view[q] = {} /\ view[q] = NoRows /\ outcome[q] # "routed"
  BY IdleRun
<1>2. Fresh(q)'
  BY <1>1 DEF Fresh, RouteInv
<1>3. OriginalKept(q)'
  BY DEF OriginalKept, Moving
<1>4. Recorded(q)'
  BY DEF Recorded
<1> QED
  BY <1>2, <1>3, <1>4

\* No run has moved a file while the only run at work has not decided.
LEMMA NothingMoved ==
  ASSUME OneAtATime, NEW r \in Runs, pc[r] # "idle", pc[r] # "commit", NEW f
  PROVE  ~Moved(f)
  BY MovedByRun

\* A decision that leaves the disk and the rows alone.
LEMMA DecideKeeps ==
  ASSUME TypeInv, RouteInv, OneAtATime, NEW r \in Runs, pc[r] \in AtWork,
         NEW point \in {"move", "commit"}, NEW what \in {"none", "routed", "error"},
         NEW p \in Shelves \cup {NoPlace}, Decide(r, point, what, p),
         row' = row, disk' = disk, ~vacated' => ~vacated,
         what = "routed" => point = "commit",
         point = "move" => p \in Shelves /\ p # Source(r) /\ Exists(Source(r)) /\ ~Exists(p),
         KnownSize = Files => \A s \in Occupied : p # Shelf(s, 0),
         KnownSize = Files /\ ~vacated' => Strays' /\ Recorded(r)',
         \A f \in Files : ~vacated' /\ row[f].path \in Shelves => ~Moved(f)
  PROVE  RouteInv'
<1>1. /\ pc'[r] = point /\ outcome'[r] = what /\ dest'[r] = p /\ view' = view /\ cur' = cur
      /\ \A q \in Runs : q # r => pc'[q] = pc[q] /\ outcome'[q] = outcome[q] /\ dest'[q] = dest[q]
  BY DEF Decide, TypeInv, TypeOK
<1>2. ASSUME NEW q \in Runs, q # r PROVE Fresh(q)' /\ OriginalKept(q)' /\ Recorded(q)'
  BY <1>1, <1>2, Alone, IdleRest DEF AtWork
<1>3. Fresh(r)'
  BY <1>1 DEF Fresh, RouteInv, AtWork
<1>4. OriginalKept(r)'
  <2>1. Source(r) = row[cur[r]].path
    BY SourceFacts
  <2> QED
    BY <1>1, <2>1 DEF OriginalKept, Moving, Exists
<1>5. \A q \in Runs, s \in Occupied : KnownSize = Files => dest'[q] # Shelf(s, 0)
  BY <1>1 DEF RouteInv, ForeignKept
<1>6. \A f \in Files : /\ row'[f].path = row[f].path
                       /\ row'[f].status = "routed" => row[f].status = "routed"
  OBVIOUS
<1>7. \A q \in Runs : Fresh(q)' /\ OriginalKept(q)'
  BY <1>2, <1>3, <1>4
<1>8. \A q \in Runs : KnownSize = Files /\ ~vacated' => Recorded(q)'
  BY <1>2
<1> QED
  BY <1>5, <1>6, <1>7, <1>8, QuietKeeps

LEMMA StraysRest ==
  ASSUME RouteInv, row' = row, disk' = disk, stray' = stray, vacated' = vacated
  PROVE  KnownSize = Files /\ ~vacated' => Strays'
  BY DEF RouteInv, Settled, Strays, Exists

LEMMA DecisionSteps ==
  ASSUME TypeInv, RouteInv, OneAtATime, NEW r \in Runs,
         CompletePriorMove(r) \/ PlaceFile(r) \/ MoveFail(r) \/ TrackFail(r)
  PROVE  RouteInv'
<1>1. CASE CompletePriorMove(r)
  <2> DEFINE home == Shelf(Known(r).slot, 0)
  <2>1. pc[r] = "marked" /\ LooksMoved(r) /\ UNCHANGED <<row, disk, stray, vacated>>
    BY <1>1 DEF CompletePriorMove
  <2>2. cur[r] \in Files /\ home \in Shelves
    BY <2>1, SourceFacts DEF AtWork
  <2>3. \A f \in Files : ~Moved(f)
    BY <2>1, NothingMoved
  <2>4. \/ SizeMatches(cur[r], home) /\ Decide(r, "commit", "routed", home)
        \/ Decide(r, "commit", "error", NoPlace)
    BY <1>1 DEF CompletePriorMove
  <2> HIDE DEF home
  <2>5. CASE SizeMatches(cur[r], home) /\ Decide(r, "commit", "routed", home)
    <3>1. KnownSize = Files => disk[home] = Whole(cur[r])
      BY <2>2, <2>5 DEF SizeMatches
    <3>2. KnownSize = Files => \A s \in Occupied : home # Shelf(s, 0)
      BY <2>2, <3>1, ContentFacts DEF RouteInv, ForeignKept
    <3>3. KnownSize = Files => Recorded(r)'
      BY <2>1, <2>2, <2>5, <3>1, PlaceFacts DEF Recorded, Decide, TypeInv, TypeOK
    <3> QED
      BY <2>1, <2>2, <2>3, <2>5, <3>2, <3>3, DecideKeeps, StraysRest DEF AtWork
  <2>6. CASE Decide(r, "commit", "error", NoPlace)
    <3>1. Recorded(r)'
      BY <2>6 DEF Recorded, Decide, TypeInv, TypeOK
    <3>2. \A s \in Occupied : NoPlace # Shelf(s, 0)
      BY PlaceFacts, RoutingConstants
    <3> QED
      BY <2>1, <2>3, <2>6, <3>1, <3>2, DecideKeeps, StraysRest DEF AtWork
  <2> QED
    BY <2>4, <2>5, <2>6
<1>2. CASE PlaceFile(r)
  <2>1. pc[r] = "marked" /\ UNCHANGED <<row, disk, stray, vacated>>
    BY <1>2 DEF PlaceFile
  <2>2. cur[r] \in Files /\ Source(r) = row[cur[r]].path /\ Known(r).slot \in Slots
    BY <2>1, SourceFacts, KnownFacts DEF AtWork
  <2>3. \A f \in Files : ~Moved(f)
    BY <2>1, NothingMoved
  <2>4. \A s \in Occupied : NoPlace # Shelf(s, 0)
    BY PlaceFacts, RoutingConstants
  <2>5. CASE Decide(r, "commit", "error", NoPlace)
    <3>1. Recorded(r)'
      BY <2>5 DEF Recorded, Decide, TypeInv, TypeOK
    <3> QED
      BY <2>1, <2>3, <2>4, <2>5, <3>1, DecideKeeps, StraysRest DEF AtWork
  <2>6. ASSUME NEW p \in UniqueDestination(Known(r).slot, Source(r)), Exists(Source(r)),
               IF p = Source(r) THEN Decide(r, "commit", "routed", NoPlace)
                                ELSE Decide(r, "move", "none", p)
        PROVE  RouteInv'
    <3>1. CASE p = Source(r)
      <4>1. KnownSize = Files /\ ~vacated => disk[row[cur[r]].path] = Whole(cur[r])
        BY <2>2, <2>3, <2>6, SourceIsOwn
      <4>2. KnownSize = Files /\ ~vacated' => Recorded(r)'
        BY <2>1, <2>6, <3>1, <4>1 DEF Recorded, Decide, TypeInv, TypeOK
      <4> QED
        BY <2>1, <2>3, <2>4, <2>6, <3>1, <4>2, DecideKeeps, StraysRest DEF AtWork
    <3>2. CASE p # Source(r)
      <4>1. PICK k \in FreeSuffix(Known(r).slot) : p = Shelf(Known(r).slot, k)
        BY <3>2 DEF UniqueDestination
      <4>2. p \in Shelves /\ ~Exists(p)
        BY <2>2, <4>1, PlaceFacts DEF FreeSuffix
      <4>3. KnownSize = Files => \A s \in Occupied : p # Shelf(s, 0)
        BY <4>2, ContentFacts DEF RouteInv, ForeignKept, Exists
      <4>4. Recorded(r)'
        BY <2>6, <3>2 DEF Recorded, Decide, TypeInv, TypeOK
      <4> QED
        BY <2>1, <2>3, <2>6, <3>2, <4>2, <4>3, <4>4, DecideKeeps, StraysRest DEF AtWork
    <3> QED
      BY <3>1, <3>2
  <2> QED
    BY <1>2, <2>5, <2>6 DEF PlaceFile
<1>3. CASE MoveFail(r)
  <2>1. /\ pc[r] \in Moving /\ Decide(r, "commit", "error", NoPlace)
        /\ UNCHANGED <<row, disk, stray, vacated>>
    BY <1>3 DEF MoveFail, Moving
  <2>2. \A f \in Files : ~Moved(f)
    BY <2>1, NothingMoved DEF Moving
  <2>3. Recorded(r)'
    BY <2>1 DEF Recorded, Decide, TypeInv, TypeOK
  <2>4. \A s \in Occupied : NoPlace # Shelf(s, 0)
    BY PlaceFacts, RoutingConstants
  <2> QED
    BY <2>1, <2>2, <2>3, <2>4, DecideKeeps, StraysRest DEF AtWork, Moving
<1>4. CASE TrackFail(r)
  <2>1. /\ pc[r] = "commit" /\ Decide(r, "commit", "error", NoPlace) /\ ForgetMove(r)
        /\ UNCHANGED <<row, disk>>
    BY <1>4 DEF TrackFail
  <2>2. /\ ~vacated' => ~vacated
        /\ KnownSize = Files /\ ~vacated' => Strays'
        /\ \A f \in Files : ~vacated' /\ row[f].path \in Shelves => ~Moved(f)
    BY <2>1, Forgotten
  <2>3. Recorded(r)'
    BY <2>1 DEF Recorded, Decide, TypeInv, TypeOK
  <2>4. \A s \in Occupied : NoPlace # Shelf(s, 0)
    BY PlaceFacts, RoutingConstants
  <2> QED
    BY <2>1, <2>2, <2>3, <2>4, DecideKeeps DEF AtWork
<1> QED
  BY <1>1, <1>2, <1>3, <1>4

\* A run that begins, goes on to the next file, ends, or is lost.
LEMMA RunSteps ==
  ASSUME TypeInv, RouteInv, OneAtATime, OneAtATime', NEW r \in Runs,
         StartRun(r) \/ EndRun(r) \/ Lose(r)
           \/ \E f \in Files : SkipFile(r, f) \/ MarkFile(r, f)
  PROVE  RouteInv'
<1> DEFINE Rest == \A q \in Runs : q # r => /\ pc'[q] = pc[q] /\ view'[q] = view[q]
                                           /\ dest'[q] = dest[q] /\ outcome'[q] = outcome[q]
<1>0. ASSUME disk' = disk, Rest, \A q \in Runs : q # r => pc[q] = "idle",
             pc'[r] \in {"idle", "next", "marked"},
             dest'[r] \in {dest[r], NoPlace}, outcome'[r] \in {outcome[r], "none"},
             outcome[r] = "routed" => outcome'[r] = "none",
             \A f \in DOMAIN view'[r] : view'[r][f].path = row'[f].path
                                        /\ row'[f].status # "routed",
             pc'[r] = "idle" => view'[r] = NoRows,
             \A f \in Files : /\ row'[f].path = row[f].path
                              /\ row'[f].status = "routed" => row[f].status = "routed",
             ~vacated' => ~vacated,
             KnownSize = Files /\ ~vacated' => Strays',
             \A f \in Files : ~vacated' /\ row[f].path \in Shelves => ~Moved(f)
      PROVE  RouteInv'
  <2>1. \A q \in Runs : q # r => Fresh(q)' /\ OriginalKept(q)' /\ Recorded(q)'
    BY <1>0, IdleRest
  <2>2. Fresh(r)'
    BY <1>0 DEF Fresh, RouteInv
  <2>3. OriginalKept(r)' /\ Recorded(r)'
    BY <1>0 DEF OriginalKept, Recorded, Moving
  <2>4. \A q \in Runs, s \in Occupied : KnownSize = Files => dest'[q] # Shelf(s, 0)
    <3>1. \A s \in Occupied : NoPlace # Shelf(s, 0)
      BY PlaceFacts, RoutingConstants
    <3> QED
      BY <1>0, <3>1 DEF RouteInv, ForeignKept
  <2>5. \A q \in Runs : Fresh(q)' /\ OriginalKept(q)' /\ Recorded(q)'
    BY <2>1, <2>2, <2>3
  <2> QED
    BY <1>0, <2>4, <2>5, QuietKeeps
<1>1. CASE StartRun(r)
  <2>1. /\ pc[r] = "idle" /\ view' = [view EXCEPT ![r] = [f \in {g \in Files : Routable(g)} |-> row[f]]]
        /\ pc' = [pc EXCEPT ![r] = "next"] /\ UNCHANGED <<row, disk, cur, dest, outcome, stray, vacated>>
    BY <1>1 DEF StartRun
  <2>2. view'[r] = [f \in {g \in Files : Routable(g)} |-> row[f]] /\ pc'[r] = "next" /\ Rest
    BY <2>1 DEF TypeInv, TypeOK
  <2>3. \A q \in Runs : q # r => pc[q] = "idle"
    BY <2>1, <2>2 DEF OneAtATime
  <2>4. \A f \in DOMAIN view'[r] : view'[r][f].path = row'[f].path /\ row'[f].status # "routed"
    BY <2>1, <2>2 DEF Routable
  <2>5. outcome[r] # "routed" /\ \A f \in Files : ~Moved(f)
    BY <2>1, <2>3, IdleRun DEF Moved
  <2> QED
    BY <1>0, <2>1, <2>2, <2>3, <2>4, <2>5, StraysRest
<1>2. CASE EndRun(r)
  <2>1. /\ pc[r] = "next" /\ view' = [view EXCEPT ![r] = NoRows] /\ pc' = [pc EXCEPT ![r] = "idle"]
        /\ UNCHANGED <<row, disk, cur, dest, outcome, stray, vacated>>
    BY <1>2 DEF EndRun
  <2>2. view'[r] = NoRows /\ pc'[r] = "idle" /\ Rest /\ DOMAIN view'[r] = {}
    BY <2>1 DEF TypeInv, TypeOK, NoRows
  <2>3. /\ \A q \in Runs : q # r => pc[q] = "idle"
        /\ \A f \in Files : ~Moved(f)
        /\ outcome[r] # "routed"
    BY <2>1, Alone, NothingMoved DEF RouteInv, Fresh
  <2> QED
    BY <1>0, <2>1, <2>2, <2>3, StraysRest
<1>3. CASE Lose(r)
  <2>1. /\ pc[r] # "idle" /\ ForgetMove(r) /\ UNCHANGED <<row, disk>>
        /\ view' = [view EXCEPT ![r] = NoRows] /\ pc' = [pc EXCEPT ![r] = "idle"]
        /\ dest' = [dest EXCEPT ![r] = NoPlace] /\ outcome' = [outcome EXCEPT ![r] = "none"]
    BY <1>3 DEF Lose
  <2>2. /\ view'[r] = NoRows /\ pc'[r] = "idle" /\ Rest /\ DOMAIN view'[r] = {}
        /\ dest'[r] = NoPlace /\ outcome'[r] = "none"
    BY <2>1 DEF TypeInv, TypeOK, NoRows
  <2>3. /\ ~vacated' => ~vacated
        /\ KnownSize = Files /\ ~vacated' => Strays'
        /\ \A f \in Files : ~vacated' /\ row[f].path \in Shelves => ~Moved(f)
    BY <2>1, Forgotten
  <2>4. \A q \in Runs : q # r => pc[q] = "idle"
    BY <2>1, Alone
  <2> QED
    BY <1>0, <2>1, <2>2, <2>3, <2>4
<1>4. ASSUME NEW f \in Files, SkipFile(r, f) PROVE RouteInv'
  <2>1. /\ pc[r] = "next" /\ row' = [row EXCEPT ![f].status = "error"]
        /\ view' = [view EXCEPT ![r] = [g \in DOMAIN view[r] \ {f} |-> view[r][g]]]
        /\ UNCHANGED <<disk, pc, cur, dest, outcome, stray, vacated>>
    BY <1>4 DEF SkipFile
  <2>2. view'[r] = [g \in DOMAIN view[r] \ {f} |-> view[r][g]] /\ Rest
    BY <2>1 DEF TypeInv, TypeOK
  <2>3. \A g \in Files : row'[g] = IF g = f THEN [row[f] EXCEPT !.status = "error"] ELSE row[g]
    BY <2>1 DEF TypeInv, TypeOK
  <2>4. \A g \in Files : /\ row'[g].path = row[g].path
                         /\ row'[g].status = "routed" => row[g].status = "routed"
    BY <2>3 DEF TypeInv, TypeOK, Rows
  <2>5. \A g \in DOMAIN view'[r] : view'[r][g].path = row'[g].path /\ row'[g].status # "routed"
    BY <2>2, <2>4 DEF RouteInv, Fresh, TypeInv, TypeOK, Loaded
  <2>6. /\ \A q \in Runs : q # r => pc[q] = "idle"
        /\ \A g \in Files : ~Moved(g)
        /\ outcome[r] # "routed"
    BY <2>1, Alone, NothingMoved DEF RouteInv, Fresh
  <2>7. KnownSize = Files /\ ~vacated' => Strays'
    BY <2>1, <2>4 DEF RouteInv, Settled, Strays, Exists
  <2> QED
    BY <1>0, <2>1, <2>2, <2>4, <2>5, <2>6, <2>7
<1>5. ASSUME NEW f \in Files, MarkFile(r, f) PROVE RouteInv'
  <2>1. /\ pc[r] = "next" /\ row' \in {row, [row EXCEPT ![f].status = "routing"]}
        /\ pc' = [pc EXCEPT ![r] = "marked"]
        /\ UNCHANGED <<disk, view, dest, outcome, stray, vacated>>
    BY <1>5 DEF MarkFile
  <2>2. pc'[r] = "marked" /\ Rest
    BY <2>1 DEF TypeInv, TypeOK
  <2>3. ASSUME NEW g \in Files
        PROVE  /\ row'[g].path = row[g].path
               /\ row'[g].status = "routed" => row[g].status = "routed"
    <3>1. row[g] \in Rows
      BY DEF TypeInv, TypeOK
    <3>2. row'[g] = row[g] \/ row'[g] = [row[g] EXCEPT !.status = "routing"]
      BY <2>1 DEF TypeInv, TypeOK
    <3> QED
      BY <3>1, <3>2 DEF Rows
  <2>4. \A g \in Files : /\ row'[g].path = row[g].path
                         /\ row'[g].status = "routed" => row[g].status = "routed"
    BY <2>3
  <2>5. \A g \in DOMAIN view'[r] : view'[r][g].path = row'[g].path /\ row'[g].status # "routed"
    BY <2>1, <2>4 DEF RouteInv, Fresh, TypeInv, TypeOK, Loaded
  <2>6. /\ \A q \in Runs : q # r => pc[q] = "idle"
        /\ \A g \in Files : ~Moved(g)
        /\ outcome[r] # "routed"
    BY <2>1, Alone, NothingMoved DEF RouteInv, Fresh
  <2>7. KnownSize = Files /\ ~vacated' => Strays'
    BY <2>1, <2>4 DEF RouteInv, Settled, Strays, Exists
  <2> QED
    BY <1>0, <2>1, <2>2, <2>4, <2>5, <2>6, <2>7
<1> QED
  BY <1>1, <1>2, <1>3, <1>4, <1>5

\* Of two places that hold different files in full, one is not the other.
LEMMA DistinctPlaces ==
  ASSUME NEW f, NEW g, f # g, NEW p, NEW q, disk[p] = Whole(f), disk[q] = Whole(g)
  PROVE  p # q
  BY ContentFacts

\* A part of a move: the disk changes at the destination and at the source only, the
\* source goes when the destination has all of it, and a whole file is not overwritten.
LEMMA DiskKeeps ==
  ASSUME TypeInv, RouteInv, OneAtATime, NEW r \in Runs, pc[r] \in Moving, Exists(Source(r)),
         row' = row, stray' = stray, vacated' = vacated,
         NEW point \in {"copy", "delete", "commit"}, NEW what \in {"none", "routed"},
         Decide(r, point, what, dest[r]), what = "routed" <=> point = "commit",
         \A p \in Places : p # dest[r] /\ p # Source(r) => disk'[p] = disk[p],
         \A c \in Files \cup {Foreign} : disk[dest[r]] = Whole(c) => disk'[dest[r]] = Whole(c),
         disk'[Source(r)] # disk[Source(r)] =>
           /\ point = "commit" /\ disk'[Source(r)] = Nothing,
         point = "commit" => disk'[dest[r]] = disk[Source(r)],
         point = "copy" => \E c \in Files \cup {Foreign} : disk'[dest[r]] = Partial(c),
         point = "delete" => disk'[dest[r]] = disk'[Source(r)]
  PROVE  RouteInv'
<1> DEFINE f == cur[r]  d == dest[r]  src == row[cur[r]].path
<1>1. /\ pc'[r] = point /\ outcome'[r] = what /\ dest' = dest /\ view' = view /\ cur' = cur
      /\ \A q \in Runs : q # r => pc'[q] = pc[q] /\ outcome'[q] = outcome[q]
  BY DEF Decide, TypeInv, TypeOK
<1>2. /\ f \in Files /\ Source(r) = src /\ src \in Places /\ row[f].status # "routed"
      /\ src = Staged(f) \/ src \in Shelves
  BY SourceFacts DEF Moving, AtWork
<1>3. d \in Shelves /\ d # src /\ Exists(src) /\ d # NoPlace /\ d \in Places
  BY PlaceFacts DEF RouteInv, OriginalKept
<1>4. ASSUME NEW q \in Runs PROVE Fresh(q)' /\ OriginalKept(q)'
  <2>1. CASE q = r
    <3>1. Fresh(r)'
      BY <1>1 DEF Fresh, RouteInv
    <3>2. point \in Moving => disk'[src] = disk[src]
      BY <1>2 DEF Moving
    <3>3. OriginalKept(r)'
      BY <1>1, <1>2, <1>3, <3>2 DEF OriginalKept, Exists, Moving
    <3> QED
      BY <2>1, <3>1, <3>3
  <2>2. CASE q # r
    BY <1>1, <2>2, Alone, IdleRest DEF Moving
  <2> QED
    BY <2>1, <2>2
<1>5. Staging'
  <2>1. ASSUME NEW g \in Files PROVE disk'[Staged(g)] \in {Whole(g), Nothing}
    <3>1. Staged(g) \in Places /\ Staged(g) # d /\ disk[Staged(g)] \in {Whole(g), Nothing}
      BY <1>3, PlaceFacts DEF RouteInv, Staging
    <3> QED
      BY <1>2, <3>1
  <2> QED
    BY <2>1 DEF RouteInv, Staging
<1>6. FilesKept'
  <2>1. ASSUME NEW g \in Files PROVE \E p \in Places : disk'[p] = Whole(g)
    <3>1. PICK p \in Places : disk[p] = Whole(g)
      BY DEF RouteInv, FilesKept
    <3>2. CASE p = src
      BY <1>2, <1>3, <3>1, <3>2
    <3>3. CASE p # src
      BY <1>2, <1>3, <3>1, <3>3
    <3> QED
      BY <3>2, <3>3
  <2> QED
    BY <2>1 DEF FilesKept
<1>7. KnownSize = Files => ForeignKept'
  <2>1. ASSUME KnownSize = Files, NEW s \in Occupied PROVE disk'[Shelf(s, 0)] = Whole(Foreign)
    <3>1. /\ disk[Shelf(s, 0)] = Whole(Foreign) /\ Shelf(s, 0) # d /\ Shelf(s, 0) # src
      BY <1>2, <2>1 DEF RouteInv, ForeignKept
    <3>2. Shelf(s, 0) \in Places
      BY PlaceFacts, RoutingConstants
    <3> QED
      BY <1>2, <3>1, <3>2
  <2> QED
    BY <1>1, <2>1 DEF RouteInv, ForeignKept
<1>8. ASSUME KnownSize = Files, ~vacated' PROVE Settled'
  <2>1. Settled /\ ~vacated
    BY <1>8 DEF RouteInv
  <2>2. \A g \in Files : ~Moved(g)
    BY NothingMoved DEF Moving
  <2>3. disk[src] = Whole(f)
    BY <1>2, <1>3, <1>8, <2>1, <2>2, SourceIsOwn
  <2>4. ASSUME NEW g \in Files, NEW p \in Places, disk[p] = Whole(g), g # f
        PROVE  disk'[p] = Whole(g)
    <3>1. p # src
      BY <2>3, <2>4, DistinctPlaces
    <3> QED
      BY <1>2, <2>4, <3>1
  <2>5. RoutedHoldsOwn'
    <3>1. ASSUME NEW g \in Files, row[g].status = "routed" PROVE disk'[row[g].path] = Whole(g)
      <4>1. g # f /\ disk[row[g].path] = Whole(g) /\ row[g].path \in Places
        BY <1>2, <2>1, <3>1 DEF Settled, RoutedHoldsOwn, TypeInv, TypeOK, Rows
      <4> QED
        BY <2>4, <4>1
    <3> QED
      BY <3>1 DEF RoutedHoldsOwn
  <2>6. OwnPlaces'
    <3>1. ASSUME NEW g \in Files, row[g].path \in Shelves, disk'[row[g].path] # Whole(g)
          PROVE  Moved(g)'
      <4>1. disk[row[g].path] = Whole(g) /\ row[g].path \in Places
        BY <2>1, <2>2, <3>1, PlaceFacts DEF Settled, OwnPlaces
      <4>2. g = f
        BY <2>4, <3>1, <4>1
      <4>3. point = "commit" /\ disk'[src] = Nothing
        BY <1>2, <3>1, <4>1, <4>2
      <4> QED
        BY <1>1, <1>3, <4>2, <4>3 DEF Moved, Exists
    <3> QED
      BY <3>1 DEF OwnPlaces
  <2>7. Strays'
    <3>1. ASSUME NEW g \in Files, stray[g] # NoPlace
          PROVE  /\ row[g].path = Staged(g) /\ disk'[Staged(g)] = Nothing
                 /\ stray[g] \in Shelves /\ disk'[stray[g]] = Whole(g)
      <4>1. /\ row[g].path = Staged(g) /\ disk[Staged(g)] = Nothing
            /\ stray[g] \in Shelves /\ disk[stray[g]] = Whole(g)
        BY <2>1, <3>1 DEF Settled, Strays, Exists
      <4>2. g # f /\ Staged(g) # src /\ Staged(g) # d
        BY <1>3, <4>1, PlaceFacts DEF Exists
      <4> QED
        BY <1>2, <2>4, <4>1, <4>2, PlaceFacts
    <3> QED
      BY <3>1 DEF Strays, Exists
  <2>8. ASSUME NEW q \in Runs PROVE Recorded(q)'
    <3>1. CASE q = r
      BY <1>1, <1>2, <1>3, <2>3, <3>1 DEF Recorded
    <3>2. CASE q # r
      BY <1>1, <3>2, Alone DEF Recorded, Moving
    <3> QED
      BY <3>1, <3>2
  <2> QED
    BY <2>5, <2>6, <2>7, <2>8 DEF Settled
<1> QED
  BY <1>4, <1>5, <1>6, <1>7, <1>8 DEF RouteInv

LEMMA MoveSteps ==
  ASSUME TypeInv, RouteInv, OneAtATime, NEW r \in Runs,
         Rename(r) \/ CopyBegin(r) \/ CopyEnd(r) \/ DeleteSource(r)
  PROVE  RouteInv'
<1> DEFINE d == dest[r]  src == Source(r)
<1>1. pc[r] \in Moving /\ Exists(src) /\ UNCHANGED <<row, stray, vacated>>
  BY DEF Rename, CopyBegin, CopyEnd, DeleteSource, Moving
<1>2. /\ src = row[cur[r]].path /\ src \in Places /\ d \in Places /\ d # src
      /\ disk \in [Places -> Contents] /\ disk[src] # Nothing
  BY <1>1, SourceFacts, PlaceFacts DEF RouteInv, OriginalKept, Moving, AtWork, Exists, TypeInv, TypeOK
<1>3. CASE Rename(r)
  <2>1. disk[d] = Nothing
    BY <1>3 DEF Rename, RouteInv, OriginalKept, Exists
  <2>2. disk' = [disk EXCEPT ![d] = disk[src], ![src] = Nothing] /\ Decide(r, "commit", "routed", d)
    BY <1>3 DEF Rename
  <2>3. /\ disk'[d] = disk[src] /\ disk'[src] = Nothing
        /\ \A p \in Places : p # d /\ p # src => disk'[p] = disk[p]
    BY <1>2, <2>2
  <2> QED
    BY <1>1, <2>1, <2>2, <2>3, ContentFacts, DiskKeeps
<1>4. CASE CopyBegin(r)
  <2>1. disk[d] = Nothing
    BY <1>4 DEF CopyBegin, RouteInv, OriginalKept, Exists
  <2>2. disk' = [disk EXCEPT ![d] = Partial(disk[src][1])] /\ Decide(r, "copy", "none", d)
    BY <1>4 DEF CopyBegin
  <2>3. /\ disk'[d] = Partial(disk[src][1]) /\ disk'[src] = disk[src]
        /\ \A p \in Places : p # d /\ p # src => disk'[p] = disk[p]
    BY <1>2, <2>2
  <2>4. disk[src][1] \in Files \cup {Foreign}
    BY <1>2, ContentFacts
  <2> QED
    BY <1>1, <2>1, <2>2, <2>3, <2>4, ContentFacts, DiskKeeps
<1>5. CASE CopyEnd(r)
  <2>1. \E c \in Files \cup {Foreign} : disk[d] = Partial(c)
    BY <1>5 DEF CopyEnd, RouteInv, OriginalKept
  <2>2. disk' = [disk EXCEPT ![d] = disk[src]] /\ Decide(r, "delete", "none", d)
    BY <1>5 DEF CopyEnd
  <2>3. /\ disk'[d] = disk[src] /\ disk'[src] = disk[src]
        /\ \A p \in Places : p # d /\ p # src => disk'[p] = disk[p]
    BY <1>2, <2>2
  <2>4. \A c \in Files \cup {Foreign} : disk[d] # Whole(c)
    BY <2>1, ContentFacts
  <2> QED
    BY <1>1, <2>2, <2>3, <2>4, DiskKeeps
<1>6. CASE DeleteSource(r)
  <2>1. disk[d] = disk[src]
    BY <1>2, <1>6 DEF DeleteSource, RouteInv, OriginalKept
  <2>2. disk' \in {disk, [disk EXCEPT ![src] = Nothing]} /\ Decide(r, "commit", "routed", d)
    BY <1>6 DEF DeleteSource
  <2>3. /\ disk'[d] = disk[d] /\ disk'[src] \in {disk[src], Nothing}
        /\ \A p \in Places : p # d /\ p # src => disk'[p] = disk[p]
    BY <1>2, <2>2
  <2> QED
    BY <1>1, <2>1, <2>2, <2>3, DiskKeeps
<1> QED
  BY <1>3, <1>4, <1>5, <1>6

LEMMA CommitStep ==
  ASSUME TypeInv, RouteInv, OneAtATime, NEW r \in Runs, CommitFile(r)
  PROVE  RouteInv'
<1> DEFINE f == cur[r]
<1>1. /\ pc[r] = "commit" /\ f \in Files /\ UNCHANGED <<disk, vacated>>
      /\ \A q \in Runs : q # r => /\ pc[q] = "idle" /\ pc'[q] = pc[q] /\ view'[q] = view[q]
                                  /\ dest'[q] = dest[q] /\ outcome'[q] = outcome[q]
  BY SourceFacts, Alone DEF CommitFile, AtWork, TypeInv, TypeOK
<1>2. /\ pc'[r] = "next" /\ view'[r] = WithoutCur(r) /\ dest'[r] = NoPlace /\ outcome'[r] = "none"
  BY DEF CommitFile, TypeInv, TypeOK
<1>3. /\ row'[f].status = outcome[r] /\ row'[f].path = NewPath(r)
      /\ \A g \in Files : g # f => row'[g] = row[g]
  BY <1>1 DEF CommitFile, TypeInv, TypeOK
<1>4. /\ outcome[r] # "routed" \/ dest[r] = NoPlace => NewPath(r) = row[f].path
      /\ outcome[r] = "routed" /\ dest[r] # NoPlace => NewPath(r) = dest[r]
      /\ dest[r] # NoPlace => dest[r] \in Shelves
  BY DEF NewPath, RouteInv, Fresh
<1>5. ASSUME NEW q \in Runs PROVE Fresh(q)' /\ OriginalKept(q)' /\ Recorded(q)'
  <2>1. CASE q = r
    <3>1. Fresh(r)'
      <4>1. DOMAIN view[r] \subseteq Files
        BY DEF TypeInv, TypeOK, Loaded
      <4>2. ASSUME NEW g \in DOMAIN view'[r]
            PROVE  view'[r][g].path = row'[g].path /\ row'[g].status # "routed"
        BY <1>2, <1>3, <4>1, <4>2 DEF WithoutCur, RouteInv, Fresh
      <4> QED
        BY <1>2, <4>2 DEF Fresh
    <3> QED
      BY <1>2, <2>1, <3>1 DEF OriginalKept, Recorded, Moving
  <2>2. CASE q # r
    BY <1>1, <2>2, IdleRest
  <2> QED
    BY <2>1, <2>2
<1>6. Staging' /\ FilesKept'
  <2>1. \A g \in Files : row'[g].path = Staged(g) \/ row'[g].path \in Shelves
    BY <1>3, <1>4 DEF RouteInv, Staging
  <2> QED
    BY <1>1, <2>1 DEF RouteInv, Staging, FilesKept
<1>7. KnownSize = Files => ForeignKept'
  <2>1. ASSUME KnownSize = Files, NEW s \in Occupied
        PROVE  /\ \A g \in Files : row'[g].path # Shelf(s, 0)
               /\ \A q \in Runs : dest'[q] # Shelf(s, 0)
    <3>1. NoPlace # Shelf(s, 0)
      BY PlaceFacts, RoutingConstants
    <3>2. /\ \A g \in Files : row[g].path # Shelf(s, 0)
          /\ \A q \in Runs : dest[q] # Shelf(s, 0)
      BY <2>1 DEF RouteInv, ForeignKept
    <3> QED
      BY <1>1, <1>2, <1>3, <1>4, <3>1, <3>2
  <2> QED
    BY <1>1, <2>1 DEF RouteInv, ForeignKept
<1>8. ASSUME KnownSize = Files, ~vacated' PROVE Settled'
  <2>1. Settled
    BY <1>1, <1>8 DEF RouteInv
  <2>2. ASSUME NEW g \in Files, Moved(g) PROVE g = f /\ outcome[r] = "routed" /\ dest[r] # NoPlace
    BY <1>1, <2>2, MovedByRun
  <2>3. RoutedHoldsOwn'
    <3>1. ASSUME NEW g \in Files, row'[g].status = "routed" PROVE disk[row'[g].path] = Whole(g)
      <4>1. CASE g = f
        BY <1>1, <1>3, <1>4, <2>1, <3>1, <4>1 DEF Settled, Recorded
      <4>2. CASE g # f
        BY <1>3, <2>1, <3>1, <4>2 DEF Settled, RoutedHoldsOwn
      <4> QED
        BY <4>1, <4>2
    <3> QED
      BY <1>1, <3>1 DEF RoutedHoldsOwn
  <2>4. OwnPlaces'
    <3>1. ASSUME NEW g \in Files, row'[g].path \in Shelves PROVE disk[row'[g].path] = Whole(g)
      <4>1. CASE g = f /\ outcome[r] = "routed" /\ dest[r] # NoPlace
        BY <1>1, <1>3, <1>4, <2>1, <4>1 DEF Settled, Recorded
      <4>2. CASE ~(g = f /\ outcome[r] = "routed" /\ dest[r] # NoPlace)
        <5>1. row'[g].path = row[g].path /\ ~Moved(g)
          BY <1>3, <1>4, <2>2, <4>2
        <5> QED
          BY <2>1, <3>1, <5>1 DEF Settled, OwnPlaces
      <4> QED
        BY <4>1, <4>2
    <3> QED
      BY <1>1, <3>1 DEF OwnPlaces
  <2>5. Strays'
    <3>1. ASSUME NEW g \in Files, stray'[g] # NoPlace
          PROVE  row'[g].path = row[g].path /\ stray'[g] = stray[g]
      <4>1. CASE outcome[r] = "routed"
        <5>1. stray' = [stray EXCEPT ![f] = NoPlace]
          BY <4>1 DEF CommitFile
        <5>2. g # f /\ stray'[g] = stray[g]
          BY <1>1, <3>1, <5>1 DEF TypeInv, TypeOK
        <5> QED
          BY <1>3, <5>2
      <4>2. CASE outcome[r] # "routed"
        <5>1. stray' = stray
          BY <4>2 DEF CommitFile
        <5> QED
          BY <1>3, <1>4, <4>2, <5>1
      <4> QED
        BY <4>1, <4>2
    <3> QED
      BY <1>1, <2>1, <3>1 DEF Settled, Strays, Exists
  <2> QED
    BY <1>5, <2>3, <2>4, <2>5 DEF Settled
<1> QED
  BY <1>5, <1>6, <1>7, <1>8 DEF RouteInv

LEMMA RouteInitial == Init => RouteInv
<1> SUFFICES ASSUME Init PROVE RouteInv
  OBVIOUS
<1>1. \A r \in Runs : Fresh(r) /\ OriginalKept(r) /\ Recorded(r)
  BY DEF Init, Fresh, OriginalKept, Recorded, NoRows, Moving
<1>2. \A f \in Files : Staged(f) \in Places /\ disk[Staged(f)] = Whole(f) /\ row[f].path = Staged(f)
                       /\ row[f].status = "matched"
  BY PlaceFacts DEF Init, Staged
<1>3. Staging /\ FilesKept
  BY <1>2 DEF Staging, FilesKept
<1>4. ForeignKept
  <2>1. ASSUME NEW s \in Occupied
        PROVE  /\ disk[Shelf(s, 0)] = Whole(Foreign) /\ Shelf(s, 0) # NoPlace
               /\ Shelf(s, 0) \in Shelves
    <3>1. Shelf(s, 0) \in Places /\ Shelf(s, 0) \in Shelves /\ s \notin Files
      BY PlaceFacts, RoutingConstants
    <3> QED
      BY <3>1, PlaceFacts DEF Init, Shelf
  <2> QED
    BY <1>2, <2>1, PlaceFacts DEF ForeignKept, Init
<1>5. Settled
  <2>1. RoutedHoldsOwn /\ OwnPlaces /\ Strays
    BY <1>2, PlaceFacts DEF Init, RoutedHoldsOwn, OwnPlaces, Strays
  <2> QED
    BY <1>1, <2>1 DEF Settled
<1> QED
  BY <1>1, <1>3, <1>4, <1>5 DEF RouteInv

LEMMA RouteKept ==
  TypeInv /\ RouteInv /\ OneAtATime /\ OneAtATime' /\ [Next]_vars => RouteInv'
<1> SUFFICES ASSUME TypeInv, RouteInv, OneAtATime, OneAtATime', [Next]_vars PROVE RouteInv'
  OBVIOUS
<1>1. ASSUME NEW r \in Runs, StartRun(r) \/ EndRun(r) \/ Lose(r) PROVE RouteInv'
  BY <1>1, RunSteps
<1>2. ASSUME NEW r \in Runs, Advance(r) \/ TrackFail(r) PROVE RouteInv'
  BY <1>2, DecisionSteps, MoveSteps, CommitStep DEF Advance
<1>3. ASSUME NEW r \in Runs, NEW f \in Files, SkipFile(r, f) \/ MarkFile(r, f) PROVE RouteInv'
  BY <1>3, RunSteps
<1>4. ASSUME NEW f \in Files, NEW s \in Slots, MatchFile(f, s) PROVE RouteInv'
  BY <1>4, UserStep
<1>5. ASSUME NEW f \in Files, ScanRead(f) \/ ScanWrite(f) PROVE RouteInv'
  BY <1>5, UserStep
<1>6. CASE UNCHANGED vars
  BY <1>6, UserKeeps DEF vars, runVars
<1> QED
  BY <1>1, <1>2, <1>3, <1>4, <1>5, <1>6 DEF Next

\* Who takes a run from "marked" to "commit".
LEMMA ResolvedBy ==
  ASSUME TypeInv, [Next]_vars, NEW r \in Runs, pc[r] = "marked", pc'[r] = "commit"
  PROVE  CompletePriorMove(r) \/ PlaceFile(r)
<1>0. pc \in [Runs -> RunPoints]
  BY DEF TypeInv, TypeOK
<1>1. ASSUME NEW q \in Runs, NEW point, pc' = [pc EXCEPT ![q] = point] PROVE q = r
  BY <1>0, <1>1
<1>2. pc' # pc
  OBVIOUS
<1>3. PICK q \in Runs : \/ StartRun(q) \/ Advance(q) \/ EndRun(q) \/ TrackFail(q) \/ Lose(q)
                       \/ \E f \in Files : MarkFile(q, f)
  BY <1>2 DEF Next, vars, runVars, SkipFile, MatchFile, ScanRead, ScanWrite
<1>4. \E point : pc' = [pc EXCEPT ![q] = point]
  BY <1>3 DEF StartRun, EndRun, TrackFail, Lose, MarkFile, Advance, CompletePriorMove, PlaceFile,
              Rename, CopyBegin, CopyEnd, DeleteSource, MoveFail, CommitFile, Decide
<1>5. q = r
  BY <1>1, <1>4
<1>6. CASE Advance(r)
  BY <1>0, <1>6 DEF Advance, Rename, CopyBegin, CopyEnd, DeleteSource, MoveFail, CommitFile
<1>7. CASE ~Advance(r)
  BY <1>0, <1>3, <1>5, <1>7 DEF StartRun, EndRun, TrackFail, Lose, MarkFile
<1> QED
  BY <1>6, <1>7

-----------------------------------------------------------------------------
(* Runs that overlap: no move overwrites anything as long as no two moves share a *)
(* place.                                                                         *)

\* No two runs move from or to one place at the same time.
Apart ==
  \A r, q \in Runs : r # q /\ pc[r] \in Moving /\ pc[q] \in Moving =>
    {Source(r), dest[r]} \cap {Source(q), dest[q]} = {}

\* The original is there until the copy is complete, whatever the row says by now.
SafeMove(r) ==
  /\ pc[r] \in Moving => dest[r] # Source(r) /\ Exists(Source(r))
  /\ pc[r] = "move" => ~Exists(dest[r])
  /\ pc[r] = "copy" => \E c \in Files \cup {Foreign} : disk[dest[r]] = Partial(c)
  /\ pc[r] = "delete" => disk[dest[r]] = disk[Source(r)]

\* A library file that the program does not know stays where it is, and no row and no
\* run has its place.
ForeignSafe ==
  \A s \in Occupied :
    /\ disk[Shelf(s, 0)] = Whole(Foreign)
    /\ \A f \in Files : row[f].path # Shelf(s, 0)
    /\ \A r \in Runs : /\ dest[r] # Shelf(s, 0)
                       /\ \A f \in DOMAIN view[r] : view[r][f].path # Shelf(s, 0)

OverlapInv ==
  /\ \A r \in Runs : SafeMove(r)
  /\ FilesKept
  /\ KnownSize = Files => ForeignSafe

\* What r does leaves the others alone.
Bystanders(r) ==
  \A q \in Runs : q # r => /\ pc'[q] = pc[q] /\ dest'[q] = dest[q]
                          /\ view'[q] = view[q] /\ cur'[q] = cur[q]

LEMMA RunsStandBy ==
  ASSUME TypeInv, NEW r \in Runs,
         \/ StartRun(r) \/ Advance(r) \/ EndRun(r) \/ TrackFail(r) \/ Lose(r)
         \/ \E f \in Files : SkipFile(r, f) \/ MarkFile(r, f)
  PROVE  Bystanders(r)
<1> USE DEF Bystanders, TypeInv, TypeOK
<1>1. CASE StartRun(r) \/ EndRun(r) \/ Lose(r)
  BY <1>1 DEF StartRun, EndRun, Lose
<1>2. CASE \E f \in Files : SkipFile(r, f) \/ MarkFile(r, f)
  BY <1>2 DEF SkipFile, MarkFile
<1>3. CASE CommitFile(r)
  BY <1>3 DEF CommitFile
<1>4. CASE \E point, what, p : Decide(r, point, what, p)
  BY <1>4 DEF Decide
<1>5. CASE TrackFail(r) \/ (Advance(r) /\ ~CommitFile(r))
  <2>1. \E point, what, p : Decide(r, point, what, p)
    BY <1>5 DEF TrackFail, Advance, CompletePriorMove, PlaceFile, Rename, CopyBegin, CopyEnd,
                DeleteSource, MoveFail
  <2> QED
    BY <1>4, <2>1
<1> QED
  BY <1>1, <1>2, <1>3, <1>5 DEF Advance

\* A step that leaves the places of a move alone leaves it safe.
LEMMA StaysSafe ==
  ASSUME NEW q \in Runs, SafeMove(q), pc'[q] = pc[q], dest'[q] = dest[q],
         view'[q] = view[q], cur'[q] = cur[q],
         pc[q] \in Moving => disk'[dest[q]] = disk[dest[q]] /\ disk'[Source(q)] = disk[Source(q)]
  PROVE  SafeMove(q)'
<1>1. Source(q)' = Source(q)
  BY DEF Source, Known
<1> QED
  BY <1>1 DEF SafeMove, Exists, Moving

\* A step without a move.
LEMMA QuietIsSafe ==
  ASSUME OverlapInv, disk' = disk,
         \A q \in Runs : \/ SafeMove(q)'
                         \/ /\ pc'[q] = pc[q] /\ dest'[q] = dest[q]
                            /\ view'[q] = view[q] /\ cur'[q] = cur[q],
         KnownSize = Files => ForeignSafe'
  PROVE  OverlapInv'
<1>1. ASSUME NEW q \in Runs PROVE SafeMove(q)'
  BY StaysSafe DEF OverlapInv
<1> QED
  BY <1>1 DEF OverlapInv, FilesKept

\* Rows get no path, and runs no place and no row, that is a foreign file's.
LEMMA ForeignRests ==
  ASSUME ForeignSafe,
         \A s \in Occupied :
           /\ disk'[Shelf(s, 0)] = disk[Shelf(s, 0)]
           /\ \A f \in Files : row'[f].path # Shelf(s, 0)
           /\ \A r \in Runs : dest'[r] # Shelf(s, 0),
         \A r \in Runs : \A f \in DOMAIN view'[r] :
           \/ f \in DOMAIN view[r] /\ view'[r][f] = view[r][f]
           \/ f \in Files /\ view'[r][f].path = row[f].path
  PROVE  ForeignSafe'
  BY DEF ForeignSafe

\* A destination that was chosen because it was free is not a foreign file's.
LEMMA ForeignIsNotFree ==
  ASSUME ForeignSafe, NEW s \in Occupied
  PROVE  Exists(Shelf(s, 0)) /\ Shelf(s, 0) # NoPlace
<1>1. Shelf(s, 0) \in Places
  BY RoutingConstants, PlaceFacts
<1> QED
  BY <1>1, PlaceFacts, ContentFacts DEF ForeignSafe, Exists

\* A run between two files, at its start or at its end.
LEMMA PausesAreSafe ==
  ASSUME TypeInv, OverlapInv, NEW r \in Runs,
         \/ StartRun(r) \/ EndRun(r) \/ Lose(r)
         \/ \E f \in Files : SkipFile(r, f) \/ MarkFile(r, f)
  PROVE  OverlapInv'
<1>1. Bystanders(r)
  BY RunsStandBy
<1>2. disk' = disk /\ pc'[r] \notin Moving
  BY DEF StartRun, EndRun, Lose, SkipFile, MarkFile, TypeInv, TypeOK, Moving
<1>3. SafeMove(r)'
  BY <1>2 DEF SafeMove, Moving
<1>4. ASSUME ForeignSafe PROVE ForeignSafe'
  <2>1. \A f \in Files : row'[f].path = row[f].path
    <3>1. \/ row' = row
          \/ \E f \in Files, st \in FileStatus : row' = [row EXCEPT ![f].status = st]
      BY DEF StartRun, EndRun, Lose, SkipFile, MarkFile, FileStatus
    <3> QED
      BY <3>1 DEF TypeInv, TypeOK, Rows
  <2>2. \A q \in Runs : dest'[q] \in {dest[q], NoPlace}
    BY DEF StartRun, EndRun, Lose, SkipFile, MarkFile, TypeInv, TypeOK
  <2>3. \A f \in DOMAIN view'[r] : \/ f \in DOMAIN view[r] /\ view'[r][f] = view[r][f]
                                   \/ f \in Files /\ view'[r][f] = row[f]
    <3>1. CASE StartRun(r)
      BY <3>1 DEF StartRun, TypeInv, TypeOK
    <3>2. CASE EndRun(r) \/ Lose(r)
      BY <3>2 DEF EndRun, Lose, TypeInv, TypeOK, NoRows
    <3>3. CASE \E f \in Files : SkipFile(r, f) \/ MarkFile(r, f)
      BY <3>3 DEF SkipFile, MarkFile, TypeInv, TypeOK
    <3> QED
      BY <3>1, <3>2, <3>3
  <2>4. ASSUME NEW s \in Occupied
        PROVE  /\ \A f \in Files : row'[f].path # Shelf(s, 0)
               /\ \A q \in Runs : dest'[q] # Shelf(s, 0)
    BY <1>4, <2>1, <2>2, ForeignIsNotFree DEF ForeignSafe
  <2>5. \A q \in Runs : \A f \in DOMAIN view'[q] :
          \/ f \in DOMAIN view[q] /\ view'[q][f] = view[q][f]
          \/ f \in Files /\ view'[q][f].path = row[f].path
    BY <1>1, <2>3 DEF Bystanders
  <2> QED
    BY <1>2, <1>4, <2>4, <2>5, ForeignRests
<1> QED
  BY <1>1, <1>2, <1>3, <1>4, QuietIsSafe DEF Bystanders, OverlapInv

\* A decision without a move, or the choice of a destination, which is free.
LEMMA DecisionsAreSafe ==
  ASSUME TypeInv, OverlapInv, NEW r \in Runs,
         CompletePriorMove(r) \/ PlaceFile(r) \/ MoveFail(r) \/ TrackFail(r)
  PROVE  OverlapInv'
<1>0. pc[r] \in AtWork /\ UNCHANGED <<row, disk, view, cur>>
  BY DEF CompletePriorMove, PlaceFile, MoveFail, TrackFail, Decide, AtWork
<1>1. Bystanders(r)
  BY RunsStandBy DEF Advance
<1>2. PICK point \in {"commit", "move"}, p \in Places \cup {NoPlace} :
        /\ pc'[r] = point /\ dest'[r] = p
        /\ point = "move" => Exists(Source(r)) /\ p # Source(r) /\ ~Exists(p)
        /\ KnownSize = Files /\ ForeignSafe => \A s \in Occupied : p # Shelf(s, 0)
  <2>0. pc \in [Runs -> RunPoints] /\ dest \in [Runs -> Places \cup {NoPlace}]
    BY DEF TypeInv, TypeOK
  <2>1. CASE MoveFail(r) \/ TrackFail(r)
    <3>1. pc'[r] = "commit" /\ dest'[r] = NoPlace
      BY <2>0, <2>1 DEF MoveFail, TrackFail, Decide
    <3> QED
      BY <3>1, ForeignIsNotFree
  <2>2. CASE CompletePriorMove(r)
    <3> DEFINE home == Shelf(Known(r).slot, 0)
    <3>1. home \in Places /\ cur[r] \in Files
      BY <1>0, KnownFacts
    <3>2. pc'[r] = "commit" /\ (dest'[r] = NoPlace \/ (dest'[r] = home /\ SizeMatches(cur[r], home)))
      <4>1. \/ SizeMatches(cur[r], home) /\ Decide(r, "commit", "routed", home)
            \/ Decide(r, "commit", "error", NoPlace)
        BY <2>2 DEF CompletePriorMove
      <4> HIDE DEF home
      <4> QED
        BY <2>0, <4>1 DEF Decide
    <3>3. ASSUME KnownSize = Files, ForeignSafe, NEW s \in Occupied PROVE dest'[r] # Shelf(s, 0)
      <4>1. disk[Shelf(s, 0)] = Whole(Foreign) /\ Whole(Foreign) # Whole(cur[r])
        BY <3>1, <3>3, ContentFacts DEF ForeignSafe
      <4> QED
        BY <3>1, <3>2, <3>3, <4>1, ForeignIsNotFree DEF SizeMatches
    <3> HIDE DEF home
    <3> QED
      BY <3>1, <3>2, <3>3
  <2>3. CASE PlaceFile(r) /\ Decide(r, "commit", "error", NoPlace)
    <3>1. pc'[r] = "commit" /\ dest'[r] = NoPlace
      BY <2>0, <2>3 DEF Decide
    <3> QED
      BY <3>1, ForeignIsNotFree
  <2>4. CASE PlaceFile(r) /\ ~Decide(r, "commit", "error", NoPlace)
    <3>1. PICK p \in UniqueDestination(Known(r).slot, Source(r)) :
            /\ Exists(Source(r))
            /\ IF p = Source(r) THEN Decide(r, "commit", "routed", NoPlace)
                                ELSE Decide(r, "move", "none", p)
      BY <2>4 DEF PlaceFile
    <3>2. p \in Places /\ (p # Source(r) => ~Exists(p))
      BY <1>0, KnownFacts, PlaceFacts DEF UniqueDestination, FreeSuffix
    <3>3. CASE p = Source(r)
      <4>1. pc'[r] = "commit" /\ dest'[r] = NoPlace
        BY <2>0, <3>1, <3>3 DEF Decide
      <4> QED
        BY <4>1, ForeignIsNotFree
    <3>4. CASE p # Source(r)
      <4>1. pc'[r] = "move" /\ dest'[r] = p
        BY <2>0, <3>1, <3>4 DEF Decide
      <4> QED
        BY <3>1, <3>2, <3>4, <4>1, ForeignIsNotFree
    <3> QED
      BY <3>3, <3>4
  <2> QED
    BY <2>1, <2>2, <2>3, <2>4
<1>3. SafeMove(r)'
  <2>1. Source(r)' = Source(r)
    BY <1>0 DEF Source, Known
  <2> QED
    BY <1>0, <1>2, <2>1 DEF SafeMove, Exists, Moving
<1>4. ASSUME KnownSize = Files, ForeignSafe PROVE ForeignSafe'
  <2>1. \A s \in Occupied, q \in Runs : dest'[q] # Shelf(s, 0)
    BY <1>1, <1>2, <1>4 DEF Bystanders, ForeignSafe
  <2> QED
    BY <1>0, <1>4, <2>1, ForeignRests DEF ForeignSafe
<1> QED
  BY <1>0, <1>1, <1>3, <1>4, QuietIsSafe DEF Bystanders, OverlapInv

\* The commit, after which the row names the place that the run had.
LEMMA CommitIsSafe ==
  ASSUME TypeInv, OverlapInv, NEW r \in Runs, CommitFile(r)
  PROVE  OverlapInv'
<1>0. pc[r] \in AtWork /\ disk' = disk
  BY DEF CommitFile, AtWork
<1>1. Bystanders(r)
  BY RunsStandBy DEF Advance
<1>2. cur[r] \in Files /\ cur[r] \in DOMAIN view[r]
  BY <1>0, KnownFacts
<1>3. SafeMove(r)'
  BY DEF CommitFile, SafeMove, Moving, TypeInv, TypeOK
<1>4. ASSUME ForeignSafe PROVE ForeignSafe'
  <2>1. \A f \in Files : row'[f].path = row[f].path \/ row'[f].path = dest[r]
    BY <1>2 DEF CommitFile, NewPath, TypeInv, TypeOK, Rows
  <2>2. \A q \in Runs : dest'[q] \in {dest[q], NoPlace}
    BY DEF CommitFile, TypeInv, TypeOK
  <2>3. view'[r] = WithoutCur(r)
    BY DEF CommitFile, TypeInv, TypeOK
  <2>4. ASSUME NEW s \in Occupied
        PROVE  /\ \A f \in Files : row'[f].path # Shelf(s, 0)
               /\ \A q \in Runs : dest'[q] # Shelf(s, 0)
    BY <1>4, <2>1, <2>2, ForeignIsNotFree DEF ForeignSafe
  <2>5. \A q \in Runs : \A f \in DOMAIN view'[q] : f \in DOMAIN view[q] /\ view'[q][f] = view[q][f]
    BY <1>1, <2>3 DEF Bystanders, WithoutCur
  <2> QED
    BY <1>0, <1>4, <2>4, <2>5, ForeignRests
<1> QED
  BY <1>0, <1>1, <1>3, <1>4, QuietIsSafe DEF Bystanders, OverlapInv

\* A move writes its own two places, and neither holds the only copy of a file when
\* it is overwritten or emptied.
LEMMA MovesAreSafe ==
  ASSUME TypeInv, OverlapInv, Apart, NEW r \in Runs,
         Rename(r) \/ CopyBegin(r) \/ CopyEnd(r) \/ DeleteSource(r)
  PROVE  OverlapInv'
<1> DEFINE src == Source(r)  d == dest[r]
<1>0. pc[r] \in Moving /\ pc[r] \in AtWork /\ UNCHANGED <<row, view, cur, dest>>
  BY DEF Rename, CopyBegin, CopyEnd, DeleteSource, Decide, Moving, AtWork, TypeInv, TypeOK
<1>1. Bystanders(r)
  BY RunsStandBy DEF Advance
<1>2. /\ src \in Places /\ d \in Places /\ d # src /\ Exists(src)
      /\ disk[src] \in Contents /\ disk \in [Places -> Contents]
  BY <1>0, KnownFacts DEF TypeInv, TypeOK, RunTyped, OverlapInv, SafeMove
<1>3. \A p \in Places : p \notin {src, d} => disk'[p] = disk[p]
  BY <1>2 DEF Rename, CopyBegin, CopyEnd, DeleteSource
<1>4. ASSUME NEW q \in Runs PROVE SafeMove(q)'
  <2>1. CASE q # r
    <3>1. ASSUME pc[q] \in Moving
          PROVE  disk'[dest[q]] = disk[dest[q]] /\ disk'[Source(q)] = disk[Source(q)]
      <4>1. dest[q] \in Places /\ Source(q) \in Places
        BY <3>1, KnownFacts DEF TypeInv, RunTyped, Moving, AtWork
      <4>2. dest[q] \notin {src, d} /\ Source(q) \notin {src, d}
        BY <1>0, <2>1, <3>1 DEF Apart
      <4> QED
        BY <1>3, <4>1, <4>2
    <3> QED
      BY <1>1, <2>1, <3>1, StaysSafe DEF Bystanders, OverlapInv
  <2>2. SafeMove(r)'
    <3>0. src' = src /\ d' = d
      BY <1>0 DEF Source, Known
    <3>1. CASE Rename(r) \/ DeleteSource(r)
      BY <3>1 DEF Rename, DeleteSource, Decide, SafeMove, Moving, TypeInv, TypeOK
    <3>2. CASE CopyBegin(r)
      <4>1. disk'[d] = Partial(disk[src][1]) /\ disk'[src] = disk[src] /\ pc'[r] = "copy"
        BY <1>2, <3>2 DEF CopyBegin, Decide, TypeInv, TypeOK
      <4>2. disk[src][1] \in Files \cup {Foreign}
        BY <1>2, ContentFacts DEF Exists
      <4> HIDE DEF src, d
      <4> QED
        BY <1>2, <3>0, <4>1, <4>2 DEF SafeMove, Exists, src, d
    <3>3. CASE CopyEnd(r)
      <4>1. disk'[d] = disk[src] /\ disk'[src] = disk[src] /\ pc'[r] = "delete"
        BY <1>2, <3>3 DEF CopyEnd, Decide, TypeInv, TypeOK
      <4> QED
        BY <1>2, <3>0, <4>1 DEF SafeMove, Exists
    <3> QED
      BY <3>1, <3>2, <3>3
  <2> QED
    BY <2>1, <2>2
<1>5. FilesKept'
  <2> SUFFICES ASSUME NEW f \in Files PROVE \E p \in Places : disk'[p] = Whole(f)
    BY DEF FilesKept
  <2>1. PICK p \in Places : disk[p] = Whole(f)
    BY DEF OverlapInv, FilesKept
  <2>2. Whole(f) # Nothing /\ \A c : Whole(f) # Partial(c)
    BY ContentFacts
  <2>3. CASE Rename(r)
    <3>1. d # p
      BY <2>1, <2>2, <2>3 DEF Rename, OverlapInv, SafeMove, Exists
    <3>2. disk'[d] = disk[src]
      BY <1>2, <2>3 DEF Rename
    <3> QED
      BY <1>2, <1>3, <2>1, <3>1, <3>2
  <2>4. CASE CopyBegin(r) \/ CopyEnd(r)
    <3>1. d # p
      BY <2>1, <2>2, <2>4 DEF CopyBegin, CopyEnd, OverlapInv, SafeMove, Exists
    <3>2. disk'[src] = disk[src]
      BY <1>2, <2>4 DEF CopyBegin, CopyEnd
    <3> QED
      BY <1>3, <2>1, <3>1, <3>2
  <2>5. CASE DeleteSource(r)
    <3>1. disk[d] = disk[src]
      BY <2>5 DEF DeleteSource, OverlapInv, SafeMove
    <3>2. disk'[d] = disk[d]
      BY <1>2, <2>5 DEF DeleteSource
    <3> QED
      BY <1>2, <1>3, <2>1, <3>1, <3>2
  <2> QED
    BY <2>3, <2>4, <2>5
<1>6. ASSUME ForeignSafe PROVE ForeignSafe'
  <2>1. ASSUME NEW s \in Occupied PROVE disk'[Shelf(s, 0)] = disk[Shelf(s, 0)]
    <3>1. Shelf(s, 0) \in Places /\ Shelf(s, 0) # d
      BY <1>6, RoutingConstants, PlaceFacts DEF ForeignSafe
    <3>2. Shelf(s, 0) # src
      BY <1>0, <1>6, KnownFacts DEF ForeignSafe, Source, Known
    <3> QED
      BY <1>3, <3>1, <3>2
  <2> QED
    BY <1>0, <1>6, <2>1, ForeignRests DEF ForeignSafe
<1> QED
  BY <1>4, <1>5, <1>6 DEF OverlapInv

LEMMA OverlapInitial == Init => OverlapInv
<1> SUFFICES ASSUME Init PROVE OverlapInv
  OBVIOUS
<1>1. \A r \in Runs : SafeMove(r)
  BY DEF Init, SafeMove, Moving
<1>2. FilesKept
  BY PlaceFacts DEF Init, FilesKept, Staged
<1>3. ASSUME NEW s \in Occupied
      PROVE  /\ disk[Shelf(s, 0)] = Whole(Foreign)
             /\ \A f \in Files : row[f].path # Shelf(s, 0)
             /\ \A r \in Runs : dest[r] # Shelf(s, 0) /\ DOMAIN view[r] = {}
  <2>1. /\ Shelf(s, 0) \in Shelves /\ Shelf(s, 0) \in Places /\ s \in Slots
        /\ Shelf(s, 0)[1] = s /\ Shelf(s, 0)[2] = 0 /\ s \notin Files
    BY RoutingConstants, PlaceFacts DEF Shelf
  <2> QED
    BY <1>3, <2>1, PlaceFacts DEF Init, NoRows
<1> QED
  BY <1>1, <1>2, <1>3 DEF OverlapInv, ForeignSafe

LEMMA OverlapKept == TypeInv /\ OverlapInv /\ Apart /\ [Next]_vars => OverlapInv'
<1> SUFFICES ASSUME TypeInv, OverlapInv, Apart, [Next]_vars PROVE OverlapInv'
  OBVIOUS
<1>1. ASSUME NEW r \in Runs, StartRun(r) \/ EndRun(r) \/ Lose(r) PROVE OverlapInv'
  BY <1>1, PausesAreSafe
<1>2. ASSUME NEW r \in Runs, Advance(r) \/ TrackFail(r) PROVE OverlapInv'
  BY <1>2, DecisionsAreSafe, MovesAreSafe, CommitIsSafe DEF Advance
<1>3. ASSUME NEW r \in Runs, NEW f \in Files, SkipFile(r, f) \/ MarkFile(r, f) PROVE OverlapInv'
  BY <1>3, PausesAreSafe
<1>4. ASSUME UNCHANGED <<disk, runVars>>, \A f \in Files : row'[f].path = row[f].path
      PROVE  OverlapInv'
  <2>1. ASSUME ForeignSafe PROVE ForeignSafe'
    BY <1>4, <2>1, ForeignRests DEF ForeignSafe, runVars
  <2> QED
    BY <1>4, <2>1, QuietIsSafe DEF OverlapInv, runVars
<1>5. ASSUME NEW f \in Files, NEW s \in Slots, MatchFile(f, s) PROVE OverlapInv'
  BY <1>4, <1>5 DEF MatchFile, TypeInv, TypeOK, Rows
<1>6. ASSUME NEW f \in Files, ScanRead(f) \/ ScanWrite(f) PROVE OverlapInv'
  BY <1>4, <1>6 DEF ScanRead, ScanWrite, TypeInv, TypeOK, Rows
<1>7. CASE UNCHANGED vars
  BY <1>4, <1>7 DEF vars
<1> QED
  BY <1>1, <1>2, <1>3, <1>5, <1>6, <1>7 DEF Next

-----------------------------------------------------------------------------
(* The theorems. *)

\* Every column, place and run is what TypeOK says, however many runs work at a
\* time (RouteOrchestrator).
THEOREM RoutingTyped == Spec => []TypeOK
<1>1. TypeInv => TypeOK
  BY DEF TypeInv
<1> QED
  BY <1>1, TypesInitial, TypesKept, PTL DEF Spec

\* While one run works at a time, RouteInv holds.
THEOREM RoutingInvariant == Spec /\ []OneAtATime => [](TypeInv /\ RouteInv)
  BY TypesInitial, TypesKept, RouteInitial, RouteKept, PTL DEF Spec

\* However many runs overlap, OverlapInv holds as long as no two moves share a place.
THEOREM OverlapInvariant == Spec /\ []Apart => [](TypeInv /\ OverlapInv)
  BY TypesInitial, TypesKept, OverlapInitial, OverlapKept, PTL DEF Spec

\* No move loses a file, recorded size or not, however many runs overlap, unless two
\* move from or to one place at the same time: every crash, retry, exception and copy
\* leaves each file in full somewhere (RouteOrchestrator._place_file).
THEOREM NoFileIsLost == Spec /\ []Apart => []FilesKept
<1>1. OverlapInv => FilesKept
  BY DEF OverlapInv
<1> QED
  BY <1>1, OverlapInvariant, PTL

\* ... and, when the size of each file is recorded, no move overwrites a library
\* file the program does not know (RouteOrchestrator._unique_destination).
THEOREM ContentIsKept ==
  ASSUME KnownSize = Files PROVE Spec /\ []Apart => []ContentKept
<1>1. OverlapInv => ContentKept
  BY DEF OverlapInv, FilesKept, ForeignSafe, ContentKept
<1> QED
  BY <1>1, OverlapInvariant, PTL

\* Runs that work one at a time are apart.
LEMMA OneIsApart == OneAtATime => Apart
  BY DEF OneAtATime, Apart, Moving

\* While one run works at a time, a ROUTED row names a place that holds its own file
\* in full, unless a library place was vacated by a move that was not recorded
\* (RouteOrchestrator._complete_prior_move).
THEOREM RoutedIsOwn ==
  ASSUME KnownSize = Files PROVE Spec /\ []OneAtATime => []RoutedHoldsOwnUnlessVacated
<1>1. RouteInv => RoutedHoldsOwnUnlessVacated
  BY DEF RouteInv, Settled, RoutedHoldsOwnUnlessVacated
<1> QED
  BY <1>1, RoutingInvariant, PTL

\* ... and a run that gives up a file that has gone from staging has not overlooked
\* it at its destination (RouteOrchestrator._complete_prior_move).
THEOREM RetryFinds ==
  ASSUME KnownSize = Files
  PROVE  Spec /\ []OneAtATime => RetryFindsTheMoveUnlessVacated
<1> DEFINE Finds == ~vacated => \A r \in Runs :
                      pc[r] = "marked" /\ pc'[r] = "commit" /\ outcome'[r] = "error"
                        => stray[cur[r]] # Shelf(Known(r).slot, 0)
<1>1. ASSUME TypeInv, RouteInv, [Next]_vars PROVE [Finds]_vars
  <2> SUFFICES ASSUME ~vacated, NEW r \in Runs, pc[r] = "marked", pc'[r] = "commit",
                      outcome'[r] = "error", stray[cur[r]] = Shelf(Known(r).slot, 0)
               PROVE  FALSE
    OBVIOUS
  <2> DEFINE f == cur[r]  home == Shelf(Known(r).slot, 0)
  <2>1. /\ f \in Files /\ Source(r) = row[f].path /\ home \in Shelves /\ home # NoPlace
    BY <1>1, SourceFacts, PlaceFacts DEF AtWork
  <2>2. /\ row[f].path = Staged(f) /\ ~Exists(Staged(f)) /\ disk[home] = Whole(f)
    BY <1>1, <2>1 DEF RouteInv, Settled, Strays
  <2>3. LooksMoved(r) /\ SizeMatches(f, home)
    BY <2>1, <2>2, PlaceFacts, ContentFacts DEF LooksMoved, SizeMatches, Exists
  <2>4. CompletePriorMove(r) \/ PlaceFile(r)
    BY <1>1, ResolvedBy
  <2>5. CompletePriorMove(r)
    BY <2>3, <2>4 DEF PlaceFile
  <2>6. Decide(r, "commit", "routed", home)
    BY <2>3, <2>5 DEF CompletePriorMove
  <2> QED
    BY <1>1, <2>6 DEF Decide, TypeInv, TypeOK
<1>2. [][Finds]_vars => RetryFindsTheMoveUnlessVacated
  BY DEF RetryFindsTheMoveUnlessVacated
<1> QED
  BY <1>1, <1>2, RoutingInvariant, PTL DEF Spec

=============================================================================
