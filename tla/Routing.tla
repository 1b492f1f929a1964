------------------------------- MODULE Routing -------------------------------
(***************************************************************************)
(* The RouteOrchestrator (the route task and phase 5 of the sync task)     *)
(* moves matched files out of staging into the library, while users match  *)
(* files again and scan the local files of a show, and runs are lost.      *)
(*                                                                         *)
(* A place <<s, k>> of the library is the k-th suffixed sibling (name.k)   *)
(* of the destination s that a show, a season and a file name give; the    *)
(* staging path of a file f is <<f, 0>>.  The content of a place is what   *)
(* it is a copy of, and whether the copy is complete.  The files differ    *)
(* in size, from one another and from every incomplete copy.               *)
(***************************************************************************)
EXTENDS Integers

CONSTANTS
  Files,         \* rows that have been parsed and matched
  Slots,         \* destinations
  FirstSlot,     \* FirstSlot[f]: what parse has matched f to
  NoSlot,        \* the destination of a show without a local_path
  Foreign,       \* a library file the program does not know
  Occupied,      \* destinations where there is one
  KnownSize,     \* files whose file_size is recorded
  MaxSuffix,     \* bound: suffixes tried
  Runs,          \* runs that may be active together
  MaxLost,       \* bound: runs lost, and exceptions after a move
  TrackingRaises,  \* may the tracking of an episode raise?
  MaxRequests,   \* bound: matches and scans asked for by users
  Nothing, NoFile, NoPlace

ASSUME RoutingConstants ==
  /\ FirstSlot \in [Files -> Slots \cup {NoSlot}]
  /\ Occupied \subseteq Slots /\ KnownSize \subseteq Files
  /\ Files \cap Slots = {} /\ NoSlot \notin Slots \cup Files
  /\ Foreign \notin Files /\ NoFile \notin Files
  /\ MaxSuffix \in Nat /\ MaxLost \in Nat /\ MaxRequests \in Nat
  /\ TrackingRaises \in BOOLEAN

Staged(f) == <<f, 0>>
Shelf(s, k) == <<s, k>>
Places == (Files \X {0}) \cup (Slots \X (0..MaxSuffix))

Whole(c) == <<c, TRUE>>
Partial(c) == <<c, FALSE>>
Contents == ((Files \cup {Foreign}) \X BOOLEAN) \cup {Nothing}

ASSUME RoutingMarkers == NoPlace \notin Places /\ Nothing \notin (Files \cup {Foreign}) \X BOOLEAN

FileStatus == {"matched", "routing", "routed", "error", "missing"}
Rows == [status : FileStatus, path : Places, slot : Slots \cup {NoSlot}]
Loaded == UNION {[fs -> Rows] : fs \in SUBSET Files}

VARIABLES
  row,        \* the columns of downloaded_files that routing works with
  disk,       \* what is at each place
  pc,         \* where a run is
  view,       \* the rows a run loaded at its start and has not routed yet
  cur,        \* the file a run is routing
  dest,       \* where it decided to put it
  outcome,    \* the status it is about to commit
  scan,       \* the row as a scan of the local files has read it
  stray,      \* history: where a move that was not recorded has left a file
  vacated,    \* history: has such a move emptied a library place a row names?
  lost,       \* how many runs were lost, or raised after a move
  requests    \* how many matches and scans users asked for

runVars == <<pc, view, cur, dest, outcome>>
vars == <<row, disk, runVars, scan, stray, vacated, lost, requests>>

RunPoints == {"idle", "next", "marked", "move", "copy", "delete", "commit"}

TypeOK ==
  /\ row \in [Files -> Rows]
  /\ disk \in [Places -> Contents]
  /\ pc \in [Runs -> RunPoints]
  /\ view \in [Runs -> Loaded]
  /\ cur \in [Runs -> Files \cup {NoFile}]
  /\ dest \in [Runs -> Places \cup {NoPlace}]
  /\ outcome \in [Runs -> {"none", "routed", "error"}]
  /\ scan \in [Files -> Rows \cup {Nothing}]
  /\ stray \in [Files -> Places \cup {NoPlace}]
  /\ vacated \in BOOLEAN
  /\ lost \in 0..MaxLost
  /\ requests \in 0..MaxRequests

NoRows == [f \in {} |-> Nothing]

Init ==
  /\ row = [f \in Files |->
             [status |-> "matched", path |-> Staged(f), slot |-> FirstSlot[f]]]
  /\ disk = [p \in Places |-> IF p[1] \in Files THEN Whole(p[1])
                              ELSE IF p[1] \in Occupied /\ p[2] = 0 THEN Whole(Foreign)
                              ELSE Nothing]
  /\ pc = [r \in Runs |-> "idle"]
  /\ view = [r \in Runs |-> NoRows]
  /\ cur = [r \in Runs |-> NoFile]
  /\ dest = [r \in Runs |-> NoPlace]
  /\ outcome = [r \in Runs |-> "none"]
  /\ scan = [f \in Files |-> Nothing]
  /\ stray = [f \in Files |-> NoPlace]
  /\ vacated = FALSE
  /\ lost = 0
  /\ requests = 0

-----------------------------------------------------------------------------
(* The file system. *)

Exists(p) == disk[p] # Nothing

\* Mutant: whatever is there is taken for the file.
AnySizeMatches(f, p) == TRUE

\* file_size, when recorded, is the size of what is there.
SizeMatches(f, p) == f \in KnownSize => disk[p] = Whole(f)

\* The first free suffix, and the preferred name itself if it is free or the
\* file's own.
FreeSuffix(s) ==
  {k \in 0..MaxSuffix : ~Exists(Shelf(s, k)) /\ \A j \in 0..(k-1) : Exists(Shelf(s, j))}

\* Mutant: the preferred destination, occupied or not.
SameDestination(s, path) == {Shelf(s, 0)}

UniqueDestination(s, path) ==
  IF path = Shelf(s, 0) THEN {path} ELSE {Shelf(s, k) : k \in FreeSuffix(s)}

-----------------------------------------------------------------------------
(* A run. *)

\* What the session of r knows of the file it is routing.
Known(r) == view[r][cur[r]]
Source(r) == Known(r).path

WithoutCur(r) == [f \in DOMAIN view[r] \ {cur[r]} |-> view[r][f]]

\* Mutant: rows in ROUTING are left alone.
Unmatched(f) == row[f].status = "matched"

\* What a run selects.
Routable(f) == row[f].status \in {"matched", "routing"}

StartRun(r) ==
  /\ pc[r] = "idle"
  /\ \E f \in Files : Routable(f)
  /\ view' = [view EXCEPT ![r] = [f \in {g \in Files : Routable(g)} |-> row[f]]]
  /\ pc' = [pc EXCEPT ![r] = "next"]
  /\ UNCHANGED <<row, disk, cur, dest, outcome, scan, stray, vacated, lost, requests>>

\* The show has no local_path: ERROR, and on to the next file.
SkipFile(r, f) ==
  /\ pc[r] = "next" /\ f \in DOMAIN view[r]
  /\ view[r][f].slot = NoSlot
  /\ row' = [row EXCEPT ![f].status = "error"]
  /\ view' = [view EXCEPT ![r] = [g \in DOMAIN view[r] \ {f} |-> view[r][g]]]
  /\ UNCHANGED <<disk, pc, cur, dest, outcome, scan, stray, vacated, lost, requests>>

\* The row is marked ROUTING.  One that was ROUTING when the run loaded it is
\* not written.
MarkFile(r, f) ==
  /\ pc[r] = "next" /\ f \in DOMAIN view[r]
  /\ view[r][f].slot # NoSlot
  /\ row' = IF view[r][f].status = "routing" THEN row
            ELSE [row EXCEPT ![f].status = "routing"]
  /\ cur' = [cur EXCEPT ![r] = f]
  /\ pc' = [pc EXCEPT ![r] = "marked"]
  /\ UNCHANGED <<disk, view, dest, outcome, scan, stray, vacated, lost, requests>>

\* Every file is done, or on_progress raises between two files.
EndRun(r) ==
  /\ pc[r] = "next"
  /\ pc' = [pc EXCEPT ![r] = "idle"]
  /\ view' = [view EXCEPT ![r] = NoRows]
  /\ UNCHANGED <<row, disk, cur, dest, outcome, scan, stray, vacated, lost, requests>>

\* The run decides; `p` is NoPlace when it leaves local_path as it is.
Decide(r, point, what, p) ==
  /\ pc' = [pc EXCEPT ![r] = point]
  /\ outcome' = [outcome EXCEPT ![r] = what]
  /\ dest' = [dest EXCEPT ![r] = p]
  /\ UNCHANGED <<view, cur>>

\* Mutant: an earlier move is not looked for.
NeverLooksMoved(r) == FALSE

\* The staging file is gone and the destination is there: a lost run's move.
LooksMoved(r) ==
  LET home == Shelf(Known(r).slot, 0)
  IN  ~Exists(Source(r)) /\ Exists(home) /\ Source(r) # home

\* _complete_prior_move.
CompletePriorMove(r) ==
  /\ pc[r] = "marked" /\ LooksMoved(r)
  /\ LET home == Shelf(Known(r).slot, 0)
     IN  IF SizeMatches(cur[r], home) THEN Decide(r, "commit", "routed", home)
                                      ELSE Decide(r, "commit", "error", NoPlace)
  /\ UNCHANGED <<row, disk, scan, stray, vacated, lost, requests>>

\* _place_file up to the move.
PlaceFile(r) ==
  /\ pc[r] = "marked" /\ ~LooksMoved(r)
  /\ \/ ~Exists(Source(r)) /\ Decide(r, "commit", "error", NoPlace)
     \/ /\ Exists(Source(r))
        /\ \E p \in UniqueDestination(Known(r).slot, Source(r)) :
             IF p = Source(r) THEN Decide(r, "commit", "routed", NoPlace)
                              ELSE Decide(r, "move", "none", p)
  /\ UNCHANGED <<row, disk, scan, stray, vacated, lost, requests>>

\* shutil.move renames within a file system, over whatever is there.
Rename(r) ==
  /\ pc[r] = "move" /\ Exists(Source(r))
  /\ disk' = [disk EXCEPT ![dest[r]] = disk[Source(r)], ![Source(r)] = Nothing]
  /\ Decide(r, "commit", "routed", dest[r])
  /\ UNCHANGED <<row, scan, stray, vacated, lost, requests>>

\* ... and otherwise copies
CopyBegin(r) ==
  /\ pc[r] = "move" /\ Exists(Source(r))
  /\ disk' = [disk EXCEPT ![dest[r]] = Partial(disk[Source(r)][1])]
  /\ Decide(r, "copy", "none", dest[r])
  /\ UNCHANGED <<row, scan, stray, vacated, lost, requests>>

CopyEnd(r) ==
  /\ pc[r] = "copy" /\ Exists(Source(r))
  /\ disk' = [disk EXCEPT ![dest[r]] = disk[Source(r)]]
  /\ Decide(r, "delete", "none", dest[r])
  /\ UNCHANGED <<row, scan, stray, vacated, lost, requests>>

\* ... and deletes.  Where it may not, the file is routed all the same, because
\* the destination has the size of the original.
DeleteSource(r) ==
  /\ pc[r] = "delete" /\ Exists(Source(r))
  /\ disk' \in {disk, [disk EXCEPT ![Source(r)] = Nothing]}
  /\ Decide(r, "commit", "routed", dest[r])
  /\ UNCHANGED <<row, scan, stray, vacated, lost, requests>>

\* The rename, the copy or the delete fails for good: ERROR, with local_path
\* where it was.
MoveFail(r) ==
  /\ \/ pc[r] \in {"move", "copy"}
     \/ pc[r] = "delete" /\ ~Exists(Source(r))
  /\ Decide(r, "commit", "error", NoPlace)
  /\ UNCHANGED <<row, disk, scan, stray, vacated, lost, requests>>

\* Mutant: a file that is already in place gets the path of no move.
NewPathAlways(r) == IF outcome[r] = "routed" THEN dest[r] ELSE row[cur[r]].path

\* local_path is written when the file was moved.
NewPath(r) ==
  IF outcome[r] = "routed" /\ dest[r] # NoPlace THEN dest[r] ELSE row[cur[r]].path

\* _mark_routed or the except clause, and the closing commit.
CommitFile(r) ==
  LET f == cur[r]
  IN  /\ pc[r] = "commit"
      /\ row' = [row EXCEPT ![f] = [status |-> outcome[r], path |-> NewPath(r),
                                    slot |-> row[f].slot]]
      /\ stray' = IF outcome[r] = "routed" THEN [stray EXCEPT ![f] = NoPlace] ELSE stray
      /\ pc' = [pc EXCEPT ![r] = "next"]
      /\ view' = [view EXCEPT ![r] = WithoutCur(r)]
      /\ cur' = [cur EXCEPT ![r] = NoFile]
      /\ dest' = [dest EXCEPT ![r] = NoPlace]
      /\ outcome' = [outcome EXCEPT ![r] = "none"]
      /\ UNCHANGED <<disk, scan, vacated, lost, requests>>

\* The file is not where its row says any more.
MovedAway(r) == outcome[r] = "routed" /\ dest[r] # NoPlace /\ ~Exists(Source(r))

\* The move of r, if it made one, will not be recorded.
ForgetMove(r) ==
  /\ lost < MaxLost
  /\ lost' = lost + 1
  /\ IF MovedAway(r)
       THEN /\ stray' = [stray EXCEPT ![cur[r]] = dest[r]]
            /\ vacated' = (vacated \/ Source(r)[1] \in Slots)
       ELSE UNCHANGED <<stray, vacated>>

\* _mark_routed raises in the tracking of the episode: ERROR, and local_path is
\* reset to where the file was before the move.
TrackFail(r) ==
  /\ TrackingRaises /\ pc[r] = "commit" /\ outcome[r] = "routed"
  /\ ForgetMove(r)
  /\ Decide(r, "commit", "error", NoPlace)
  /\ UNCHANGED <<row, disk, scan, requests>>

\* The worker dies, or the closing commit fails: what was not committed is lost,
\* what was moved stays moved.
Lose(r) ==
  /\ pc[r] # "idle"
  /\ ForgetMove(r)
  /\ pc' = [pc EXCEPT ![r] = "idle"]
  /\ view' = [view EXCEPT ![r] = NoRows]
  /\ cur' = [cur EXCEPT ![r] = NoFile]
  /\ dest' = [dest EXCEPT ![r] = NoPlace]
  /\ outcome' = [outcome EXCEPT ![r] = "none"]
  /\ UNCHANGED <<row, disk, scan, requests>>

-----------------------------------------------------------------------------
(* Users. *)

\* POST /files/{id}/match assigns a file to a show that has a local_path; from
\* any of these states, ROUTING included.
MatchFile(f, s) ==
  /\ requests < MaxRequests
  /\ requests' = requests + 1
  /\ row[f].status \in {"matched", "routing", "routed", "error"}
  /\ row' = [row EXCEPT ![f].status = "matched", ![f].slot = s]
  /\ UNCHANGED <<disk, runVars, scan, stray, vacated, lost>>

\* A scan of the show's local files reads the rows that are not in flight ...
ScanRead(f) ==
  /\ requests < MaxRequests
  /\ requests' = requests + 1
  /\ scan[f] = Nothing /\ row[f].status # "routing"
  /\ scan' = [scan EXCEPT ![f] = row[f]]
  /\ UNCHANGED <<row, disk, runVars, stray, vacated, lost>>

\* ... looks for the files in a thread, and writes the rows that changed state.
ScanWrite(f) ==
  /\ scan[f] # Nothing
  /\ LET gone == ~Exists(scan[f].path)
         missing == scan[f].status = "missing"
     IN  row' = IF gone /\ ~missing THEN [row EXCEPT ![f].status = "missing"]
                ELSE IF ~gone /\ missing THEN [row EXCEPT ![f].status = "matched"]
                ELSE row
  /\ scan' = [scan EXCEPT ![f] = Nothing]
  /\ UNCHANGED <<disk, runVars, stray, vacated, lost, requests>>

-----------------------------------------------------------------------------
Advance(r) ==
  \/ CompletePriorMove(r) \/ PlaceFile(r) \/ Rename(r) \/ CopyBegin(r) \/ CopyEnd(r)
  \/ DeleteSource(r) \/ MoveFail(r) \/ CommitFile(r)

Next ==
  \/ \E r \in Runs : StartRun(r) \/ Advance(r) \/ EndRun(r) \/ TrackFail(r) \/ Lose(r)
  \/ \E r \in Runs, f \in Files : SkipFile(r, f) \/ MarkFile(r, f)
  \/ \E f \in Files, s \in Slots : MatchFile(f, s)
  \/ \E f \in Files : ScanRead(f) \/ ScanWrite(f)

Spec == Init /\ [][Next]_vars

\* Route and sync tasks are started, and a run that is not lost works off the
\* rows it has loaded, unless users keep cancelling.
FairSpec ==
  /\ Spec
  /\ \A r \in Runs : /\ WF_vars(StartRun(r))
                     /\ WF_vars(Advance(r))
                     /\ WF_vars(view[r] = NoRows /\ EndRun(r))
                     /\ \A f \in Files : SF_vars(SkipFile(r, f) \/ MarkFile(r, f))

-----------------------------------------------------------------------------
(* Properties. *)

\* Every file, and every library file that was there, exists in full somewhere:
\* no move overwrites a file (RouteOrchestrator._unique_destination).
ContentKept ==
  /\ \A f \in Files : \E p \in Places : disk[p] = Whole(f)
  /\ \A s \in Occupied : disk[Shelf(s, 0)] = Whole(Foreign)

\* The local_path of a ROUTED row holds that row's file in full, whoever else had
\* the same destination (RouteOrchestrator._complete_prior_move).
RoutedHoldsOwn == \A f \in Files : row[f].status = "routed" => disk[row[f].path] = Whole(f)

\* The same as long as no unrecorded move has emptied a library place that a row
\* still names, for another file to be put there.
RoutedHoldsOwnUnlessVacated == ~vacated => RoutedHoldsOwn

\* A run works on the row.
Handled(f) == \E r \in Runs : cur[r] = f

\* A run that does not find a file in staging, and gives it up, has not overlooked
\* it at its own destination (the ROUTING retry of _complete_prior_move), as long as
\* no other row can have taken it from there.
RetryFindsTheMoveUnlessVacated ==
  [][~vacated => \A r \in Runs : pc[r] = "marked" /\ pc'[r] = "commit" /\ outcome'[r] = "error"
                                 => stray[cur[r]] # Shelf(Known(r).slot, 0)]_vars

\* "A crash after the move but before the commit is still recovered": no row ends
\* in ERROR whose file a lost run has moved.
CrashIsRecovered == \A f \in Files : row[f].status = "error" => stray[f] = NoPlace

\* A row does not stay ROUTING.
RoutingEnds == \A f \in Files : row[f].status = "routing" ~> row[f].status # "routing"

=============================================================================
