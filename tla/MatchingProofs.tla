--------------------------- MODULE MatchingProofs ---------------------------
(***************************************************************************)
(* Proofs about Matching, for any number of runs, users, files, shows and  *)
(* episodes, and any number of requests, loads and aborts: what a row that *)
(* nobody has written from an outdated view looks like.                    *)
(***************************************************************************)
EXTENDS Matching, TLAPS

-----------------------------------------------------------------------------
(* Rows and changed columns. *)

Deltas == {Changes(a, b) : a, b \in Row}

\* A row is a function of its columns.
LEMMA RowIsFunction ==
  ASSUME NEW a \in Row
  PROVE  /\ a = [c \in Columns |-> a[c]]
         /\ a.st = a["st"] /\ a.show = a["show"] /\ a.ep = a["ep"] /\ a.by = a["by"]
  BY DEF Row, Columns

LEMMA FunctionIsRow ==
  ASSUME NEW a, a = [c \in Columns |-> a[c]], a["st"] \in Statuses,
         a["show"] \in Shows \cup {None}, a["ep"] \in Episodes \cup {None}, a["by"] \in Matchers
  PROVE  a \in Row
<1>1. a = [st |-> a["st"], show |-> a["show"], ep |-> a["ep"], by |-> a["by"]]
  BY DEF Columns
<1> QED
  BY <1>1 DEF Row

\* Updating with the changed columns leaves a row, and yields the new one if the
\* row is the one that the changes were computed from.
LEMMA UpdatedIsRow ==
  ASSUME NEW x \in Row, NEW d \in Deltas
  PROVE  Updated(x, d) \in Row
<1>1. PICK a \in Row, b \in Row : d = Changes(a, b)
  BY DEF Deltas
<1>2. /\ DOMAIN d \subseteq Columns
      /\ \A c \in DOMAIN d : d[c] = b[c]
  BY <1>1 DEF Changes
<1>3. \A c \in Columns : Updated(x, d)[c] = x[c] \/ Updated(x, d)[c] = b[c]
  BY <1>2 DEF Updated
<1>4. Updated(x, d) = [c \in Columns |-> Updated(x, d)[c]]
  BY DEF Updated
<1> QED
  BY <1>3, <1>4, FunctionIsRow DEF Row, Columns

LEMMA UpdatedIsNew ==
  ASSUME NEW a \in Row, NEW b \in Row
  PROVE  Updated(a, Changes(a, b)) = b /\ Changes(a, b) \in Deltas
<1>1. \A c \in Columns : Updated(a, Changes(a, b))[c] = b[c]
  BY DEF Updated, Changes
<1> QED
  BY <1>1, RowIsFunction DEF Updated, Deltas

LEMMA NothingChanges ==
  /\ NoChange \in Deltas
  /\ \A x \in Row : Updated(x, NoChange) = x
  /\ \A a, b \in Row : Changes(a, b) = NoChange => a = b
<1>1. ASSUME NEW x \in Row PROVE Updated(x, NoChange) = x /\ Changes(x, x) = NoChange
  BY RowIsFunction DEF Updated, NoChange, Changes
<1>2. ASSUME NEW a \in Row, NEW b \in Row, Changes(a, b) = NoChange PROVE a = b
  <2>1. \A c \in Columns : a[c] = b[c]
    BY <1>2 DEF Changes, NoChange
  <2> QED
    BY <2>1, RowIsFunction
<1>3. [st |-> "discovered", show |-> None, ep |-> None, by |-> "none"] \in Row
  BY DEF Row, Statuses, Matchers
<1> QED
  BY <1>1, <1>2, <1>3 DEF Deltas
-----------------------------------------------------------------------------
(* The invariant. *)

Points == {"idle", "loaded", "parsing", "filling", "linking"}

\* The variables that are indexed by files, runs and actors.
Types ==
  /\ row \in [Files -> Row] /\ known \subseteq Episodes
  /\ pc \in [Runs -> Points] /\ cur \in [Runs -> Files \cup {None}]
  /\ loaded = [r \in Runs |-> loaded[r]]
  /\ pending \in [Runs -> [Files -> Deltas]]
  /\ added \in [Runs -> SUBSET Episodes]
  /\ gaps \in [Runs -> SUBSET (Files \X Shows)]
  /\ behind \in [Actors -> SUBSET Files]
  /\ request \in [Users -> {Nobody} \cup [file : Files, row : Row]]

\* A row with an episode is matched, and to the show of the episode.
Sound(x) == x.ep # None => x.st = "matched" /\ x.show = ShowOf[x.ep]

\* Where a run is, and what it may have in hand there.
RunIsInOrder(r) ==
  /\ pc[r] = "parsing" <=> cur[r] # None
  /\ pc[r] = "parsing" => cur[r] \in DOMAIN loaded[r]
  /\ pc[r] \in {"idle", "filling", "linking"} =>
       DOMAIN loaded[r] = {} /\ \A f \in Files : ~Holds(r, f)
  /\ pc[r] # "linking" => gaps[r] = {}

\* The rows a run has still to handle are as it has loaded them, or changed
\* behind its back.
LoadedIsRow(r) ==
  \A f \in DOMAIN loaded[r] :
    /\ f \in Files /\ ~Holds(r, f) /\ row[f].st # "discovered"
    /\ loaded[r][f] \in Row /\ loaded[r][f].st \in {"downloaded", "unmatched"}
    /\ f \notin behind[r] => loaded[r][f] = row[f]

\* A row that a run is to commit was waiting, and will be sound.
PendingIsSound(r) ==
  \A f \in Files : Holds(r, f) =>
    /\ row[f].st # "discovered" /\ Updated(row[f], pending[r][f]).st # "discovered"
    /\ f \notin behind[r] => row[f].st \in {"downloaded", "unmatched"}
    /\ f \notin behind[r] \cup raced => Sound(Updated(row[f], pending[r][f]))

\* A gap is filled with an episode of the show that the row has.
GapIsOfShow(r) ==
  \A g \in gaps[r] :
    /\ row[g[1]].st # "discovered"
    /\ g[1] \notin behind[r] =>
         row[g[1]].st = "matched" /\ row[g[1]].show = g[2] /\ row[g[1]].ep = None

RunInv(r) == RunIsInOrder(r) /\ LoadedIsRow(r) /\ PendingIsSound(r) /\ GapIsOfShow(r)

\* So is the row that a user's request has read.
UserInv(u) ==
  request[u] # Nobody =>
    /\ row[request[u].file].st # "discovered" /\ request[u].row.st # "discovered"
    /\ request[u].file \notin behind[u] => request[u].row = row[request[u].file]

\* One session at a time holds the lock of a row.
OneHolder == \A r, q \in Runs : \A f \in Files : Holds(r, f) /\ Holds(q, f) => r = q

RowsAreSound == \A f \in Files \ raced : Sound(row[f])

Views ==
  /\ Types
  /\ \A r \in Runs : RunInv(r)
  /\ \A u \in Users : UserInv(u)
  /\ OneHolder
  /\ RowsAreSound

LEMMA ViewsInitial == Init => Views
<1> SUFFICES ASSUME Init PROVE Views
  OBVIOUS
<1>1. Types
  BY NothingChanges, MatchingConstants
     DEF Init, Types, Points, Row, Statuses, Matchers, Actors
<1>2. \A r \in Runs : RunInv(r)
  BY DEF Init, RunInv, RunIsInOrder, LoadedIsRow, PendingIsSound, GapIsOfShow, Holds
<1> QED
  BY <1>1, <1>2 DEF Init, Views, UserInv, OneHolder, Holds, RowsAreSound, Sound

\* What a step of somebody else leaves of a run: the rows F are written.
LEMMA OtherRun ==
  ASSUME Types, NEW r \in Runs, RunInv(r), NEW F \in SUBSET Files,
         pc'[r] = pc[r], cur'[r] = cur[r], loaded'[r] = loaded[r],
         pending'[r] = pending[r], gaps'[r] = gaps[r],
         behind'[r] = behind[r] \cup (F \cap Viewed(r)), raced \subseteq raced',
         \A f \in Files \ F : row'[f] = row[f],
         \A f \in F : ~Holds(r, f) /\ row'[f].st # "discovered"
  PROVE  RunInv(r)'
<1>1. \A f \in Files : Holds(r, f)' <=> Holds(r, f)
  BY DEF Holds
<1>2. RunIsInOrder(r)'
  BY <1>1 DEF RunInv, RunIsInOrder
<1>3. LoadedIsRow(r)'
  BY <1>1 DEF RunInv, LoadedIsRow, Viewed, Unhandled
<1>4. PendingIsSound(r)'
  BY <1>1 DEF RunInv, PendingIsSound
<1>5. GapIsOfShow(r)'
  <2>1. \A g \in gaps[r] : g[1] \in Files /\ g[1] \in Viewed(r)
    BY DEF Types, Viewed
  <2> QED
    BY <2>1 DEF RunInv, GapIsOfShow
<1> QED
  BY <1>2, <1>3, <1>4, <1>5 DEF RunInv

LEMMA OtherUser ==
  ASSUME Types, NEW u \in Users, UserInv(u), NEW F \in SUBSET Files,
         request'[u] = request[u],
         behind'[u] = behind[u] \cup (F \cap Viewed(u)),
         \A f \in Files \ F : row'[f] = row[f],
         \A f \in F : row'[f].st # "discovered"
  PROVE  UserInv(u)'
<1>1. request[u] # Nobody => request[u].file \in Files /\ request[u].file \in Viewed(u)
  BY MatchingConstants DEF Types, Viewed, Nobody
<1> QED
  BY <1>1 DEF UserInv
-----------------------------------------------------------------------------
(* The commit of a run. *)

\* What the commit does to the rows and the histories.
LEMMA CommitWrites ==
  ASSUME Views, NEW r \in Runs, CommitRun(r)
  PROVE  /\ row' \in [Files -> Row] /\ pending' \in [Runs -> [Files -> Deltas]]
         /\ behind' \in [Actors -> SUBSET Files] /\ added' \in [Runs -> SUBSET Episodes]
         /\ known' \subseteq Episodes /\ raced \subseteq raced'
         /\ \A f \in Files : ~Holds(r, f) => row'[f] = row[f]
         /\ \A f \in Files : Holds(r, f) => row'[f].st # "discovered"
         /\ \A f \in Files : ~Holds(r, f)'
         /\ \A q \in Runs \ {r} : pending'[q] = pending[q]
         /\ behind'[r] = behind[r] \cap DOMAIN loaded[r]
         /\ RowsAreSound'
<1> DEFINE F == {f \in Files : Holds(r, f)}
<1>0. /\ row \in [Files -> Row] /\ known \subseteq Episodes
      /\ pending \in [Runs -> [Files -> Deltas]]
      /\ behind \in [Actors -> SUBSET Files] /\ added \in [Runs -> SUBSET Episodes]
      /\ PendingIsSound(r) /\ RowsAreSound /\ r \in Actors
  BY DEF Views, Types, RunInv, Actors
<1>1. /\ row' = [f \in Files |-> Updated(row[f], pending[r][f])]
      /\ pending' = [pending EXCEPT ![r] = [f \in Files |-> NoChange]]
      /\ known' = known \cup added[r] /\ added' = [added EXCEPT ![r] = {}]
      /\ raced' = raced \cup (F \cap behind[r])
      /\ behind' = [b \in Actors |-> IF b = r THEN behind[r] \cap Unhandled(r)
                                     ELSE behind[b] \cup (F \cap Viewed(b))]
  BY DEF CommitRun, Record
<1>2. ASSUME NEW f \in Files PROVE row'[f] \in Row
  BY <1>0, <1>1, UpdatedIsRow
<1>3. row' \in [Files -> Row]
  BY <1>1, <1>2
<1>4. pending' \in [Runs -> [Files -> Deltas]] /\ added' \in [Runs -> SUBSET Episodes]
      /\ known' \subseteq Episodes
  BY <1>0, <1>1, NothingChanges
<1>5. behind' \in [Actors -> SUBSET Files]
  BY <1>0, <1>1
<1>6. \A f \in Files : ~Holds(r, f) => row'[f] = row[f]
  BY <1>0, <1>1, NothingChanges DEF Holds
<1>7. \A f \in Files : Holds(r, f) => row'[f].st # "discovered"
  BY <1>0, <1>1 DEF PendingIsSound
<1>8. \A f \in Files : ~Holds(r, f)'
  BY <1>0, <1>1 DEF Holds
<1>9. ASSUME NEW f \in Files, f \notin raced' PROVE Sound(row'[f])
  <2>1. CASE Holds(r, f)
    <3>1. f \notin behind[r] \cup raced
      BY <1>1, <1>9, <2>1
    <3> QED
      BY <1>0, <1>1, <2>1, <3>1 DEF PendingIsSound
  <2>2. CASE ~Holds(r, f)
    BY <1>0, <1>1, <1>6, <1>9, <2>2 DEF RowsAreSound
  <2> QED
    BY <2>1, <2>2
<1>10. RowsAreSound'
  BY <1>9 DEF RowsAreSound, Sound
<1>11. behind'[r] = behind[r] \cap DOMAIN loaded[r]
  BY <1>0, <1>1 DEF Unhandled
<1> QED
  BY <1>0, <1>1, <1>3, <1>4, <1>5, <1>6, <1>7, <1>8, <1>10, <1>11

\* What it leaves of the others.
LEMMA CommitElsewhere ==
  ASSUME Views, NEW r \in Runs, CommitRun(r), UNCHANGED userVars,
         \A q \in Runs \ {r} : /\ pc'[q] = pc[q] /\ cur'[q] = cur[q]
                               /\ loaded'[q] = loaded[q] /\ gaps'[q] = gaps[q]
  PROVE  /\ \A q \in Runs \ {r} : RunInv(q)'
         /\ \A u \in Users : UserInv(u)'
         /\ OneHolder'
<1> DEFINE F == {f \in Files : Holds(r, f)}
<1>1. /\ row' \in [Files -> Row] /\ raced \subseteq raced'
      /\ \A f \in Files \ F : row'[f] = row[f]
      /\ \A f \in F : row'[f].st # "discovered"
      /\ \A f \in Files : ~Holds(r, f)'
      /\ \A q \in Runs \ {r} : pending'[q] = pending[q]
  BY CommitWrites
<1>2. \A b \in Actors \ {r} : behind'[b] = behind[b] \cup (F \cap Viewed(b))
  BY DEF CommitRun, Record
<1>3. ASSUME NEW q \in Runs \ {r} PROVE RunInv(q)'
  <2>1. \A f \in F : ~Holds(q, f)
    BY DEF Views, OneHolder
  <2>2. Types /\ RunInv(q) /\ q \in Actors
    BY DEF Views, Actors
  <2> HIDE DEF F
  <2>3. F \in SUBSET Files
    BY DEF F
  <2> QED
    BY <1>1, <1>2, <2>1, <2>2, <2>3, OtherRun
<1>4. ASSUME NEW u \in Users PROVE UserInv(u)'
  <2>1. Types /\ UserInv(u) /\ u \in Actors \ {r} /\ request'[u] = request[u]
    BY MatchingConstants DEF Views, Actors, userVars
  <2> HIDE DEF F
  <2>2. F \in SUBSET Files
    BY DEF F
  <2> QED
    BY <1>1, <1>2, <2>1, <2>2, OtherUser
<1>5. OneHolder'
  BY <1>1 DEF OneHolder, Views, Holds
<1> QED
  BY <1>3, <1>4, <1>5
-----------------------------------------------------------------------------
(* The steps of a run. *)

\* A step of a run that writes no row.
LEMMA AloneStep ==
  ASSUME Views, NEW r \in Runs, row' = row, raced' = raced, request' = request,
         \A q \in Runs \ {r} : /\ pc'[q] = pc[q] /\ cur'[q] = cur[q] /\ loaded'[q] = loaded[q]
                               /\ pending'[q] = pending[q] /\ gaps'[q] = gaps[q],
         \A b \in Actors \ {r} : behind'[b] = behind[b],
         Types', RunInv(r)', OneHolder'
  PROVE  Views'
<1>1. ASSUME NEW q \in Runs \ {r} PROVE RunInv(q)'
  <2>1. Types /\ RunInv(q) /\ q \in Actors
    BY DEF Views, Actors
  <2> DEFINE F == {}
  <2>2. /\ F \in SUBSET Files /\ raced \subseteq raced'
        /\ behind'[q] = behind[q] \cup (F \cap Viewed(q))
        /\ \A f \in Files \ F : row'[f] = row[f]
        /\ \A f \in F : ~Holds(q, f) /\ row'[f].st # "discovered"
    BY <2>1
  <2> HIDE DEF F
  <2> QED
    BY <2>1, <2>2, OtherRun
<1>2. ASSUME NEW u \in Users PROVE UserInv(u)'
  <2>1. UserInv(u) /\ u \in Actors \ {r}
    BY MatchingConstants DEF Views, Actors
  <2> QED
    BY <2>1 DEF UserInv
<1>3. RowsAreSound'
  BY DEF Views, RowsAreSound, Sound
<1> QED
  BY <1>1, <1>2, <1>3 DEF Views

LEMMA LoadStep == ASSUME Views, NEW r \in Runs, Load(r) PROVE Views'
<1>0. Types /\ RunInv(r) /\ OneHolder
  BY DEF Views
<1>1. /\ pc' = [pc EXCEPT ![r] = "loaded"] /\ cur' = cur /\ pending' = pending /\ gaps' = gaps
      /\ loaded' = [loaded EXCEPT ![r] = [f \in Waiting |-> row[f]]]
      /\ row' = row /\ known' = known /\ added' = added /\ raced' = raced /\ behind' = behind
      /\ request' = request /\ pc[r] = "idle"
  BY DEF Load, userVars
<1>2. loaded'[r] = [f \in Waiting |-> row[f]] /\ pc'[r] = "loaded"
  BY <1>0, <1>1 DEF Types
<1>3. Types'
  BY <1>0, <1>1 DEF Types, Points
<1>4. \A q \in Runs, f \in Files : Holds(q, f)' <=> Holds(q, f)
  BY <1>1 DEF Holds
<1>5. RunInv(r)'
  <2>1. RunIsInOrder(r)'
    BY <1>0, <1>1, <1>2, <1>4 DEF RunInv, RunIsInOrder
  <2>2. LoadedIsRow(r)'
    BY <1>0, <1>1, <1>2, <1>4 DEF RunInv, RunIsInOrder, LoadedIsRow, Waiting, Types
  <2>3. PendingIsSound(r)' /\ GapIsOfShow(r)'
    BY <1>0, <1>1, <1>4 DEF RunInv, PendingIsSound, GapIsOfShow
  <2> QED
    BY <2>1, <2>2, <2>3 DEF RunInv
<1>6. OneHolder'
  BY <1>0, <1>1 DEF OneHolder, Holds
<1> QED
  BY <1>0, <1>1, <1>3, <1>5, <1>6, AloneStep DEF Types

\* A file is handled: the columns that differ from what was loaded are flushed.
LEMMA FlushStep ==
  ASSUME Views, NEW r \in Runs, NEW new \in Row, Flush(r, new),
         new.st # "discovered", Sound(loaded[r][cur[r]]) => Sound(new),
         added' \in [Runs -> SUBSET Episodes]
  PROVE  Views'
<1> DEFINE f == cur[r]
           old == loaded[r][f]
           delta == Changes(old, new)
<1>0. Types /\ RunInv(r) /\ OneHolder /\ RowsAreSound
  BY DEF Views
<1>1. /\ pc[r] = "parsing" /\ Unlocked(f, r)
      /\ pending' = [pending EXCEPT ![r][f] = delta]
      /\ loaded' = [loaded EXCEPT ![r] = [g \in DOMAIN @ \ {f} |-> @[g]]]
      /\ behind' = [behind EXCEPT ![r] = IF delta = NoChange THEN @ \ {f} ELSE @]
      /\ cur' = [cur EXCEPT ![r] = None] /\ pc' = [pc EXCEPT ![r] = "loaded"]
      /\ row' = row /\ known' = known /\ gaps' = gaps /\ request' = request /\ raced' = raced
  BY DEF Flush, userVars
<1>2. /\ f \in DOMAIN loaded[r] /\ f \in Files /\ old \in Row
      /\ old.st \in {"downloaded", "unmatched"} /\ row[f].st # "discovered" /\ ~Holds(r, f)
      /\ f \notin behind[r] => old = row[f]
  BY <1>0, <1>1 DEF RunInv, RunIsInOrder, LoadedIsRow
<1>3. delta \in Deltas /\ Updated(old, delta) = new /\ r \in Actors
  BY <1>2, UpdatedIsNew DEF Actors
<1> HIDE DEF delta, old, f
<1>4. /\ pending'[r] = [pending[r] EXCEPT ![f] = delta]
      /\ loaded'[r] = [g \in DOMAIN loaded[r] \ {f} |-> loaded[r][g]]
      /\ behind'[r] = IF delta = NoChange THEN behind[r] \ {f} ELSE behind[r]
      /\ pc'[r] = "loaded" /\ cur'[r] = None
  BY <1>0, <1>1, <1>3 DEF Types
<1>5. Types'
  BY <1>0, <1>1, <1>2, <1>3 DEF Types, Points
<1>6. \A g \in Files : Holds(r, g)' <=> IF g = f THEN delta # NoChange ELSE Holds(r, g)
  BY <1>0, <1>2, <1>4 DEF Holds, Types
<1>7. OneHolder'
  BY <1>0, <1>1, <1>2, <1>6 DEF OneHolder, Holds, Unlocked
<1>8. Updated(row[f], delta).st # "discovered"
  <2>1. PICK b \in Row : delta = Changes(old, b) /\ b = new
    BY <1>2 DEF delta
  <2>2. \A c \in DOMAIN delta : delta[c] = new[c]
    BY <2>1 DEF Changes
  <2>3. Updated(row[f], delta)["st"] = row[f]["st"] \/ Updated(row[f], delta)["st"] = new["st"]
    BY <2>2 DEF Updated, Columns
  <2>4. row[f] \in Row
    BY <1>0, <1>2 DEF Types
  <2>5. Updated(row[f], delta) \in Row
    BY <1>3, <2>4, UpdatedIsRow
  <2> QED
    BY <1>2, <2>3, <2>4, <2>5, RowIsFunction
<1>9. f \notin behind[r] \cup raced => Sound(Updated(row[f], delta))
  <2>1. SUFFICES ASSUME f \notin behind[r] \cup raced PROVE Sound(new)
    BY <1>2, <1>3
  <2>2. Sound(row[f])
    BY <1>0, <1>2, <2>1 DEF RowsAreSound
  <2> QED
    BY <1>2, <2>1, <2>2 DEF old, f
<1>10. RunIsInOrder(r)'
  BY <1>0, <1>1, <1>4 DEF RunInv, RunIsInOrder
<1>11. LoadedIsRow(r)'
  BY <1>0, <1>1, <1>4, <1>6 DEF RunInv, LoadedIsRow
<1>12. PendingIsSound(r)'
  <2>1. ASSUME NEW g \in Files, Holds(r, g)'
        PROVE  /\ row[g].st # "discovered" /\ Updated(row[g], pending'[r][g]).st # "discovered"
               /\ g \notin behind'[r] => row[g].st \in {"downloaded", "unmatched"}
               /\ g \notin behind'[r] \cup raced => Sound(Updated(row[g], pending'[r][g]))
    <3>1. CASE g = f
      <4>1. pending'[r][g] = delta /\ delta # NoChange
        BY <1>0, <1>4, <1>6, <2>1, <3>1 DEF Types
      <4> QED
        BY <1>2, <1>4, <1>8, <1>9, <3>1, <4>1
    <3>2. CASE g # f
      <4>1. pending'[r][g] = pending[r][g] /\ Holds(r, g) /\ (g \in behind[r] => g \in behind'[r])
        BY <1>0, <1>4, <1>6, <2>1, <3>2 DEF Types
      <4> QED
        BY <1>0, <4>1 DEF RunInv, PendingIsSound
    <3> QED
      BY <3>1, <3>2
  <2> QED
    BY <1>1, <2>1 DEF PendingIsSound, Sound
<1>13. GapIsOfShow(r)'
  BY <1>0, <1>1 DEF RunInv, RunIsInOrder, GapIsOfShow
<1> QED
  BY <1>0, <1>1, <1>3, <1>5, <1>7, <1>10, <1>11, <1>12, <1>13, AloneStep DEF Types, RunInv, Actors

\* What a parse may find, with its effect on the row.
LEMMA ParseStep == ASSUME Views, NEW r \in Runs, Parse(r) PROVE Views'
<1>0. /\ Types /\ added \in [Runs -> SUBSET Episodes]
      /\ (pc[r] = "parsing" => cur[r] \in DOMAIN loaded[r])
      /\ LoadedIsRow(r)
  BY DEF Views, Types, RunInv, RunIsInOrder
<1> DEFINE old == Attributes(r)
<1>1. pc[r] = "parsing" => /\ old = loaded[r][cur[r]] /\ old \in Row
                           /\ (Sound(old) => old.ep = None)
  BY <1>0 DEF LoadedIsRow, Attributes, Sound
<1>2. CASE LeaveUnmatched(r)
  <2> DEFINE new == [old EXCEPT !.st = "unmatched"]
  <2>1. pc[r] = "parsing" /\ Flush(r, new) /\ added' = added
    BY <1>2 DEF LeaveUnmatched
  <2>2. new \in Row /\ new.st # "discovered" /\ (Sound(old) => Sound(new))
    BY <1>1, <2>1 DEF Row, Statuses, Sound
  <2> HIDE DEF new
  <2> QED
    BY <1>0, <1>1, <2>1, <2>2, FlushStep
<1>3. ASSUME NEW s \in Shows, FailFile(r, s) PROVE Views'
  <2> DEFINE new(x) == [old EXCEPT !.st = "error", !.show = x]
  <2>1. PICK x \in Shows \cup {None} :
          pc[r] = "parsing" /\ Flush(r, new(x)) /\ added' = added
    <3>1. CASE Flush(r, [old EXCEPT !.st = "error"])
      <4>1. pc[r] = "parsing" /\ added' = added
        BY <1>3 DEF FailFile
      <4>2. [old EXCEPT !.st = "error"] = new(old.show) /\ old.show \in Shows \cup {None}
        BY <1>1, <4>1 DEF Row
      <4> QED
        BY <3>1, <4>1, <4>2
    <3> QED
      BY <1>3, <3>1 DEF FailFile
  <2>2. new(x) \in Row /\ new(x).st # "discovered" /\ (Sound(old) => Sound(new(x)))
    BY <1>1, <2>1 DEF Row, Statuses, Sound
  <2> HIDE DEF new
  <2> QED
    BY <1>0, <1>1, <2>1, <2>2, FlushStep
<1>4. ASSUME NEW e \in Episodes, Link(r, e), added' \in [Runs -> SUBSET Episodes],
             pc[r] = "parsing"
      PROVE  Views'
  <2> DEFINE new == [st |-> "matched", show |-> ShowOf[e], ep |-> e, by |-> "auto"]
  <2>1. new \in Row /\ new.st # "discovered" /\ Sound(new) /\ Flush(r, new)
    BY <1>4, MatchingConstants DEF Link, Row, Statuses, Matchers, Sound
  <2> HIDE DEF new
  <2> QED
    BY <1>4, <2>1, FlushStep
<1>5. ASSUME NEW e \in Episodes, LinkFile(r, e) PROVE Views'
  BY <1>0, <1>4, <1>5 DEF LinkFile
<1>6. ASSUME NEW e \in Episodes, RefreshAndLink(r, e) PROVE Views'
  BY <1>0, <1>4, <1>6 DEF RefreshAndLink
<1>7. ASSUME NEW s \in Shows, NEW x \in {"unmatched", "matched"}, added' = added,
             Flush(r, [st |-> x, show |-> s, ep |-> None, by |-> "auto"])
      PROVE  Views'
  <2> DEFINE new == [st |-> x, show |-> s, ep |-> None, by |-> "auto"]
  <2>1. new \in Row /\ new.st # "discovered" /\ Sound(new) /\ Flush(r, new)
    BY <1>7 DEF Row, Statuses, Matchers, Sound
  <2> HIDE DEF new
  <2> QED
    BY <1>0, <1>7, <2>1, FlushStep
<1>8. ASSUME NEW s \in Shows, LeaveUnresolved(r, s) PROVE Views'
  BY <1>7, <1>8 DEF LeaveUnresolved
<1>9. ASSUME NEW s \in Shows, LinkMovie(r, s) PROVE Views'
  BY <1>7, <1>9 DEF LinkMovie
<1> QED
  BY <1>2, <1>3, <1>5, <1>6, <1>8, <1>9 DEF Parse

\* The next file is taken up, after what is pending was committed or left.
LEMMA TakeStep == ASSUME Views, NEW r \in Runs, NEW f \in Files, Take(r, f) PROVE Views'
<1>0. Types /\ RunInv(r) /\ OneHolder
  BY DEF Views
<1>1. /\ pc[r] = "loaded" /\ f \in DOMAIN loaded[r]
      /\ pc' = [pc EXCEPT ![r] = "parsing"] /\ cur' = [cur EXCEPT ![r] = f]
      /\ loaded' = loaded /\ gaps' = gaps /\ UNCHANGED userVars /\ request' = request
  BY DEF Take, userVars
<1>2. pc'[r] = "parsing" /\ cur'[r] = f /\ f # None
  BY <1>0, <1>1, MatchingConstants DEF Types
<1>3. RunIsInOrder(r)'
  BY <1>0, <1>1, <1>2 DEF RunInv, RunIsInOrder
<1>4. CASE CommitRun(r)
  <2>1. /\ row' \in [Files -> Row] /\ pending' \in [Runs -> [Files -> Deltas]]
        /\ behind' \in [Actors -> SUBSET Files] /\ added' \in [Runs -> SUBSET Episodes]
        /\ known' \subseteq Episodes /\ RowsAreSound'
        /\ \A g \in Files : ~Holds(r, g) => row'[g] = row[g]
        /\ \A g \in Files : ~Holds(r, g)'
        /\ behind'[r] = behind[r] \cap DOMAIN loaded[r]
    BY <1>4, CommitWrites
  <2>2. Types'
    BY <1>0, <1>1, <2>1 DEF Types, Points
  <2>3. RunInv(r)'
    BY <1>0, <1>1, <1>3, <2>1 DEF RunInv, RunIsInOrder, LoadedIsRow, PendingIsSound, GapIsOfShow
  <2>4. /\ \A q \in Runs \ {r} : RunInv(q)'
        /\ \A u \in Users : UserInv(u)'
        /\ OneHolder'
    BY <1>0, <1>1, <1>4, CommitElsewhere DEF Types
  <2> QED
    BY <2>1, <2>2, <2>3, <2>4 DEF Views
<1>5. CASE UNCHANGED <<row, known, pending, added, behind, raced>>
  <2>1. Types'
    BY <1>0, <1>1, <1>5 DEF Types, Points
  <2>2. \A q \in Runs, g \in Files : Holds(q, g)' <=> Holds(q, g)
    BY <1>5 DEF Holds
  <2>3. RunInv(r)'
    BY <1>0, <1>1, <1>3, <1>5, <2>2 DEF RunInv, LoadedIsRow, PendingIsSound, GapIsOfShow
  <2>4. OneHolder'
    BY <1>0, <2>2 DEF OneHolder
  <2> QED
    BY <1>0, <1>1, <1>5, <2>1, <2>3, <2>4, AloneStep DEF Types
<1> QED
  BY <1>4, <1>5 DEF Take

LEMMA CommitStep == ASSUME Views, NEW r \in Runs, Commit(r) PROVE Views'
<1>0. Types /\ RunInv(r)
  BY DEF Views
<1>1. /\ pc[r] = "loaded" /\ DOMAIN loaded[r] = {} /\ CommitRun(r)
      /\ pc' = [pc EXCEPT ![r] = IF r \in Reporting THEN "idle" ELSE "filling"]
      /\ loaded' = loaded /\ cur' = cur /\ gaps' = gaps /\ UNCHANGED userVars
      /\ request' = request
  BY DEF Commit, userVars
<1>2. /\ row' \in [Files -> Row] /\ pending' \in [Runs -> [Files -> Deltas]]
      /\ behind' \in [Actors -> SUBSET Files] /\ added' \in [Runs -> SUBSET Episodes]
      /\ known' \subseteq Episodes /\ RowsAreSound'
      /\ \A g \in Files : ~Holds(r, g)'
  BY <1>1, CommitWrites
<1>3. pc'[r] \in {"idle", "filling"}
  BY <1>0, <1>1 DEF Types
<1>4. Types'
  BY <1>0, <1>1, <1>2 DEF Types, Points
<1>5. RunInv(r)'
  BY <1>0, <1>1, <1>2, <1>3 DEF RunInv, RunIsInOrder, LoadedIsRow, PendingIsSound, GapIsOfShow
<1>6. /\ \A q \in Runs \ {r} : RunInv(q)'
      /\ \A u \in Users : UserInv(u)'
      /\ OneHolder'
  BY <1>0, <1>1, CommitElsewhere DEF Types
<1> QED
  BY <1>2, <1>4, <1>5, <1>6 DEF Views

LEMMA FillSelectStep ==
  ASSUME Views, NEW r \in Runs, NEW s \in Shows, FillSelect(r, s) PROVE Views'
<1> DEFINE G == {f \in Files : row[f].st = "matched" /\ row[f].ep = None /\ row[f].show = s}
           new == {<<f, s>> : f \in G}
<1>0. Types /\ RunInv(r) /\ OneHolder
  BY DEF Views
<1>1. /\ pc[r] = "filling" /\ gaps' = [gaps EXCEPT ![r] = new]
      /\ pc' = [pc EXCEPT ![r] = "linking"]
      /\ UNCHANGED <<row, known, loaded, cur, pending, added, behind, raced, request>>
  BY DEF FillSelect, userVars
<1>2. /\ new \in SUBSET (Files \X Shows)
      /\ \A g \in new :
           row[g[1]].st = "matched" /\ row[g[1]].show = g[2] /\ row[g[1]].ep = None
  OBVIOUS
<1> HIDE DEF new
<1>3. gaps'[r] = new /\ pc'[r] = "linking"
  BY <1>0, <1>1 DEF Types
<1>4. Types'
  BY <1>0, <1>1, <1>2 DEF Types, Points
<1>5. \A q \in Runs, f \in Files : Holds(q, f)' <=> Holds(q, f)
  BY <1>1 DEF Holds
<1>6. RunInv(r)'
  BY <1>0, <1>1, <1>2, <1>3, <1>5 DEF RunInv, RunIsInOrder, LoadedIsRow, PendingIsSound, GapIsOfShow
<1>7. OneHolder'
  BY <1>0, <1>5 DEF OneHolder
<1> QED
  BY <1>0, <1>1, <1>4, <1>6, <1>7, AloneStep DEF Types

\* A run that ends, is cut short or is lost has nothing in hand.
LEMMA EndStep ==
  ASSUME Views, NEW r \in Runs, request' = request,
         pc' = [pc EXCEPT ![r] = "idle"], cur' = [cur EXCEPT ![r] = None],
         loaded' = [loaded EXCEPT ![r] = <<>>],
         pending' = [pending EXCEPT ![r] = [f \in Files |-> NoChange]],
         added' \in [Runs -> SUBSET Episodes], gaps' = [gaps EXCEPT ![r] = {}],
         behind' = [behind EXCEPT ![r] = {}], row' = row, known' = known, raced' = raced
  PROVE  Views'
<1>0. Types /\ OneHolder
  BY DEF Views
<1>1. /\ pc'[r] = "idle" /\ cur'[r] = None /\ loaded'[r] = <<>> /\ gaps'[r] = {}
      /\ \A f \in Files : ~Holds(r, f)'
  BY <1>0 DEF Types, Holds
<1>2. Types'
  BY <1>0, NothingChanges DEF Types, Points
<1>3. RunInv(r)'
  BY <1>1 DEF RunInv, RunIsInOrder, LoadedIsRow, PendingIsSound, GapIsOfShow
<1>4. OneHolder'
  BY <1>0, <1>1 DEF OneHolder, Holds
<1> QED
  BY <1>0, <1>2, <1>3, <1>4, AloneStep DEF Types, Actors

LEMMA AbortStep == ASSUME Views, NEW r \in Runs, Abort(r) PROVE Views'
<1>1. added \in [Runs -> SUBSET Episodes] /\ added' = [added EXCEPT ![r] = {}]
  BY DEF Views, Types, Abort, Rollback
<1>2. added' \in [Runs -> SUBSET Episodes]
  BY <1>1
<1> QED
  BY <1>2, EndStep DEF Abort, Rollback, userVars

LEMMA FillEndStep == ASSUME Views, NEW r \in Runs, FillEnd(r) PROVE Views'
<1>0. Types /\ RunInv(r) /\ OneHolder
  BY DEF Views
<1>1. /\ pc[r] = "filling" /\ pc' = [pc EXCEPT ![r] = "idle"]
      /\ UNCHANGED <<row, known, loaded, cur, pending, added, gaps, behind, raced, request>>
  BY DEF FillEnd, userVars
<1>2. Types' /\ pc'[r] = "idle"
  BY <1>0, <1>1 DEF Types, Points
<1>3. \A q \in Runs, f \in Files : Holds(q, f)' <=> Holds(q, f)
  BY <1>1 DEF Holds
<1>4. RunInv(r)'
  BY <1>0, <1>1, <1>2, <1>3 DEF RunInv, RunIsInOrder, LoadedIsRow, PendingIsSound, GapIsOfShow
<1>5. OneHolder'
  BY <1>0, <1>3 DEF OneHolder
<1> QED
  BY <1>0, <1>1, <1>2, <1>4, <1>5, AloneStep DEF Types
-----------------------------------------------------------------------------
(* The steps that write rows at once: gap fills, users, downloads. *)

\* What the writing of the rows F by actor a leaves of the others.
LEMMA WriteElsewhere ==
  ASSUME Views, NEW a \in Actors, NEW F \in SUBSET Files, Record(a, F),
         \A f \in Files \ F : row'[f] = row[f],
         \A f \in F : row'[f].st # "discovered" /\ \A q \in Runs \ {a} : ~Holds(q, f),
         \A q \in Runs \ {a} : /\ pc'[q] = pc[q] /\ cur'[q] = cur[q] /\ loaded'[q] = loaded[q]
                               /\ pending'[q] = pending[q] /\ gaps'[q] = gaps[q],
         \A u \in Users \ {a} : request'[u] = request[u]
  PROVE  /\ \A q \in Runs \ {a} : RunInv(q)'
         /\ \A u \in Users \ {a} : UserInv(u)'
         /\ behind' \in [Actors -> SUBSET Files] /\ raced' = raced \cup (F \cap behind[a])
<1>0. behind \in [Actors -> SUBSET Files]
  BY DEF Views, Types
<1>1. /\ raced' = raced \cup (F \cap behind[a])
      /\ behind' = [b \in Actors |-> IF b = a THEN behind[a] \cap Unhandled(a)
                                     ELSE behind[b] \cup (F \cap Viewed(b))]
  BY DEF Record
<1>2. ASSUME NEW q \in Runs \ {a} PROVE RunInv(q)'
  <2>1. Types /\ RunInv(q) /\ behind'[q] = behind[q] \cup (F \cap Viewed(q))
    BY <1>1 DEF Views, Actors
  <2>2. \A f \in F : ~Holds(q, f) /\ row'[f].st # "discovered"
    OBVIOUS
  <2> QED
    BY <1>1, <2>1, <2>2, OtherRun
<1>3. ASSUME NEW u \in Users \ {a} PROVE UserInv(u)'
  <2>1. Types /\ UserInv(u) /\ behind'[u] = behind[u] \cup (F \cap Viewed(u))
    BY <1>1 DEF Views, Actors
  <2> QED
    BY <2>1, OtherUser
<1>4. behind' \in [Actors -> SUBSET Files]
  BY <1>0, <1>1
<1> QED
  BY <1>1, <1>2, <1>3, <1>4

LEMMA FillLinkStep == ASSUME Views, NEW r \in Runs, FillLink(r) PROVE Views'
<1>0. Types /\ RunInv(r) /\ OneHolder /\ RowsAreSound /\ r \in Actors
  BY DEF Views, Actors
<1>1. PICK G \in SUBSET gaps[r] : \E e \in [G -> known] :
        /\ \A g \in G : ShowOf[e[g]] = g[2] /\ Unlocked(g[1], r)
        /\ row' = [f \in Files |-> IF \E g \in G : g[1] = f
                                   THEN [row[f] EXCEPT !.ep = e[CHOOSE g \in G : g[1] = f]]
                                   ELSE row[f]]
        /\ Record(r, {g[1] : g \in G})
  BY DEF FillLink
<1>2. PICK e \in [G -> known] :
        /\ \A g \in G : ShowOf[e[g]] = g[2] /\ Unlocked(g[1], r)
        /\ row' = [f \in Files |-> IF \E g \in G : g[1] = f
                                   THEN [row[f] EXCEPT !.ep = e[CHOOSE g \in G : g[1] = f]]
                                   ELSE row[f]]
        /\ Record(r, {g[1] : g \in G})
  BY <1>1
<1>3. /\ pc[r] = "linking" /\ gaps' = [gaps EXCEPT ![r] = {}]
      /\ pc' = [pc EXCEPT ![r] = "filling"]
      /\ UNCHANGED <<known, loaded, cur, pending, added, request>>
  BY DEF FillLink, userVars
<1> DEFINE F == {g[1] : g \in G}
           of(f) == CHOOSE g \in G : g[1] = f
<1>4. G \subseteq Files \X Shows /\ F \in SUBSET Files
  BY <1>0 DEF Types
<1>5. ASSUME NEW f \in F
      PROVE  /\ f \in Files /\ of(f) \in G /\ of(f)[1] = f
             /\ row'[f] = [row[f] EXCEPT !.ep = e[of(f)]] /\ e[of(f)] \in Episodes
  BY <1>0, <1>2, <1>4, <1>5 DEF Types
<1>6. \A f \in Files \ F : row'[f] = row[f]
  BY <1>2
<1> HIDE DEF F, of
<1>7. row' \in [Files -> Row]
  <2>1. ASSUME NEW f \in Files PROVE row'[f] \in Row
    <3>1. row[f] \in Row
      BY <1>0 DEF Types
    <3>2. CASE f \in F
      <4>1. row'[f] = [row[f] EXCEPT !.ep = e[of(f)]] /\ e[of(f)] \in Episodes
        BY <1>5, <3>2
      <4> QED
        BY <3>1, <4>1 DEF Row
    <3> QED
      BY <1>6, <3>1, <3>2
  <2> QED
    BY <1>2, <2>1
<1>8. ASSUME NEW f \in F
      PROVE  /\ row'[f].st # "discovered" /\ (\A q \in Runs \ {r} : ~Holds(q, f))
             /\ f \notin behind[r] => Sound(row'[f])
  <2>1. /\ f \in Files /\ of(f) \in G /\ of(f)[1] = f
        /\ row'[f] = [row[f] EXCEPT !.ep = e[of(f)]]
    BY <1>5
  <2>2. row[f] \in Row
    BY <1>0, <2>1 DEF Types
  <2>3. row'[f].st = row[f].st /\ row'[f].show = row[f].show /\ row'[f].ep = e[of(f)]
    BY <2>1, <2>2 DEF Row
  <2>4. of(f) \in gaps[r] /\ Unlocked(f, r) /\ ShowOf[e[of(f)]] = of(f)[2]
    BY <1>2, <2>1
  <2>5. /\ row[f].st # "discovered"
        /\ f \notin behind[r] => row[f].st = "matched" /\ row[f].show = of(f)[2]
    BY <1>0, <2>1, <2>4 DEF RunInv, GapIsOfShow
  <2> QED
    BY <2>3, <2>4, <2>5 DEF Unlocked, Sound
<1>9. Record(r, F)
  BY <1>2 DEF F
<1>10. /\ \A q \in Runs \ {r} : RunInv(q)'
       /\ \A u \in Users : UserInv(u)'
       /\ behind' \in [Actors -> SUBSET Files] /\ raced' = raced \cup (F \cap behind[r])
  <2>1. \A q \in Runs \ {r} : /\ pc'[q] = pc[q] /\ cur'[q] = cur[q] /\ loaded'[q] = loaded[q]
                              /\ pending'[q] = pending[q] /\ gaps'[q] = gaps[q]
    BY <1>0, <1>3 DEF Types
  <2>2. r \notin Users /\ \A u \in Users \ {r} : request'[u] = request[u]
    BY <1>3, MatchingConstants
  <2>3. \A f \in F : row'[f].st # "discovered" /\ \A q \in Runs \ {r} : ~Holds(q, f)
    BY <1>8
  <2> QED
    BY <1>0, <1>4, <1>6, <1>9, <2>1, <2>2, <2>3, WriteElsewhere
<1>11. Types'
  BY <1>0, <1>3, <1>7, <1>10 DEF Types, Points
<1>12. \A q \in Runs, f \in Files : Holds(q, f)' <=> Holds(q, f)
  BY <1>3 DEF Holds
<1>13. RunInv(r)'
  <2>1. pc'[r] = "filling" /\ gaps'[r] = {}
    BY <1>0, <1>3 DEF Types
  <2> QED
    BY <1>0, <1>3, <1>12, <2>1
       DEF RunInv, RunIsInOrder, LoadedIsRow, PendingIsSound, GapIsOfShow
<1>14. OneHolder'
  BY <1>0, <1>12 DEF OneHolder
<1>15. RowsAreSound'
  <2>1. ASSUME NEW f \in Files \ raced' PROVE Sound(row'[f])
    <3>1. CASE f \in F
      BY <1>8, <1>10, <3>1
    <3>2. CASE f \notin F
      BY <1>0, <1>6, <1>10, <3>2 DEF RowsAreSound
    <3> QED
      BY <3>1, <3>2
  <2> QED
    BY <2>1 DEF RowsAreSound, Sound
<1> QED
  BY <1>10, <1>11, <1>13, <1>14, <1>15 DEF Views

\* A user's request ends by writing what it has decided over what it has read.
LEMMA WriteStep ==
  ASSUME Views, NEW u \in Users, NEW new \in Row, request[u] # Nobody, Write(u, new),
         new.st # "discovered", Sound(request[u].row) => Sound(new)
  PROVE  Views'
<1> DEFINE f == request[u].file
           old == request[u].row
           delta == Changes(old, new)
           F == IF delta = NoChange THEN {} ELSE {f}
<1>0. Types /\ UserInv(u) /\ OneHolder /\ RowsAreSound /\ u \in Actors \ Runs
  BY MatchingConstants DEF Views, Actors
<1>1. /\ Unlocked(f, u) /\ row' = [row EXCEPT ![f] = Updated(@, delta)]
      /\ request' = [request EXCEPT ![u] = Nobody] /\ Record(u, F)
      /\ UNCHANGED <<known, pc, loaded, cur, pending, added, gaps>>
  BY DEF Write, runVars
<1>2. f \in Files /\ old \in Row /\ row[f] \in Row
  BY <1>0 DEF Types
<1>3. delta \in Deltas /\ Updated(old, delta) = new /\ row'[f] = Updated(row[f], delta)
  BY <1>0, <1>1, <1>2, UpdatedIsNew DEF Types
<1>4. row[f].st # "discovered" /\ (f \notin behind[u] => old = row[f])
  BY <1>0 DEF UserInv
<1>5. delta = NoChange => row'[f] = row[f]
  BY <1>2, <1>3, NothingChanges
<1>6. F \in SUBSET Files /\ F \subseteq {f} /\ (delta # NoChange => f \in F)
  BY <1>2
<1>7. row'[f] \in Row
  BY <1>2, <1>3, UpdatedIsRow
<1>8. row'[f].st # "discovered"
  <2>1. \A c \in DOMAIN delta : delta[c] = new[c]
    BY DEF Changes
  <2> HIDE DEF delta, f
  <2>2. row'[f]["st"] = row[f]["st"] \/ row'[f]["st"] = new["st"]
    BY <1>3, <2>1 DEF Updated, Columns
  <2> QED
    BY <1>2, <1>4, <1>7, <2>2, RowIsFunction
<1> HIDE DEF F, delta
<1>9. \A g \in Files \ F : row'[g] = row[g]
  BY <1>0, <1>1, <1>5, <1>6 DEF Types
<1>10. f \notin behind[u] /\ f \notin raced => Sound(row'[f])
  <2>1. SUFFICES ASSUME f \notin behind[u], f \notin raced PROVE Sound(row'[f])
    OBVIOUS
  <2>2. Sound(old) /\ row'[f] = new
    BY <1>0, <1>2, <1>3, <1>4, <2>1 DEF RowsAreSound
  <2> QED
    BY <2>2
<1> HIDE DEF f, old
<1>11. /\ \A q \in Runs : RunInv(q)'
       /\ \A v \in Users \ {u} : UserInv(v)'
       /\ behind' \in [Actors -> SUBSET Files] /\ raced' = raced \cup (F \cap behind[u])
  <2>1. \A v \in Users \ {u} : request'[v] = request[v]
    BY <1>0, <1>1 DEF Types
  <2>2. \A g \in F : row'[g].st # "discovered" /\ \A q \in Runs \ {u} : ~Holds(q, g)
    BY <1>1, <1>6, <1>8 DEF Unlocked
  <2> QED
    BY <1>0, <1>1, <1>6, <1>9, <2>1, <2>2, WriteElsewhere
<1>12. request' \in [Users -> {Nobody} \cup [file : Files, row : Row]] /\ UserInv(u)'
  BY <1>0, <1>1 DEF Types, UserInv
<1>13. row' \in [Files -> Row]
  BY <1>0, <1>1, <1>2, <1>7 DEF Types
<1>14. Types'
  BY <1>0, <1>1, <1>11, <1>12, <1>13 DEF Types
<1>15. OneHolder'
  BY <1>0, <1>1 DEF OneHolder, Holds
<1>16. RowsAreSound'
  <2>1. ASSUME NEW g \in Files \ raced' PROVE Sound(row'[g])
    <3>1. CASE g \in F
      BY <1>6, <1>10, <1>11, <3>1
    <3>2. CASE g \notin F
      BY <1>0, <1>9, <1>11, <3>2 DEF RowsAreSound
    <3> QED
      BY <3>1, <3>2
  <2> QED
    BY <2>1 DEF RowsAreSound, Sound
<1> QED
  BY <1>11, <1>12, <1>14, <1>15, <1>16 DEF Views

\* A step that changes requests only.
LEMMA RequestStep ==
  ASSUME Views, NEW u \in Users, UNCHANGED <<row, known, runVars, raced>>,
         request' \in [Users -> {Nobody} \cup [file : Files, row : Row]],
         \A v \in Users \ {u} : request'[v] = request[v],
         behind' \in [Actors -> SUBSET Files],
         \A a \in Actors \ {u} : behind'[a] = behind[a],
         UserInv(u)'
  PROVE  Views'
<1>0. Types /\ OneHolder /\ RowsAreSound /\ u \notin Runs
  BY MatchingConstants DEF Views
<1>1. UNCHANGED <<pc, loaded, cur, pending, added, gaps>>
  BY DEF runVars
<1>2. Types'
  BY <1>0, <1>1 DEF Types
<1>3. ASSUME NEW q \in Runs PROVE RunInv(q)'
  <2>1. RunInv(q) /\ behind'[q] = behind[q]
    BY <1>0 DEF Views, Actors
  <2>2. \A f \in Files : Holds(q, f)' <=> Holds(q, f)
    BY <1>1 DEF Holds
  <2> QED
    BY <1>1, <2>1, <2>2
       DEF RunInv, RunIsInOrder, LoadedIsRow, PendingIsSound, GapIsOfShow, Sound
<1>4. ASSUME NEW v \in Users PROVE UserInv(v)'
  <2>1. CASE v = u
    BY <2>1
  <2>2. CASE v # u
    BY <2>2 DEF Views, UserInv, Actors
  <2> QED
    BY <2>1, <2>2
<1>5. OneHolder' /\ RowsAreSound'
  BY <1>0, <1>1 DEF OneHolder, Holds, RowsAreSound, Sound
<1> QED
  BY <1>2, <1>3, <1>4, <1>5 DEF Views

LEMMA UserStepKeepsViews == ASSUME Views, NEW u \in Users, UserStep(u) PROVE Views'
<1>0. Types
  BY DEF Views
<1>1. request[u] # Nobody => request[u].row \in Row /\ request[u].row.st # "discovered"
  BY DEF Views, Types, UserInv
<1> DEFINE old == request[u].row
<1>2. ASSUME NEW f \in Files, Read(u, f) PROVE Views'
  <2>1. /\ request' = [request EXCEPT ![u] = [file |-> f, row |-> row[f]]]
        /\ UNCHANGED <<row, known, runVars, raced, behind>> /\ row[f].st # "discovered"
    BY <1>2 DEF Read
  <2>2. request'[u] = [file |-> f, row |-> row[f]] /\ row[f] \in Row
    BY <1>0, <2>1 DEF Types
  <2>3. UserInv(u)'
    BY <2>1, <2>2 DEF UserInv
  <2>4. /\ request' \in [Users -> {Nobody} \cup [file : Files, row : Row]]
        /\ behind' \in [Actors -> SUBSET Files]
        /\ \A v \in Users \ {u} : request'[v] = request[v]
    BY <1>0, <2>1, <2>2 DEF Types
  <2> QED
    BY <2>1, <2>3, <2>4, RequestStep
<1>3. ASSUME Refuse(u) PROVE Views'
  <2>1. /\ request' = [request EXCEPT ![u] = Nobody] /\ behind' = [behind EXCEPT ![u] = {}]
        /\ UNCHANGED <<row, known, runVars, raced>>
    BY <1>3 DEF Refuse
  <2>2. /\ request' \in [Users -> {Nobody} \cup [file : Files, row : Row]]
        /\ request'[u] = Nobody /\ \A v \in Users \ {u} : request'[v] = request[v]
        /\ behind' \in [Actors -> SUBSET Files]
        /\ \A a \in Actors \ {u} : behind'[a] = behind[a]
    BY <1>0, <2>1 DEF Types
  <2>3. UserInv(u)'
    BY <2>2 DEF UserInv
  <2> QED
    BY <2>1, <2>2, <2>3, RequestStep
<1>4. ASSUME Reset(u) PROVE Views'
  <2> DEFINE new == [old EXCEPT !.st = "downloaded", !.show = None, !.ep = None, !.by = "none"]
  <2>1. request[u] # Nobody /\ Write(u, new)
    BY <1>4 DEF Reset
  <2>2. new \in Row /\ new.st # "discovered" /\ Sound(new)
    BY <1>1, <2>1 DEF Row, Statuses, Matchers, Sound
  <2> HIDE DEF new
  <2> QED
    BY <2>1, <2>2, WriteStep
<1>5. ASSUME Ignore(u) PROVE Views'
  <2> DEFINE new == [old EXCEPT !.st = "ignored"]
  <2>1. request[u] # Nobody /\ Write(u, new) /\ old.st \in {"unmatched", "error"}
    BY <1>5 DEF Ignore
  <2>2. new \in Row /\ new.st # "discovered" /\ (Sound(old) => Sound(new))
    BY <1>1, <2>1 DEF Row, Statuses, Sound
  <2> HIDE DEF new
  <2> QED
    BY <2>1, <2>2, WriteStep
<1>6. ASSUME NEW s \in Shows, NEW e \in Episodes \cup {None}, Assign(u, s, e) PROVE Views'
  <2> DEFINE new == [old EXCEPT !.st = "matched", !.show = s, !.by = "manual", !.ep = e]
  <2>1. request[u] # Nobody /\ Write(u, new) /\ (e # None => ShowOf[e] = s)
    BY <1>6 DEF Assign
  <2>2. new \in Row /\ new.st # "discovered" /\ Sound(new)
    BY <1>1, <2>1 DEF Row, Statuses, Matchers, Sound
  <2> HIDE DEF new
  <2> QED
    BY <2>1, <2>2, WriteStep
<1> QED
  BY <1>2, <1>3, <1>4, <1>5, <1>6 DEF UserStep

\* A download ends: the row is in nobody's view yet.
LEMMA ArriveStep == ASSUME Views, NEW f \in Files, Arrive(f) PROVE Views'
<1>0. Types /\ OneHolder /\ RowsAreSound
  BY DEF Views
<1>1. /\ row[f].st = "discovered" /\ row' = [row EXCEPT ![f].st = "downloaded"]
      /\ UNCHANGED <<known, pc, loaded, cur, pending, added, gaps, request, behind, raced>>
  BY DEF Arrive, runVars, userVars
<1>2. row[f] \in Row
  BY <1>0 DEF Types
<1>3. /\ row'[f] = [row[f] EXCEPT !.st = "downloaded"] /\ row' \in [Files -> Row]
      /\ \A g \in Files \ {f} : row'[g] = row[g]
  BY <1>0, <1>1, <1>2 DEF Types, Row, Statuses
<1>4. Types'
  BY <1>0, <1>1, <1>3 DEF Types
<1>5. \A q \in Runs, g \in Files : Holds(q, g)' <=> Holds(q, g)
  BY <1>1 DEF Holds
<1>6. ASSUME NEW q \in Runs PROVE RunInv(q)'
  <2>1. RunInv(q)
    BY DEF Views
  <2>2. f \notin DOMAIN loaded[q] /\ ~Holds(q, f) /\ \A g \in gaps[q] : g[1] \in Files \ {f}
    BY <1>0, <1>1, <2>1 DEF Types, RunInv, LoadedIsRow, PendingIsSound, GapIsOfShow
  <2>3. RunIsInOrder(q)'
    BY <1>1, <1>5, <2>1 DEF RunInv, RunIsInOrder
  <2>4. LoadedIsRow(q)'
    BY <1>1, <1>3, <1>5, <2>1, <2>2 DEF RunInv, LoadedIsRow
  <2>5. PendingIsSound(q)'
    BY <1>1, <1>3, <1>5, <2>1, <2>2 DEF RunInv, PendingIsSound, Sound
  <2>6. GapIsOfShow(q)'
    BY <1>1, <1>3, <2>1, <2>2 DEF RunInv, GapIsOfShow
  <2> QED
    BY <2>3, <2>4, <2>5, <2>6 DEF RunInv
<1>7. ASSUME NEW u \in Users PROVE UserInv(u)'
  <2>1. UserInv(u) /\ (request[u] # Nobody => request[u].file \in Files)
    BY <1>0 DEF Views, Types
  <2> QED
    BY <1>1, <1>3, <2>1 DEF UserInv
<1>8. OneHolder'
  BY <1>0, <1>5 DEF OneHolder
<1>9. RowsAreSound'
  <2>1. f \notin raced => row[f].ep = None
    BY <1>0, <1>1 DEF RowsAreSound, Sound
  <2>2. row'[f].ep = row[f].ep
    BY <1>2, <1>3 DEF Row
  <2> QED
    BY <1>0, <1>1, <1>3, <2>1, <2>2 DEF RowsAreSound, Sound
<1> QED
  BY <1>4, <1>6, <1>7, <1>8, <1>9 DEF Views

\* Nothing of the views depends on the counters, or loses by a new episode.
LEMMA EpisodesOnly ==
  ASSUME Views, known' \subseteq Episodes,
         UNCHANGED <<row, pc, loaded, cur, pending, added, gaps, request, behind, raced>>
  PROVE  Views'
<1>0. Types /\ OneHolder /\ RowsAreSound
  BY DEF Views
<1>1. \A q \in Runs, g \in Files : Holds(q, g)' <=> Holds(q, g)
  BY DEF Holds
<1>2. Types'
  BY <1>0 DEF Types
<1>3. ASSUME NEW q \in Runs PROVE RunInv(q)'
  <2>1. RunInv(q)
    BY DEF Views
  <2> QED
    BY <1>1, <2>1 DEF RunInv, RunIsInOrder, LoadedIsRow, PendingIsSound, GapIsOfShow, Sound
<1>4. \A u \in Users : UserInv(u)'
  BY DEF Views, UserInv
<1>5. OneHolder' /\ RowsAreSound'
  BY <1>0, <1>1 DEF OneHolder, RowsAreSound, Sound
<1> QED
  BY <1>2, <1>3, <1>4, <1>5 DEF Views
-----------------------------------------------------------------------------
LEMMA ViewsStep == Views /\ [Next]_vars => Views'
<1> SUFFICES ASSUME Views, [Next]_vars PROVE Views'
  OBVIOUS
<1>1. ASSUME NEW r \in Runs, Step(r) PROVE Views'
  BY <1>1, LoadStep, TakeStep, ParseStep, CommitStep, FillSelectStep, FillLinkStep DEF Step
<1>2. ASSUME NEW r \in Runs, FillEnd(r) \/ Abort(r) PROVE Views'
  BY <1>2, FillEndStep, AbortStep
<1>3. ASSUME NEW e \in Episodes, Announce(e) PROVE Views'
  <2>1. known' \subseteq Episodes
    BY <1>3 DEF Announce, Views, Types
  <2> QED
    BY <1>3, <2>1, EpisodesOnly DEF Announce, runVars, userVars
<1>4. CASE UNCHANGED vars
  <2>1. known' \subseteq Episodes
    BY <1>4 DEF vars, Views, Types
  <2> QED
    BY <1>4, <2>1, EpisodesOnly DEF vars, runVars, userVars
<1> QED
  BY <1>1, <1>2, <1>3, <1>4, UserStepKeepsViews, ArriveStep DEF Next

\* A step that writes the row of f, as far as decisions are concerned.
LEMMA DecisionsStep ==
  ASSUME Views, [Next]_vars, NEW f \in Files, Decided(row[f]), row'[f] # row[f]
  PROVE  \/ \E u \in Users : request[u].file = f /\ request'[u] = Nobody
         \/ row'[f] = [row[f] EXCEPT !.ep = row'[f].ep] /\ row[f].ep = None
         \/ f \in raced'
<1>0. Types /\ row[f] \in Row
  BY DEF Views, Types
<1>1. row[f].st \in {"ignored", "matched"}
  BY DEF Decided
<1>2. ASSUME NEW r \in Runs, CommitRun(r) PROVE f \in raced'
  <2>1. Holds(r, f)
    BY <1>2, CommitWrites
  <2>2. PendingIsSound(r)
    BY DEF Views, RunInv
  <2>3. f \in behind[r]
    BY <1>1, <2>1, <2>2 DEF PendingIsSound
  <2> QED
    BY <1>2, <2>1, <2>3 DEF CommitRun, Record
<1>3. ASSUME NEW r \in Runs, FillLink(r)
      PROVE  \/ row'[f] = [row[f] EXCEPT !.ep = row'[f].ep] /\ row[f].ep = None
             \/ f \in raced'
  <2>1. PICK G \in SUBSET gaps[r] : \E e \in [G -> known] :
          /\ row' = [h \in Files |-> IF \E g \in G : g[1] = h
                                     THEN [row[h] EXCEPT !.ep = e[CHOOSE g \in G : g[1] = h]]
                                     ELSE row[h]]
          /\ Record(r, {g[1] : g \in G})
    BY <1>3 DEF FillLink
  <2>2. /\ \E g \in G : g[1] = f
        /\ \E x : row'[f] = [row[f] EXCEPT !.ep = x]
        /\ raced' = raced \cup ({g[1] : g \in G} \cap behind[r])
    <3>1. PICK e \in [G -> known] :
            /\ row' = [h \in Files |-> IF \E g \in G : g[1] = h
                                       THEN [row[h] EXCEPT !.ep = e[CHOOSE g \in G : g[1] = h]]
                                       ELSE row[h]]
            /\ Record(r, {g[1] : g \in G})
      BY <2>1
    <3>2. row'[f] = IF \E g \in G : g[1] = f
                    THEN [row[f] EXCEPT !.ep = e[CHOOSE g \in G : g[1] = f]]
                    ELSE row[f]
      BY <3>1
    <3>3. \E g \in G : g[1] = f
      BY <3>2
    <3>4. row'[f] = [row[f] EXCEPT !.ep = e[CHOOSE g \in G : g[1] = f]]
      BY <3>2, <3>3
    <3> QED
      BY <3>1, <3>3, <3>4 DEF Record
  <2>3. row'[f] = [row[f] EXCEPT !.ep = row'[f].ep]
    BY <1>0, <2>2 DEF Row
  <2>4. f \notin behind[r] => row[f].ep = None
    BY <2>2 DEF Views, RunInv, GapIsOfShow
  <2> QED
    BY <2>2, <2>3, <2>4
<1>4. ASSUME NEW u \in Users, NEW new, Write(u, new)
      PROVE  request[u].file = f /\ request'[u] = Nobody
  BY <1>0, <1>4 DEF Write, Types
<1>5. ASSUME NEW r \in Runs PROVE ~Parse(r) /\ ~Load(r) /\ ~FillEnd(r) /\ ~Abort(r)
  BY DEF Parse, LeaveUnmatched, FailFile, LeaveUnresolved, LinkMovie, LinkFile,
         RefreshAndLink, Link, Flush, Load, FillEnd, Abort, Rollback
<1>6. ASSUME NEW r \in Runs, Step(r) PROVE CommitRun(r) \/ FillLink(r)
  BY <1>5, <1>6 DEF Step, Take, Commit, FillSelect
<1>7. ASSUME NEW u \in Users, UserStep(u) PROVE \E new : Write(u, new)
  BY <1>7 DEF UserStep, Read, Refuse, Reset, Ignore, Assign
<1>8. ASSUME NEW g \in Files PROVE ~Arrive(g)
  BY <1>0, <1>1 DEF Arrive, Types
<1>9. row' # row
  OBVIOUS
<1> QED
  BY <1>2, <1>3, <1>4, <1>5, <1>6, <1>7, <1>8, <1>9 DEF Next, Announce, vars

\* What the variables hold, and where a run may be with a file in hand.
LEMMA ViewsAreTyped == Views => TypeOK
<1> SUFFICES ASSUME Views PROVE TypeOK
  OBVIOUS
<1>1. Types /\ \A r \in Runs : RunIsInOrder(r) /\ LoadedIsRow(r)
  BY DEF Views, RunInv
<1>2. ASSUME NEW r \in Runs
      PROVE  /\ \A f \in DOMAIN loaded[r] : loaded[r][f] \in Row
             /\ (pc[r] = "parsing") = (cur[r] # None)
             /\ \A f \in Files : Holds(r, f) => f \notin DOMAIN loaded[r]
             /\ gaps[r] \subseteq Files \X Shows
  BY <1>1 DEF Types, RunIsInOrder, LoadedIsRow
<1> QED
  BY <1>1, <1>2 DEF TypeOK, Types, Points

\* The variables of parse runs and requests have their types in every state, and a
\* run never holds the lock of a row that it has still to handle.
THEOREM MatchingTyped == Spec => []TypeOK
<1>1. Spec => []Views
  BY ViewsInitial, ViewsStep, PTL DEF Spec
<1> QED
  BY <1>1, ViewsAreTyped, PTL

\* Parses, refreshes, gap fills, matches, resets and ignores leave the episode of a
\* file an episode of the file's show, unless a writer had an outdated view of the
\* row: the first linking invariant of file_relink.py, with its exact exception.
THEOREM EpisodesStayWithTheirShow == Spec => []EpisodeOfItsShowUnlessRaced
<1>1. Views => EpisodeOfItsShowUnlessRaced
  BY DEF Views, RowsAreSound, Sound, EpisodeOfItsShowUnlessRaced
<1>2. Spec => []Views
  BY ViewsInitial, ViewsStep, PTL DEF Spec
<1> QED
  BY <1>1, <1>2, PTL

\* A decision of a user changes only by a user, by the gap fill that supplies its
\* missing episode, or by a writer that had an outdated view of the row.
THEOREM DecisionsAreKept == Spec => DecisionsLast
<1>1. Spec => []Views
  BY ViewsInitial, ViewsStep, PTL DEF Spec
<1>2. Views /\ [Next]_vars =>
        [\A f \in Files :
           Decided(row[f]) /\ row'[f] # row[f]
           => \/ \E u \in Users : request[u].file = f /\ request'[u] = Nobody
              \/ row'[f] = [row[f] EXCEPT !.ep = row'[f].ep] /\ row[f].ep = None
              \/ f \in raced']_vars
  BY DecisionsStep
<1> QED
  BY <1>1, <1>2, PTL DEF Spec, DecisionsLast
=============================================================================
