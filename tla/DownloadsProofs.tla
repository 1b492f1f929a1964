--------------------------- MODULE DownloadsProofs ---------------------------
(***************************************************************************)
(* Proofs about Downloads: types, and, when no transfer outlives the       *)
(* staleness limit, that rows no lost run has abandoned have one owner and *)
(* are whole in staging when they are DOWNLOADED.                          *)
(* And about Refresh: types, and that a run takes the most urgent shows.   *)
(***************************************************************************)
EXTENDS Downloads, Refresh, FiniteSetTheorems, TLAPS

USE DEF rowVars, diskVars, runVars, restVars

\* The initial states have the types.
LEMMA TypeInitial == Init => TypeOK
  BY DownloadConstants DEF Init, TypeOK, FileStatus, RunPoints

\* Every action of the runs, of the users and of time keeps them.
LEMMA TypeStep == TypeOK /\ [Next]_vars => TypeOK'
<1> SUFFICES ASSUME TypeOK, [Next]_vars PROVE TypeOK'
  OBVIOUS
<1> USE DownloadConstants DEF TypeOK, FileStatus, RunPoints
<1>1. ASSUME NEW r \in Runs, StartRun(r) PROVE TypeOK'
  BY <1>1 DEF StartRun
<1>2. ASSUME NEW r \in Runs, ClaimSelect(r) PROVE TypeOK'
  BY <1>2 DEF ClaimSelect, Eligible
<1>3. ASSUME NEW r \in Runs, ClaimNothing(r) PROVE TypeOK'
  BY <1>3 DEF ClaimNothing, EndBatch
<1>4. ASSUME NEW r \in Runs, ClaimCommit(r) PROVE TypeOK'
  BY <1>4 DEF ClaimCommit, Touch
<1>5. ASSUME NEW r \in Runs, Begin(r) PROVE TypeOK'
  BY <1>5 DEF Begin
<1>6. ASSUME NEW r \in Runs, ApplyResults(r) PROVE TypeOK'
  BY <1>6 DEF ApplyResults, Credits, Arrived
<1>7. ASSUME NEW r \in Runs, Interrupt(r) PROVE TypeOK'
  BY <1>7 DEF Interrupt, Credits, Arrived
<1>8. ASSUME NEW r \in Runs, Commit(r) PROVE TypeOK'
  BY <1>8 DEF Commit, RecordOutcome, EndBatch, PostDownloadStatus
<1>9. ASSUME NEW r \in Runs, AbortCommit(r) PROVE TypeOK'
  BY <1>9 DEF AbortCommit, RecordOutcome, EndBatch, PostDownloadStatus
<1>10. ASSUME NEW r \in Runs, Lose(r) PROVE TypeOK'
  BY <1>10 DEF Lose, EndBatch
<1>11. ASSUME NEW r \in Runs, NEW f \in Files, Open(r, f) PROVE TypeOK'
  BY <1>11 DEF Open
<1>12. ASSUME NEW r \in Runs, NEW f \in Files, TransferOk(r, f) PROVE TypeOK'
  BY <1>12 DEF TransferOk
<1>13. ASSUME NEW r \in Runs, NEW f \in Files, TransferFail(r, f) PROVE TypeOK'
  BY <1>13 DEF TransferFail
<1>14. ASSUME NEW f \in Files, Age(f) PROVE TypeOK'
  BY <1>14 DEF Age
<1>15. ASSUME NEW f \in Files, Take(f) PROVE TypeOK'
  BY <1>15 DEF Take, Touch
<1>16. ASSUME NEW f \in Files, IgnoreRead(f) PROVE TypeOK'
  BY <1>16 DEF IgnoreRead
<1>17. ASSUME NEW f \in Files, IgnoreCommit(f) PROVE TypeOK'
  BY <1>17 DEF IgnoreCommit, Touch
<1>18. ASSUME NEW r \in Runs, InterruptCommit(r) PROVE TypeOK'
  BY <1>18 DEF InterruptCommit
<1>19. CASE UNCHANGED vars
  BY <1>19 DEF vars
<1> QED
  BY <1>1, <1>2, <1>3, <1>4, <1>5, <1>6, <1>7, <1>8, <1>9, <1>10, <1>11, <1>12,
     <1>13, <1>14, <1>15, <1>16, <1>17, <1>18, <1>19 DEF Next

\* Every variable of a run of downloads keeps its type, for any number of files
\* and runs.
THEOREM DownloadsTyped == Spec => []TypeOK
<1>1. Init => TypeOK
  BY TypeInitial
<1>2. TypeOK /\ [Next]_vars => TypeOK'
  BY TypeStep
<1> QED
  BY <1>1, <1>2, PTL DEF Spec

-----------------------------------------------------------------------------
(* Ownership. *)

Quick == ~SlowTransfers

\* A run's batch is empty unless it is claiming or holds it; it credits no other row.
BatchesArePlaced ==
  \A r \in Runs : /\ pc[r] \in {"idle", "claim"} => batch[r] = {}
                  /\ credit[r] \subseteq batch[r]

\* The row locks are those of the runs between the SELECT and the commit.
LocksAreClaims ==
  \A r \in Runs, f \in Files : lock[f] = r <=> pc[r] = "locked" /\ f \in batch[r]

\* Nothing but what a lost run left behind ever grows stale.
StaleIsAbandoned ==
  /\ aged \subseteq abandoned
  /\ \A r \in Runs : old[r] \subseteq abandoned

\* A claimed row is what the SELECT found.
ClaimedIsFresh ==
  \A r \in Runs : pc[r] = "locked" =>
    \A f \in batch[r] \ abandoned : status[f] \in {"discovered", "error"}

\* A held row is DOWNLOADING, or a request that had read it before ignored it.
HeldIsDownloading ==
  \A r \in Runs : Holding(r) =>
    \A f \in batch[r] \ abandoned : status[f] \in {"downloading", "ignored"}

\* A DOWNLOADING row is held.
DownloadingIsHeld ==
  \A f \in Files \ abandoned : status[f] = "downloading" =>
    \E r \in Runs : Holding(r) /\ f \in batch[r]

Ownership ==
  /\ BatchesArePlaced
  /\ LocksAreClaims
  /\ StaleIsAbandoned
  /\ ClaimedIsFresh
  /\ HeldIsDownloading
  /\ DownloadingIsHeld
  /\ OneOwnerUnlessAbandoned

\* The ownership invariant holds before the first run.
LEMMA OwnershipInitial == Init => Ownership
  BY DownloadConstants DEF Init, Ownership, BatchesArePlaced, LocksAreClaims, StaleIsAbandoned,
     ClaimedIsFresh, HeldIsDownloading, DownloadingIsHeld, Holding,
     OneOwnerUnlessAbandoned, Contended

\* Every step of a run, of a user or of time keeps the ownership invariant.
LEMMA OwnershipStep ==
  ASSUME Quick, TypeOK, Ownership, [Next]_vars
  PROVE  Ownership'
<1> USE DownloadConstants DEF TypeOK, RunPoints, Ownership, BatchesArePlaced, LocksAreClaims,
        StaleIsAbandoned, ClaimedIsFresh, HeldIsDownloading, DownloadingIsHeld,
        Holding, OneOwnerUnlessAbandoned, Contended
<1>1. ASSUME NEW r \in Runs, StartRun(r) PROVE Ownership'
  BY <1>1 DEF StartRun
<1>2. ASSUME NEW r \in Runs, ClaimSelect(r) PROVE Ownership'
  BY <1>2 DEF ClaimSelect, Eligible
<1>3. ASSUME NEW r \in Runs, ClaimNothing(r) PROVE Ownership'
  BY <1>3 DEF ClaimNothing, EndBatch
<1>4. ASSUME NEW r \in Runs, ClaimCommit(r) PROVE Ownership'
  BY <1>4 DEF ClaimCommit, Touch
<1>5. ASSUME NEW r \in Runs, Begin(r) PROVE Ownership'
  BY <1>5 DEF Begin
<1>6. ASSUME NEW r \in Runs, ApplyResults(r) PROVE Ownership'
  BY <1>6 DEF ApplyResults, Credits
<1>7. ASSUME NEW r \in Runs, Interrupt(r) PROVE Ownership'
  BY <1>7 DEF Interrupt, Credits
<1>8. ASSUME NEW r \in Runs, Commit(r) PROVE Ownership'
  BY <1>8 DEF Commit, RecordOutcome, EndBatch, PostDownloadStatus
<1>9. ASSUME NEW r \in Runs, AbortCommit(r) PROVE Ownership'
  BY <1>9 DEF AbortCommit, RecordOutcome, EndBatch, PostDownloadStatus
<1>10. ASSUME NEW r \in Runs, Lose(r) PROVE Ownership'
  BY <1>10 DEF Lose, EndBatch
<1>11. ASSUME NEW r \in Runs, NEW f \in Files, Open(r, f) PROVE Ownership'
  BY <1>11 DEF Open
<1>12. ASSUME NEW r \in Runs, NEW f \in Files, TransferOk(r, f) PROVE Ownership'
  BY <1>12 DEF TransferOk
<1>13. ASSUME NEW r \in Runs, NEW f \in Files, TransferFail(r, f) PROVE Ownership'
  BY <1>13 DEF TransferFail
<1>14. ASSUME NEW f \in Files, Age(f) PROVE Ownership'
  BY <1>14 DEF Age, Quick
<1>15. ASSUME NEW f \in Files, Take(f) PROVE Ownership'
  BY <1>15 DEF Take, Touch
<1>16. ASSUME NEW f \in Files, IgnoreRead(f) PROVE Ownership'
  BY <1>16 DEF IgnoreRead
<1>17. ASSUME NEW f \in Files, IgnoreCommit(f) PROVE Ownership'
  BY <1>17 DEF IgnoreCommit, Touch
<1>18. ASSUME NEW r \in Runs, InterruptCommit(r) PROVE Ownership'
  BY <1>18 DEF InterruptCommit
<1>19. CASE UNCHANGED vars
  BY <1>19 DEF vars
<1> QED
  BY <1>1, <1>2, <1>3, <1>4, <1>5, <1>6, <1>7, <1>8, <1>9, <1>10, <1>11, <1>12,
     <1>13, <1>14, <1>15, <1>16, <1>17, <1>18, <1>19 DEF Next

\* The two parts of the invariant hold in every reachable state.
LEMMA OwnershipInvariant == ASSUME Quick PROVE Spec => [](TypeOK /\ Ownership)
<1>1. Init => TypeOK /\ Ownership
  BY TypeInitial, OwnershipInitial
<1>2. TypeOK /\ Ownership /\ [Next]_vars => (TypeOK /\ Ownership)'
  BY TypeStep, OwnershipStep, Quick
<1> QED
  BY <1>1, <1>2, PTL DEF Spec

\* With transfers shorter than the staleness limit, whatever the number of runs,
\* only a row that a lost run left DOWNLOADING can be claimed twice.
THEOREM OneOwnerOfARow == ASSUME Quick PROVE Spec => []OneOwnerUnlessAbandoned
<1>1. Ownership => OneOwnerUnlessAbandoned
  BY DEF Ownership
<1> QED
  BY OwnershipInvariant, <1>1, PTL

-----------------------------------------------------------------------------
(* The staged bytes. *)

\* The transfers of a run are of its batch, and begin with an empty record.
TransfersArePlaced ==
  \A r \in Runs : /\ writing[r] \subseteq batch[r]
                  /\ pc[r] \in {"idle", "claim", "locked", "check"} =>
                       writing[r] = {} /\ done[r] = {}
                  /\ pc[r] \notin {"commit", "abort"} => credit[r] = {}

\* Nobody else has touched a file since the run that transfers it opened it.
WritesAreUndisturbed ==
  \A r \in Runs : pc[r] = "transfer" =>
    \A f \in writing[r] \ (done[r] \cup abandoned) : opened[f] = r /\ disk[f] = "partial"

\* A file that arrived is whole as long as the run holds it.
ArrivedIsWhole ==
  \A r \in Runs : pc[r] = "transfer" => \A f \in Arrived(r) \ abandoned : disk[f] = "whole"

\* What is about to be recorded is whole.
CreditIsWhole == \A r \in Runs : \A f \in credit[r] \ abandoned : disk[f] = "whole"

Wholeness ==
  /\ TransfersArePlaced
  /\ WritesAreUndisturbed
  /\ ArrivedIsWhole
  /\ CreditIsWhole
  /\ DownloadedIsWhole

\* The staged bytes are whole before the first run, there being none.
LEMMA WholenessInitial == Init => Wholeness
  BY DownloadConstants DEF Init, Wholeness, TransfersArePlaced, WritesAreUndisturbed,
     ArrivedIsWhole, CreditIsWhole, Arrived, DownloadedIsWhole

\* The conjuncts of Ownership that the staged bytes depend on.
LEMMA HeldOnce ==
  ASSUME TypeOK, Ownership, NEW r \in Runs, NEW f \in batch[r] \ abandoned
  PROVE  /\ \A s \in Runs \ {r} : f \notin batch[s]
         /\ Holding(r) => status[f] # "downloaded"
  BY DEF TypeOK, Ownership, OneOwnerUnlessAbandoned, Contended, HeldIsDownloading

\* No step leaves a downloaded row whose file is not whole.
LEMMA WholenessStep ==
  ASSUME TypeOK, Ownership, Wholeness, [Next]_vars
  PROVE  Wholeness'
<1> USE DownloadConstants, HeldOnce DEF TypeOK, RunPoints, Wholeness, TransfersArePlaced,
        WritesAreUndisturbed, ArrivedIsWhole, CreditIsWhole, Arrived, DownloadedIsWhole,
        Holding
<1>1. ASSUME NEW r \in Runs, StartRun(r) PROVE Wholeness'
  BY <1>1 DEF StartRun
<1>2. ASSUME NEW r \in Runs, ClaimSelect(r) PROVE Wholeness'
  BY <1>2 DEF ClaimSelect, Eligible
<1>3. ASSUME NEW r \in Runs, ClaimNothing(r) PROVE Wholeness'
  BY <1>3 DEF ClaimNothing, EndBatch
<1>4. ASSUME NEW r \in Runs, ClaimCommit(r) PROVE Wholeness'
  BY <1>4 DEF ClaimCommit, Touch
<1>5. ASSUME NEW r \in Runs, Begin(r) PROVE Wholeness'
  BY <1>5 DEF Begin
<1>6. ASSUME NEW r \in Runs, ApplyResults(r) PROVE Wholeness'
  BY <1>6 DEF ApplyResults, Credits
<1>7. ASSUME NEW r \in Runs, Interrupt(r) PROVE Wholeness'
  BY <1>7 DEF Interrupt, Credits
<1>8. ASSUME NEW r \in Runs, Commit(r) PROVE Wholeness'
  BY <1>8 DEF Commit, RecordOutcome, EndBatch, PostDownloadStatus
<1>9. ASSUME NEW r \in Runs, AbortCommit(r) PROVE Wholeness'
  BY <1>9 DEF AbortCommit, RecordOutcome, EndBatch, PostDownloadStatus
<1>10. ASSUME NEW r \in Runs, Lose(r) PROVE Wholeness'
  BY <1>10 DEF Lose, EndBatch
<1>11. ASSUME NEW r \in Runs, NEW f \in Files, Open(r, f) PROVE Wholeness'
  BY <1>11 DEF Open, Pending, Ownership, BatchesArePlaced
<1>12. ASSUME NEW r \in Runs, NEW f \in Files, TransferOk(r, f) PROVE Wholeness'
  BY <1>12 DEF TransferOk, Pending, Ownership, BatchesArePlaced
<1>13. ASSUME NEW r \in Runs, NEW f \in Files, TransferFail(r, f) PROVE Wholeness'
  BY <1>13 DEF TransferFail, Pending
<1>14. ASSUME NEW f \in Files, Age(f) PROVE Wholeness'
  BY <1>14 DEF Age
<1>15. ASSUME NEW f \in Files, Take(f) PROVE Wholeness'
  BY <1>15 DEF Take, Touch, Ownership, BatchesArePlaced
<1>16. ASSUME NEW f \in Files, IgnoreRead(f) PROVE Wholeness'
  BY <1>16 DEF IgnoreRead
<1>17. ASSUME NEW f \in Files, IgnoreCommit(f) PROVE Wholeness'
  BY <1>17 DEF IgnoreCommit, Touch
<1>18. ASSUME NEW r \in Runs, InterruptCommit(r) PROVE Wholeness'
  BY <1>18 DEF InterruptCommit
<1>19. CASE UNCHANGED vars
  BY <1>19 DEF vars
<1> QED
  BY <1>1, <1>2, <1>3, <1>4, <1>5, <1>6, <1>7, <1>8, <1>9, <1>10, <1>11, <1>12,
     <1>13, <1>14, <1>15, <1>16, <1>17, <1>18, <1>19 DEF Next

\* What parse and route find behind a DOWNLOADED row that was never abandoned is
\* the whole file, however many runs, failures and time limits there were.
THEOREM DownloadedFilesAreWhole == ASSUME Quick PROVE Spec => []DownloadedIsWhole
<1>1. Init => Wholeness
  BY WholenessInitial
<1>2. TypeOK /\ Ownership /\ Wholeness /\ [Next]_vars => Wholeness'
  BY WholenessStep
<1>3. Wholeness => DownloadedIsWhole
  BY DEF Wholeness
<1> QED
  BY OwnershipInvariant, <1>1, <1>2, <1>3, PTL DEF Spec

-----------------------------------------------------------------------------
(* Ignored rows. *)

\* An IGNORED row is written again only by a run that holds it; this needs no
\* assumption on the transfers.
THEOREM IgnoredRowsAreNotClaimed == Spec => IgnoredIsNotClaimed
<1> DEFINE Kept == \A f \in Files : status[f] = "ignored" /\ status'[f] # "ignored"
                     => \E r \in Runs : Holding(r) /\ f \in batch[r]
           Claims == \A r \in Runs :
                       /\ pc[r] \in {"idle", "claim"} => batch[r] = {}
                       /\ credit[r] \subseteq batch[r]
                       /\ pc[r] = "locked" =>
                            \A f \in batch[r] : lock[f] = r /\ status[f] # "ignored"
<1>1. Init => Claims
  BY DEF Init
<1>2. TypeOK /\ Claims /\ [Next]_vars => Claims' /\ Kept
  <2> SUFFICES ASSUME TypeOK, Claims, [Next]_vars PROVE Claims' /\ Kept
    OBVIOUS
  <2> USE DownloadConstants DEF TypeOK, RunPoints, Holding
  <2>1. ASSUME NEW r \in Runs, ClaimSelect(r) PROVE Claims' /\ Kept
    BY <2>1 DEF ClaimSelect, Eligible
  <2>2. ASSUME NEW r \in Runs, ClaimCommit(r) PROVE Claims' /\ Kept
    BY <2>2 DEF ClaimCommit
  <2>3. ASSUME NEW r \in Runs, \/ StartRun(r) \/ Begin(r) \/ ApplyResults(r)
                              \/ Interrupt(r) \/ InterruptCommit(r)
        PROVE  Claims' /\ Kept
    BY <2>3 DEF StartRun, Begin, ApplyResults, Interrupt, InterruptCommit, Credits
  <2>4. ASSUME NEW r \in Runs, ClaimNothing(r) \/ Lose(r)
        PROVE  Claims' /\ Kept
    BY <2>4 DEF ClaimNothing, Lose, EndBatch
  <2>5. ASSUME NEW r \in Runs, Commit(r) \/ AbortCommit(r) PROVE Claims' /\ Kept
    <3>1. /\ lock' = lock
          /\ \A f \in Files \ batch[r] : status'[f] = status[f]
          /\ \A f \in batch[r] : lock[f] = NoRun
          /\ batch' = [batch EXCEPT ![r] = {}] /\ credit' = [credit EXCEPT ![r] = {}]
          /\ pc'[r] # "locked" /\ \A s \in Runs \ {r} : pc'[s] = pc[s]
          /\ Holding(r)
      BY <2>5 DEF Commit, AbortCommit, RecordOutcome, EndBatch
    <3>2. Kept
      BY <3>1
    <3>3. Claims'
      BY <3>1
    <3> QED
      BY <3>2, <3>3
  <2>6. ASSUME NEW r \in Runs, NEW f \in Files,
               Open(r, f) \/ TransferOk(r, f) \/ TransferFail(r, f)
        PROVE  Claims' /\ Kept
    BY <2>6 DEF Open, TransferOk, TransferFail
  <2>7. ASSUME NEW f \in Files, Age(f) \/ Take(f) \/ IgnoreRead(f) \/ IgnoreCommit(f)
        PROVE  Claims' /\ Kept
    BY <2>7 DEF Age, Take, IgnoreRead, IgnoreCommit
  <2>8. CASE UNCHANGED vars
    BY <2>8 DEF vars
  <2> QED
    BY <2>1, <2>2, <2>3, <2>4, <2>5, <2>6, <2>7, <2>8 DEF Next
<1>3. Kept => [Kept]_vars
  OBVIOUS
<1> HIDE DEF Kept, Claims
<1>4. Spec => [](TypeOK /\ Claims)
  BY <1>1, <1>2, TypeInitial, TypeStep, PTL DEF Spec
<1>5. Spec => [][Kept]_vars
  BY <1>2, <1>4, PTL DEF Spec
<1> QED
  BY <1>5 DEF IgnoredIsNotClaimed, Kept

-----------------------------------------------------------------------------
(* Refresh: types, unique entries, and what a run takes. *)

Data == [status : Statuses, past : BOOLEAN, zero : BOOLEAN, genres : BOOLEAN]
ShowRow == [id : Entries, data : Data, refreshed : 0..Never]
WriterRecord ==
  [pc : {"off", "fetch", "write"}, show : Shows \cup {0}, to : Entries \cup {Home[1]},
   rematch : BOOLEAN, loaded : Data, data : Data]

\* TMDB and the bounds.
Outside ==
  /\ tmdbStatus \in [Entries -> Statuses] /\ finished \in [Shows -> {"no", "today", "before"}]
  /\ faults \in 0..MaxFaults /\ changes \in 0..MaxChanges /\ requests \in 0..MaxRequests

\* No two shows have one entry.
ShowRows ==
  /\ live \subseteq Shows /\ row \in [Shows -> ShowRow]
  /\ \A s, t \in live : row[s].id = row[t].id => s = t

Queues ==
  /\ DOMAIN queue = Queued
  /\ queue["daily"] \in Seq(Shows) /\ Len(queue["daily"]) <= Limit
  /\ queue["backfill"] \in Seq(Shows \X ShowRow)

\* A writer at work has a show, and an entry of TMDB to ask for.
AtWork ==
  /\ at \in [Writers -> WriterRecord]
  /\ \A w \in Writers : at[w].pc # "off" => at[w].show \in Shows /\ at[w].to \in Entries

RefreshTypes == Outside /\ ShowRows /\ Queues /\ AtWork

\* The order of the ranks is strict and total.
Quad == Nat \X Nat \X Nat \X Nat
LEMMA RanksAreOrdered ==
  /\ \A p \in Quad : ~Before(p, p)
  /\ \A p, q, r \in Quad : Before(p, q) /\ Before(q, r) => Before(p, r)
  /\ \A p, q \in Quad : Before(p, q) \/ Before(q, p) \/ p = q
  BY DEF Quad, Before

Below(ranks, p) == {q \in ranks : Before(q, p)}

\* Fewer ranks are below one that comes before another.
LEMMA FewerBelow ==
  ASSUME NEW R \in SUBSET Quad, IsFiniteSet(R), NEW p \in R
  PROVE  /\ Cardinality(Below(R, p)) \in Nat /\ Cardinality(Below(R, p)) < Cardinality(R)
         /\ \A q \in R : Before(q, p) => Cardinality(Below(R, q)) < Cardinality(Below(R, p))
<1>1. \A q \in R : IsFiniteSet(Below(R, q)) /\ Cardinality(Below(R, q)) \in Nat
  BY FS_Subset, FS_CardinalityType DEF Below
<1>2. Cardinality(R) \in Nat
  BY FS_CardinalityType
<1>3. ASSUME NEW S, NEW T, IsFiniteSet(T), S \subseteq T, NEW x \in T, x \notin S
      PROVE  Cardinality(S) < Cardinality(T)
  <2>1. Cardinality(S) <= Cardinality(T) /\ Cardinality(S) # Cardinality(T)
    BY <1>3, FS_Subset
  <2>2. Cardinality(S) \in Nat /\ Cardinality(T) \in Nat
    BY <1>3, FS_Subset, FS_CardinalityType
  <2> QED
    BY <2>1, <2>2
<1>4. Below(R, p) \subseteq R /\ p \notin Below(R, p)
  BY RanksAreOrdered DEF Below
<1>5. ASSUME NEW q \in R, Before(q, p)
      PROVE  Below(R, q) \subseteq Below(R, p) /\ q \in Below(R, p) /\ q \notin Below(R, q)
  BY <1>5, RanksAreOrdered DEF Below
<1> QED
  BY <1>1, <1>3, <1>4, <1>5

\* Every place is that of some rank.
LEMMA NthRank ==
  ASSUME NEW R \in SUBSET Quad, IsFiniteSet(R), NEW k \in 1..Cardinality(R)
  PROVE  Nth(R, k) \in R /\ Cardinality(Below(R, Nth(R, k))) = k - 1
<1> DEFINE place == [p \in R |-> Cardinality(Below(R, p)) + 1]
           n == Cardinality(R)
<1>1. n \in Nat /\ IsFiniteSet(1..n) /\ Cardinality(1..n) = n
  BY FS_CardinalityType, FS_Interval
<1>2. \A p \in R : Cardinality(Below(R, p)) \in Nat /\ Cardinality(Below(R, p)) < n
  BY FewerBelow
<1>3. place \in [R -> 1..n]
  BY <1>1, <1>2
<1>4. \A p, q \in R : place[p] = place[q] => p = q
  <2> SUFFICES ASSUME NEW p \in R, NEW q \in R, place[p] = place[q], p # q PROVE FALSE
    OBVIOUS
  <2>1. Cardinality(Below(R, p)) = Cardinality(Below(R, q))
    BY <1>2
  <2>2. Before(p, q) \/ Before(q, p)
    BY RanksAreOrdered
  <2> QED
    BY <1>2, <2>1, <2>2, FewerBelow
<1>5. place \in Injection(R, 1..n)
  <2> HIDE DEF place
  <2> QED
    BY <1>3, <1>4 DEF Injection, IsInjective
<1>6. place \in Surjection(R, 1..n)
  <2> HIDE DEF place
  <2> QED
    BY <1>1, <1>5, FS_Injection
<1>7. PICK p \in R : place[p] = k
  <2> HIDE DEF place
  <2> QED
    BY <1>6 DEF Surjection
<1>8. Cardinality(Below(R, p)) = k - 1
  BY <1>2, <1>7
<1> QED
  BY <1>8 DEF Nth, Below

\* Different shows that are due, no more than Limit, and a show that is due is left
\* out only if the run is full of shows that come before it.
MostUrgent(run) ==
  /\ \A k \in 1..Len(run) : Due(run[k])
  /\ \A j, k \in 1..Len(run) : run[j] = run[k] => j = k
  /\ Len(run) <= Limit
  /\ \A s \in Shows : Due(s) => \/ \E k \in 1..Len(run) : run[k] = s
                               \/ /\ Len(run) = Limit
                                  /\ \A k \in 1..Len(run) : Before(Rank(run[k]), Rank(s))

\* What a run takes.
LEMMA SelectedFirst ==
  ASSUME RefreshTypes
  PROVE  Selected(Ranks) \in Seq(Shows) /\ MostUrgent(Selected(Ranks))
<1> DEFINE due == {s \in Shows : Due(s)}
           n == Cardinality(Ranks)
           size == IF n < Limit THEN n ELSE Limit
           run == Selected(Ranks)
<1>1. \A s \in Shows : Rank(s) \in Quad /\ Rank(s)[4] = s
  <2> SUFFICES ASSUME NEW s \in Shows PROVE Rank(s) \in Quad /\ Rank(s)[4] = s
    OBVIOUS
  <2>1. Reason(s) \in Nat
    BY DEF Reason, NoReason
  <2>2. Never - row[s].refreshed \in Nat
    BY RefreshConstants DEF RefreshTypes, ShowRows, ShowRow, Never
  <2>3. s \in Nat
    BY RefreshConstants DEF Shows
  <2> QED
    BY <2>1, <2>2, <2>3 DEF Rank, Quad
<1>2. Ranks = {Rank(s) : s \in due}
  BY DEF Ranks
<1>3. Ranks \subseteq Quad
  <2> SUFFICES ASSUME NEW s \in due PROVE Rank(s) \in Quad
    BY <1>2
  <2> QED
    BY <1>1
<1>4. IsFiniteSet(Ranks)
  <2> DEFINE rank == [s \in due |-> Rank(s)]
  <2>1. IsFiniteSet(Shows) /\ due \subseteq Shows
    BY RefreshConstants, FS_Interval DEF Shows
  <2> HIDE DEF due
  <2>2. rank \in Surjection(due, Ranks)
    BY <1>2 DEF Surjection
  <2> HIDE DEF rank
  <2> QED
    BY <2>1, <2>2, FS_Subset, FS_Surjection
<1>5. n \in Nat /\ size \in Nat /\ size <= Limit /\ size <= n /\ (size < Limit => size = n)
  BY <1>4, FS_CardinalityType, RefreshConstants
<1>6. run = [k \in 1..size |-> Nth(Ranks, k)[4]]
  BY DEF Selected
<1>7. ASSUME NEW k \in 1..size
      PROVE  /\ run[k] \in due /\ Rank(run[k]) = Nth(Ranks, k)
             /\ Cardinality(Below(Ranks, Rank(run[k]))) = k - 1
  <2>1. k \in 1..n
    BY <1>5
  <2>2. Nth(Ranks, k) \in Ranks /\ Cardinality(Below(Ranks, Nth(Ranks, k))) = k - 1
    BY <1>3, <1>4, <2>1, NthRank
  <2>3. PICK s \in due : Nth(Ranks, k) = Rank(s)
    BY <1>2, <2>2
  <2>4. run[k] = s
    BY <1>1, <1>6, <2>3
  <2> QED
    BY <2>2, <2>3, <2>4
<1>8. run \in Seq(due) /\ Len(run) = size
  BY <1>5, <1>6, <1>7
<1> HIDE DEF n, size, run, due
<1>9. \A j, k \in 1..size : run[j] = run[k] => j = k
  BY <1>5, <1>7
<1>10. ASSUME NEW s \in due
       PROVE  \/ \E k \in 1..size : run[k] = s
              \/ size = Limit /\ \A k \in 1..size : Before(Rank(run[k]), Rank(s))
  <2> DEFINE place == Cardinality(Below(Ranks, Rank(s))) + 1
  <2>1. Rank(s) \in Ranks
    BY <1>2
  <2>2. place \in 1..n
    BY <1>3, <1>4, <1>5, <2>1, FewerBelow DEF n
  <2>3. ASSUME NEW k \in 1..size, ~Before(Rank(run[k]), Rank(s)), run[k] # s PROVE place <= size
    <3>1. Rank(run[k]) \in Ranks /\ Rank(run[k]) # Rank(s)
      BY <1>1, <1>2, <1>7, <2>3 DEF due
    <3>2. Before(Rank(s), Rank(run[k]))
      BY <1>3, <2>1, <2>3, <3>1, RanksAreOrdered
    <3>3. Cardinality(Below(Ranks, Rank(s))) < k - 1
      BY <1>3, <1>4, <1>7, <2>1, <3>1, <3>2, FewerBelow
    <3>4. Cardinality(Below(Ranks, Rank(s))) \in Nat
      BY <1>3, <1>4, <2>1, FewerBelow
    <3> QED
      BY <1>5, <3>3, <3>4
  <2>4. ASSUME place <= size PROVE \E k \in 1..size : run[k] = s
    <3>1. place \in 1..size
      BY <2>2, <2>4, <1>5
    <3>2. Rank(run[place]) \in Ranks /\ Cardinality(Below(Ranks, Rank(run[place]))) = place - 1
      BY <1>2, <1>7, <3>1
    <3>3. Cardinality(Below(Ranks, Rank(s))) = place - 1
      BY <1>3, <1>4, <2>1, FewerBelow
    <3>4. Rank(run[place]) = Rank(s)
      BY <1>3, <1>4, <2>1, <3>2, <3>3, FewerBelow, RanksAreOrdered
    <3>5. run[place] = s
      BY <1>1, <1>7, <3>1, <3>4 DEF due
    <3> QED
      BY <3>1, <3>5
  <2>5. size # Limit => place <= size
    <3> HIDE DEF place
    <3> QED
      BY <1>5, <2>2, RefreshConstants
  <2> QED
    BY <2>3, <2>4, <2>5
<1>11. run \in Seq(Shows) /\ Len(run) <= Limit
  BY <1>5, <1>8 DEF due
<1>12. \A k \in 1..Len(run) : Due(run[k])
  BY <1>7, <1>8 DEF due
<1>13. \A s \in Shows : Due(s) => \/ \E k \in 1..Len(run) : run[k] = s
                                 \/ /\ Len(run) = Limit
                                    /\ \A k \in 1..Len(run) : Before(Rank(run[k]), Rank(s))
  <2> SUFFICES ASSUME NEW s \in Shows, Due(s)
               PROVE  \/ \E k \in 1..size : run[k] = s
                      \/ size = Limit /\ \A k \in 1..size : Before(Rank(run[k]), Rank(s))
    BY <1>8, Zenon
  <2>1. s \in due
    BY DEF due
  <2> QED
    BY <1>10, <2>1
<1> QED
  BY <1>8, <1>9, <1>11, <1>12, <1>13 DEF MostUrgent, run

LEMMA OffAndLoad ==
  ASSUME NEW s \in Shows, NEW e \in Entries, NEW again \in BOOLEAN, NEW data \in Data
  PROVE  /\ Load(s, e, again, data) \in WriterRecord
         /\ Load(s, e, again, data).show = s /\ Load(s, e, again, data).to = e
  BY DEF Load, Off, WriterRecord, Data, Card, Statuses

LEMMA OffIsTyped == Off \in WriterRecord /\ Off.pc = "off" /\ Card \in Data
  BY DEF Off, WriterRecord, Data, Card, Statuses

LEMMA FetchedIsTyped ==
  ASSUME Outside, NEW e \in Entries
  PROVE  Fetched(e) \in Data
  BY DEF Outside, Fetched, Data

LEMMA RefreshTypedInitially == RefreshInit => RefreshTypes
<1> SUFFICES ASSUME RefreshInit PROVE RefreshTypes
  OBVIOUS
<1>1. Outside
  BY RefreshConstants DEF RefreshInit, Outside, Statuses
<1>2. ShowRows
  <2>1. ASSUME NEW s \in Shows PROVE row[s] \in ShowRow /\ row[s].id = Home[s]
    <3>1. Home[s] \in Entries /\ Fetched(Home[s]) \in Data /\ Card \in Data
      BY <1>1, RefreshConstants, FetchedIsTyped, OffIsTyped
    <3>2. 0 \in 0..Never /\ Never \in 0..Never
      BY RefreshConstants DEF Never
    <3> QED
      BY <3>1, <3>2 DEF RefreshInit, Row, ShowRow
  <2>2. row \in [Shows -> ShowRow]
    BY <2>1 DEF RefreshInit
  <2> QED
    BY <2>1, <2>2, RefreshConstants DEF RefreshInit, ShowRows
<1>3. Queues
  BY RefreshConstants DEF RefreshInit, Queues, Queued
<1>4. AtWork
  BY OffIsTyped DEF RefreshInit, AtWork
<1> QED
  BY <1>1, <1>2, <1>3, <1>4 DEF RefreshTypes

LEMMA DailyStarts ==
  ASSUME RefreshTypes, StartDaily
  PROVE  RefreshTypes'
<1>1. Outside'
  BY DEF RefreshTypes, Outside, StartDaily
<1>2. ShowRows'
  <2>1. ASSUME NEW s \in Shows PROVE row'[s] \in ShowRow /\ row'[s].id = row[s].id
    <3>1. row[s] \in ShowRow /\ row'[s] = [row[s] EXCEPT !.refreshed = IF @ < MaxAge THEN @ + 1 ELSE @]
      BY DEF RefreshTypes, ShowRows, StartDaily
    <3> QED
      BY <3>1, RefreshConstants DEF ShowRow, Never
  <2>2. row' \in [Shows -> ShowRow]
    BY <2>1 DEF StartDaily
  <2> QED
    BY <2>1, <2>2 DEF RefreshTypes, ShowRows, StartDaily
<1>3. Queues'
  <2>1. Selected(Ranks) \in Seq(Shows) /\ Len(Selected(Ranks)) <= Limit
    BY SelectedFirst DEF MostUrgent
  <2>2. queue' = [queue EXCEPT !["daily"] = Selected(Ranks)]
    BY DEF StartDaily
  <2> QED
    BY <2>1, <2>2 DEF RefreshTypes, Queues, Queued
<1>4. AtWork'
  BY DEF RefreshTypes, AtWork, StartDaily
<1> QED
  BY <1>1, <1>2, <1>3, <1>4 DEF RefreshTypes

\* A writer takes up a show.
LEMMA WriterLoads ==
  ASSUME AtWork, NEW w \in Writers, NEW s \in Shows, NEW e \in Entries, NEW again \in BOOLEAN,
         NEW data \in Data, at' = [at EXCEPT ![w] = Load(s, e, again, data)]
  PROVE  AtWork'
  BY OffAndLoad DEF AtWork

LEMMA WriterDrops ==
  ASSUME AtWork, NEW w \in Writers, Drop(w)
  PROVE  AtWork'
  BY OffIsTyped DEF AtWork, Drop

LEMMA DailyLoads ==
  ASSUME RefreshTypes, LoadNext
  PROVE  RefreshTypes'
<1> DEFINE s == Head(queue["daily"])
<1>1. s \in Shows /\ Tail(queue["daily"]) \in Seq(Shows)
      /\ Len(Tail(queue["daily"])) = Len(queue["daily"]) - 1
  BY DEF RefreshTypes, Queues, LoadNext
<1>2. Queues'
  <2>1. queue' = [queue EXCEPT !["daily"] = Tail(@)]
    BY DEF LoadNext
  <2>2. Len(queue["daily"]) \in Nat /\ Limit \in Nat
    BY RefreshConstants DEF RefreshTypes, Queues
  <2> QED
    BY <1>1, <2>1, <2>2 DEF RefreshTypes, Queues, Queued
<1>3. AtWork'
  <2>1. CASE s \notin live
    BY <2>1 DEF RefreshTypes, AtWork, LoadNext
  <2>2. CASE s \in live
    <3>1. row[s].id \in Entries /\ row[s].data \in Data
      BY <1>1 DEF RefreshTypes, ShowRows, ShowRow
    <3>2. at' = [at EXCEPT !["daily"] = Load(s, row[s].id, FALSE, row[s].data)]
      BY <2>2 DEF LoadNext
    <3>3. "daily" \in Writers
      BY DEF Writers, Queued
    <3> HIDE DEF s
    <3> QED
      BY <1>1, <3>1, <3>2, <3>3, WriterLoads DEF RefreshTypes
  <2> QED
    BY <2>1, <2>2
<1> QED
  BY <1>2, <1>3 DEF RefreshTypes, Outside, ShowRows, LoadNext, tmdb

LEMMA BackfillStarts ==
  ASSUME RefreshTypes, StartBackfill
  PROVE  RefreshTypes'
<1> DEFINE due == {s \in live : ~row[s].data.genres}
<1>1. PICK cards \in SetToSeqs(due) :
        queue' = [queue EXCEPT !["backfill"] = [k \in DOMAIN cards |-> <<cards[k], row[cards[k]]>>]]
  BY DEF StartBackfill
<1>2. Cardinality(due) \in Nat
  <2>1. IsFiniteSet(Shows)
    BY RefreshConstants, FS_Interval DEF Shows
  <2>2. due \subseteq Shows
    BY DEF RefreshTypes, ShowRows
  <2> HIDE DEF due
  <2> QED
    BY <2>1, <2>2, FS_Subset, FS_CardinalityType
<1>3. cards \in [1..Cardinality(due) -> due]
  BY <1>1 DEF SetToSeqs
<1>4. due \subseteq Shows
  BY DEF RefreshTypes, ShowRows
<1> HIDE DEF due
<1>5. [k \in DOMAIN cards |-> <<cards[k], row[cards[k]]>>] \in Seq(Shows \X ShowRow)
  <2>1. DOMAIN cards = 1..Cardinality(due)
    BY <1>3
  <2>2. ASSUME NEW k \in DOMAIN cards PROVE <<cards[k], row[cards[k]]>> \in Shows \X ShowRow
    BY <1>3, <1>4 DEF RefreshTypes, ShowRows
  <2> QED
    BY <1>2, <2>1, <2>2
<1>6. Queues'
  BY <1>1, <1>5 DEF RefreshTypes, Queues, Queued
<1> QED
  BY <1>6, RefreshConstants DEF RefreshTypes, Outside, ShowRows, AtWork, StartBackfill, Request, tmdb

LEMMA BackfillLoads ==
  ASSUME RefreshTypes, BackfillNext
  PROVE  RefreshTypes'
<1> DEFINE next == Head(queue["backfill"])
<1>1. next \in Shows \X ShowRow /\ Tail(queue["backfill"]) \in Seq(Shows \X ShowRow)
  BY DEF RefreshTypes, Queues, BackfillNext
<1>2. Queues'
  <2>1. queue' = [queue EXCEPT !["backfill"] = Tail(@)]
    BY DEF BackfillNext
  <2> QED
    BY <1>1, <2>1 DEF RefreshTypes, Queues, Queued
<1>3. AtWork'
  <2>1. at' = [at EXCEPT !["backfill"] = Load(next[1], next[2].id, FALSE, next[2].data)]
    BY DEF BackfillNext
  <2>2. "backfill" \in Writers
    BY DEF Writers, Queued
  <2> HIDE DEF next
  <2>3. next[1] \in Shows /\ next[2].id \in Entries /\ next[2].data \in Data
    BY <1>1 DEF ShowRow
  <2> QED
    BY <2>1, <2>2, <2>3, WriterLoads DEF RefreshTypes
<1> QED
  BY <1>2, <1>3 DEF RefreshTypes, Outside, ShowRows, BackfillNext, tmdb

LEMMA UserLoads ==
  ASSUME RefreshTypes, NEW s \in Shows, NEW e \in Entries, RefreshShow(s) \/ Rematch(s, e)
  PROVE  RefreshTypes'
<1>1. row[s].id \in Entries /\ row[s].data \in Data /\ "user" \in Writers
  BY DEF RefreshTypes, ShowRows, ShowRow, Writers
<1>2. AtWork'
  <2>1. CASE RefreshShow(s)
    BY <1>1, <2>1, WriterLoads DEF RefreshTypes, RefreshShow
  <2>2. CASE Rematch(s, e)
    BY <1>1, <2>2, WriterLoads DEF RefreshTypes, Rematch
  <2> QED
    BY <2>1, <2>2
<1>3. UNCHANGED <<tmdbStatus, finished, changes, live, row, queue, faults>> /\ Request
  BY DEF RefreshShow, Rematch, tmdb
<1> QED
  BY <1>2, <1>3, RefreshConstants DEF RefreshTypes, Outside, ShowRows, Queues, Request

LEMMA WriterFetches ==
  ASSUME RefreshTypes, NEW w \in Writers, Fetch(w)
  PROVE  RefreshTypes'
<1>1. Outside'
  BY RefreshConstants DEF RefreshTypes, Outside, Fetch, Fail, tmdb
<1>2. AtWork'
  <2>1. CASE Drop(w)
    BY <2>1, WriterDrops DEF RefreshTypes
  <2>2. ASSUME NEW a \in Answers(w), at' = [at EXCEPT ![w].pc = "write", ![w].data = a]
        PROVE  AtWork'
    <3>1. at[w].to \in Entries /\ at[w] \in WriterRecord /\ at[w].show \in Shows
      BY DEF RefreshTypes, AtWork, Fetch
    <3>2. Fetched(at[w].to) \in Data
      BY <3>1, FetchedIsTyped DEF RefreshTypes
    <3>3. a \in Data
      BY <2>2, <3>2 DEF Answers, Data, Statuses
    <3>4. at'[w] \in WriterRecord /\ at'[w].show \in Shows /\ at'[w].to \in Entries
      BY <2>2, <3>1, <3>3 DEF RefreshTypes, AtWork, WriterRecord
    <3> QED
      BY <2>2, <3>4 DEF RefreshTypes, AtWork
  <2> QED
    BY <2>1, <2>2 DEF Fetch
<1> QED
  BY <1>1, <1>2 DEF RefreshTypes, ShowRows, Queues, Fetch

LEMMA WriterIsTold ==
  ASSUME RefreshTypes, NEW w \in Writers, NotFound(w)
  PROVE  RefreshTypes'
<1>1. AtWork'
  BY WriterDrops DEF RefreshTypes, NotFound
<1>2. ShowRows'
  <2>1. ASSUME NEW s \in live, row' = [row EXCEPT ![s].refreshed = 0]
        PROVE  ShowRows'
    <3>1. s \in Shows /\ row[s] \in ShowRow /\ row' = [row EXCEPT ![s] = [row[s] EXCEPT !.refreshed = 0]]
      BY <2>1 DEF RefreshTypes, ShowRows
    <3>2. [row[s] EXCEPT !.refreshed = 0] \in ShowRow /\ [row[s] EXCEPT !.refreshed = 0].id = row[s].id
      BY <3>1, RefreshConstants DEF ShowRow, Never
    <3>3. ASSUME NEW t \in Shows PROVE row'[t] \in ShowRow /\ row'[t].id = row[t].id
      BY <3>1, <3>2 DEF RefreshTypes, ShowRows
    <3>4. row' \in [Shows -> ShowRow]
      BY <3>1, <3>3 DEF RefreshTypes, ShowRows
    <3> QED
      BY <3>3, <3>4 DEF RefreshTypes, ShowRows, NotFound
  <2>2. CASE row' = row
    BY <2>2 DEF RefreshTypes, ShowRows, NotFound
  <2> QED
    BY <2>1, <2>2 DEF NotFound, StampGone
<1> QED
  BY <1>1, <1>2 DEF RefreshTypes, Outside, Queues, NotFound, tmdb

LEMMA MergedIsTyped ==
  ASSUME RefreshTypes, NEW w \in Writers, at[w].show \in Shows
  PROVE  Merged(w) \in Data
<1>1. at[w].data \in Data /\ at[w].loaded \in Data /\ row[at[w].show].data \in Data
  BY DEF RefreshTypes, AtWork, WriterRecord, ShowRows, ShowRow
<1> QED
  BY <1>1 DEF Merged, Data, Columns

LEMMA WriterWrites ==
  ASSUME RefreshTypes, NEW w \in Writers, Write(w)
  PROVE  RefreshTypes'
<1> DEFINE s == at[w].show
           e == IF at[w].rematch THEN at[w].to ELSE row[s].id
           new == Row(e, Merged(w), 0)
<1>1. s \in live /\ s \in Shows /\ at[w].to \in Entries
  BY DEF RefreshTypes, ShowRows, AtWork, Write, Refused
<1>2. row' = [row EXCEPT ![s] = new] /\ live' = live
  BY <1>1 DEF RefreshTypes, ShowRows, Write
<1>3. new \in ShowRow /\ new.id = e
  <2>1. e \in Entries
    BY <1>1 DEF RefreshTypes, ShowRows, ShowRow
  <2>2. Merged(w) \in Data /\ 0 \in 0..Never
    BY <1>1, MergedIsTyped, RefreshConstants DEF Never
  <2> QED
    BY <2>1, <2>2 DEF Row, ShowRow
<1>4. \A t \in live \ {s} : row[t].id # e
  BY <1>1 DEF RefreshTypes, ShowRows, Write, Refused, Taken
<1>5. ShowRows'
  <2> HIDE DEF new, e, s
  <2> QED
    BY <1>1, <1>2, <1>3, <1>4 DEF RefreshTypes, ShowRows
<1>6. Outside'
  BY DEF RefreshTypes, Outside, Write
<1>7. AtWork'
  BY WriterDrops DEF RefreshTypes, Write
<1> QED
  BY <1>5, <1>6, <1>7 DEF RefreshTypes, Queues, Write

LEMMA WriterFails ==
  ASSUME RefreshTypes, NEW w \in Writers, WriteFails(w)
  PROVE  RefreshTypes'
<1>1. AtWork'
  BY WriterDrops DEF RefreshTypes, WriteFails
<1> QED
  BY <1>1, RefreshConstants DEF RefreshTypes, Outside, ShowRows, Queues, WriteFails, Fail, tmdb

LEMMA WorkIsTyped ==
  ASSUME RefreshTypes, NEW w \in Writers, Work(w)
  PROVE  RefreshTypes'
  BY WriterFetches, WriterIsTold, WriterWrites, WriterFails DEF Work

LEMMA OthersAreTyped ==
  ASSUME RefreshTypes,
         \/ \E e \in Entries : Ends(e)
         \/ \E s \in Shows : SeasonEnds(s) \/ Delete(s)
  PROVE  RefreshTypes'
<1>1. CASE \E e \in Entries : Ends(e)
  BY <1>1, RefreshConstants
     DEF RefreshTypes, Outside, ShowRows, Queues, AtWork, Ends, Statuses
<1>2. CASE \E s \in Shows : SeasonEnds(s)
  BY <1>2, RefreshConstants DEF RefreshTypes, Outside, ShowRows, Queues, AtWork, SeasonEnds
<1>3. CASE \E s \in Shows : Delete(s)
  BY <1>3, RefreshConstants
     DEF RefreshTypes, Outside, ShowRows, Queues, AtWork, Delete, Request, tmdb
<1> QED
  BY <1>1, <1>2, <1>3

LEMMA RefreshStaysTyped == RefreshTypes /\ [RefreshNext]_refreshVars => RefreshTypes'
<1> SUFFICES ASSUME RefreshTypes, [RefreshNext]_refreshVars PROVE RefreshTypes'
  OBVIOUS
<1>1. CASE Daily
  BY <1>1, DailyStarts, DailyLoads, WorkIsTyped DEF Daily, Writers, Queued
<1>2. CASE Backfill \/ StartBackfill \/ Work("user")
  BY <1>2, BackfillStarts, BackfillLoads, WorkIsTyped DEF Backfill, Writers, Queued
<1>3. CASE \E s \in Shows : RefreshShow(s)
  <2>1. PICK s \in Shows : RefreshShow(s)
    BY <1>3
  <2>2. row[s].id \in Entries
    BY DEF RefreshTypes, ShowRows, ShowRow
  <2> QED
    BY <2>1, <2>2, UserLoads
<1>4. CASE \E s \in Shows, e \in Entries : Rematch(s, e)
  BY <1>4, UserLoads
<1>5. CASE \/ \E e \in Entries : Ends(e)
           \/ \E s \in Shows : SeasonEnds(s) \/ Delete(s)
  BY <1>5, OthersAreTyped
<1>6. CASE UNCHANGED refreshVars
  BY <1>6 DEF refreshVars, RefreshTypes, Outside, ShowRows, Queues, AtWork
<1> QED
  BY <1>1, <1>2, <1>3, <1>4, <1>5, <1>6 DEF RefreshNext

\* RefreshTypes is an invariant of the refresh.
LEMMA RefreshInvariant == RefreshSpec => []RefreshTypes
<1> QED
  BY RefreshTypedInitially, RefreshStaysTyped, PTL DEF RefreshSpec

\* Rows and writers are well formed, no two shows share an entry of TMDB, and a run
\* takes no more than Limit shows.
THEOREM RefreshTyped == RefreshSpec => []RefreshTypeOK
<1>1. ASSUME RefreshTypes PROVE RefreshTypeOK
  <2>1. \A s \in Shows : row[s] \in ShowRow
    BY <1>1 DEF RefreshTypes, ShowRows
  <2>2. \A w \in Writers : at[w] \in WriterRecord
    BY <1>1 DEF RefreshTypes, AtWork
  <2>3. \A s \in live : ~Taken(s, row[s].id)
    BY <1>1 DEF RefreshTypes, ShowRows, Taken
  <2>4. Outside /\ live \subseteq Shows /\ Len(queue["daily"]) <= Limit
    BY <1>1 DEF RefreshTypes, ShowRows, Queues
  <2> QED
    BY <2>1, <2>2, <2>3, <2>4 DEF RefreshTypeOK, Outside, ShowRow, Data, WriterRecord
<1> QED
  BY <1>1, RefreshInvariant, PTL

\* A daily run takes different shows that are due, no more than Limit, and leaves a
\* show that is due out only if it is full of shows that come before it
\* (select_candidates), whatever the requests have done to the rows.
THEOREM RunsTakeTheMostUrgent ==
  RefreshSpec => [][StartDaily => MostUrgent(queue'["daily"])]_refreshVars
<1>1. ASSUME RefreshTypes, StartDaily PROVE MostUrgent(queue'["daily"])
  <2>1. queue'["daily"] = Selected(Ranks)
    BY <1>1 DEF StartDaily, RefreshTypes, Queues, Queued
  <2> QED
    BY <1>1, <2>1, SelectedFirst
<1>2. RefreshTypes /\ [RefreshNext]_refreshVars
      => [StartDaily => MostUrgent(queue'["daily"])]_refreshVars
  BY <1>1
<1> QED
  BY <1>2, RefreshInvariant, PTL DEF RefreshSpec
=============================================================================
