------------------------------ MODULE Downloads ------------------------------
(***************************************************************************)
(* Concurrent runs of the DownloadOrchestrator (the download task and      *)
(* phase 3 of the sync task) over the rows of downloaded_files and the     *)
(* files of the staging directory, with lost runs, failed transfers, the   *)
(* reclaim of stale rows, and the ignore endpoint.                         *)
(*                                                                         *)
(* The clock is not modelled: a DOWNLOADING row untouched for longer than  *)
(* stale_downloading_seconds is `aged`, and a run keeps the rows that were *)
(* aged at its start, because its cutoff is computed once.  Any UPDATE of  *)
(* a row sets updated_at and makes it young for every run.                 *)
(***************************************************************************)
EXTENDS Integers, FiniteSets

CONSTANTS
  Files,          \* rows found by the scan
  Noscan,         \* files discovered under a noscan path
  Tagged,         \* files whose name declares a CRC32
  Bad,            \* tagged files whose remote bytes do not match the tag
  Unwanted,       \* files that users ask to ignore
  Runs,           \* download and sync runs that may be active together
  MaxWorkers,     \* batch size
  MaxTroubles,    \* bound: runs cut short by Lose, and failed transfers
  SlowTransfers,  \* may a transfer take longer than the staleness limit?
  NoRun           \* the holder of an unlocked row

ASSUME DownloadConstants ==
  /\ Noscan \subseteq Files /\ Tagged \subseteq Files /\ Bad \subseteq Tagged
  /\ Unwanted \subseteq Files
  /\ MaxWorkers \in Nat \ {0} /\ MaxTroubles \in Nat
  /\ SlowTransfers \in BOOLEAN
  /\ NoRun \notin Runs

VARIABLES
  status,     \* the status column
  path,       \* is local_path set?
  aged,       \* DOWNLOADING rows untouched for the staleness limit
  lock,       \* the run whose transaction holds the row's FOR UPDATE lock
  disk,       \* the file in staging: none, partial or whole
  opened,     \* the run that opened the staging file for writing last
  pc,         \* where a run is
  old,        \* the rows below a run's cutoff
  batch,      \* the rows a run has claimed
  writing,    \* the run's transfers in flight
  done,       \* the run's transfers that returned
  credit,     \* the rows the run is about to record as downloaded
  ignoring,   \* rows an ignore request has read
  troubles,   \* how many runs were lost and transfers failed
  abandoned   \* history: rows a lost run left DOWNLOADING

rowVars == <<status, path, aged, lock>>
diskVars == <<disk, opened>>
restVars == <<ignoring, troubles, abandoned>>
runVars == <<pc, old, batch, writing, done, credit>>
vars == <<status, path, aged, lock, disk, opened, pc, old, batch, writing, done,
          credit, restVars>>

FileStatus ==
  {"discovered", "downloading", "downloaded", "ignored", "error", "routed"}
RunPoints == {"idle", "claim", "locked", "check", "transfer", "commit", "abort"}

TypeOK ==
  /\ status \in [Files -> FileStatus]
  /\ path \in [Files -> BOOLEAN]
  /\ aged \subseteq Files
  /\ lock \in [Files -> Runs \cup {NoRun}]
  /\ disk \in [Files -> {"none", "partial", "whole"}]
  /\ opened \in [Files -> Runs \cup {NoRun}]
  /\ pc \in [Runs -> RunPoints]
  /\ \A s \in {old, batch, writing, done, credit} : s \in [Runs -> SUBSET Files]
  /\ ignoring \subseteq Files
  /\ troubles \in 0..MaxTroubles
  /\ abandoned \subseteq Files

Init ==
  /\ status = [f \in Files |-> "discovered"]
  /\ path = [f \in Files |-> FALSE]
  /\ aged = {}
  /\ lock = [f \in Files |-> NoRun]
  /\ disk = [f \in Files |-> "none"]
  /\ opened = [f \in Files |-> NoRun]
  /\ pc = [r \in Runs |-> "idle"]
  /\ old = [r \in Runs |-> {}]
  /\ batch = [r \in Runs |-> {}]
  /\ writing = [r \in Runs |-> {}]
  /\ done = [r \in Runs |-> {}]
  /\ credit = [r \in Runs |-> {}]
  /\ ignoring = {}
  /\ troubles = 0
  /\ abandoned = {}

-----------------------------------------------------------------------------
(* Rows. *)

\* UPDATEs of the rows fs set updated_at.
Touch(fs) ==
  /\ aged' = aged \ fs
  /\ old' = [r \in Runs |-> old[r] \ fs]

\* Mutant: stale DOWNLOADING rows are not reclaimed.
EligibleWithoutStale(r) ==
  {f \in Files : \/ status[f] = "discovered"
                 \/ status[f] = "error" /\ ~path[f]}

\* base_where: what a run may claim.
Eligible(r) ==
  {f \in Files : \/ status[f] = "discovered"
                 \/ status[f] = "error" /\ ~path[f]
                 \/ status[f] = "downloading" /\ f \in old[r]}

PostDownloadStatus(f) == IF f \in Noscan THEN "ignored" ELSE "downloaded"

\* The run holds claimed rows.
Holding(r) == pc[r] \in {"check", "transfer", "commit", "abort"}

-----------------------------------------------------------------------------
(* A run. *)

\* The run's batch is over; with the run, its cutoff is gone too.  `young` are
\* the rows updated in this step.
EndBatch(r, point, young) ==
  /\ pc' = [pc EXCEPT ![r] = point]
  /\ old' = [s \in Runs |-> IF s = r /\ point = "idle" THEN {} ELSE old[s] \ young]
  /\ batch' = [batch EXCEPT ![r] = {}]
  /\ writing' = [writing EXCEPT ![r] = {}]
  /\ done' = [done EXCEPT ![r] = {}]
  /\ credit' = [credit EXCEPT ![r] = {}]

\* A task starts: the staleness cutoff is computed, once.
StartRun(r) ==
  /\ pc[r] = "idle"
  /\ pc' = [pc EXCEPT ![r] = "claim"]
  /\ old' = [old EXCEPT ![r] = aged]
  /\ UNCHANGED <<rowVars, diskVars, batch, writing, done, credit, restVars>>

\* Mutant: the SELECT takes no row locks.
ClaimSelectUnlocked(r) ==
  /\ pc[r] = "claim" /\ Eligible(r) # {}
  /\ \E fs \in SUBSET Eligible(r) :
       /\ fs # {} /\ Cardinality(fs) <= MaxWorkers
       /\ batch' = [batch EXCEPT ![r] = fs]
  /\ pc' = [pc EXCEPT ![r] = "locked"]
  /\ UNCHANGED <<rowVars, diskVars, old, writing, done, credit, restVars>>

\* SELECT ... FOR UPDATE SKIP LOCKED LIMIT max_workers.
ClaimSelect(r) ==
  /\ pc[r] = "claim"
  /\ \E fs \in SUBSET {f \in Eligible(r) : lock[f] = NoRun} :
       /\ fs # {} /\ Cardinality(fs) <= MaxWorkers
       /\ Cardinality(fs) = MaxWorkers
            \/ \A f \in Eligible(r) : lock[f] = NoRun => f \in fs
       /\ batch' = [batch EXCEPT ![r] = fs]
       /\ lock' = [f \in Files |-> IF f \in fs THEN r ELSE lock[f]]
  /\ pc' = [pc EXCEPT ![r] = "locked"]
  /\ UNCHANGED <<status, path, aged, diskVars, old, writing, done, credit, restVars>>

\* "An empty claim means nothing eligible is left": the run returns.
ClaimNothing(r) ==
  /\ pc[r] = "claim"
  /\ \A f \in Eligible(r) : lock[f] # NoRun
  /\ EndBatch(r, "idle", {})
  /\ UNCHANGED <<rowVars, diskVars, restVars>>

\* The rows are marked DOWNLOADING and the locks released.  A reclaimed row is
\* DOWNLOADING already: the session sees no change and writes nothing, so its
\* updated_at stays as it was.
ClaimCommit(r) ==
  /\ pc[r] = "locked"
  /\ status' = [f \in Files |-> IF f \in batch[r] THEN "downloading" ELSE status[f]]
  /\ Touch({f \in batch[r] : status[f] # "downloading"})
  /\ lock' = [f \in Files |-> IF f \in batch[r] THEN NoRun ELSE lock[f]]
  /\ pc' = [pc EXCEPT ![r] = "check"]
  /\ UNCHANGED <<path, diskVars, batch, writing, done, credit, restVars>>

\* on_progress returns and the transfers are scheduled.
Begin(r) ==
  /\ pc[r] = "check"
  /\ pc' = [pc EXCEPT ![r] = "transfer"]
  /\ UNCHANGED <<rowVars, diskVars, old, batch, writing, done, credit, restVars>>

\* The file's transfer is still to return.
Pending(r, f) == pc[r] = "transfer" /\ f \in batch[r] \ done[r]

\* sftp.get opens and truncates the staging file; a retry does so again.
Open(r, f) ==
  /\ Pending(r, f)
  /\ disk' = [disk EXCEPT ![f] = "partial"]
  /\ opened' = [opened EXCEPT ![f] = r]
  /\ writing' = [writing EXCEPT ![r] = @ \cup {f}]
  /\ UNCHANGED <<rowVars, pc, old, batch, done, credit, restVars>>

\* sftp.get returns.  The bytes are all there unless another run has truncated
\* the file since this one opened it, or the file was moved away.
TransferOk(r, f) ==
  /\ Pending(r, f) /\ f \in writing[r]
  /\ IF opened[f] = r
       THEN /\ disk' = [disk EXCEPT ![f] = IF @ = "partial" THEN "whole" ELSE @]
            /\ opened' = [opened EXCEPT ![f] = NoRun]
       ELSE UNCHANGED diskVars
  /\ done' = [done EXCEPT ![r] = @ \cup {f}]
  /\ UNCHANGED <<rowVars, pc, old, batch, writing, credit, restVars>>

\* The transfer raises, before or after it has opened the staging file.
TransferFail(r, f) ==
  /\ Pending(r, f)
  /\ troubles < MaxTroubles
  /\ troubles' = troubles + 1
  /\ writing' = [writing EXCEPT ![r] = @ \ {f}]
  /\ done' = [done EXCEPT ![r] = @ \cup {f}]
  /\ UNCHANGED <<rowVars, diskVars, pc, old, batch, credit, ignoring, abandoned>>

\* The transfers that returned without an exception.
Arrived(r) == done[r] \cap writing[r]

\* _verify_integrity: a declared CRC32 must be that of the staged bytes.
Intact(f) == f \in Tagged => disk[f] = "whole" /\ f \notin Bad

\* Mutant: every row of the batch is recorded as downloaded.
CreditsAll(r, checked) == checked

\* The rows recorded as downloaded after the files `checked` have been hashed.
Credits(r, checked) == {f \in checked \cap Arrived(r) : Intact(f)}

\* Arrived files that are not in staging any more; hashing them raises.
Unhashable(r) == {f \in Arrived(r) : disk[f] = "none"}

\* _apply_results: hash and verify, one file after the other.
ApplyResults(r) ==
  /\ pc[r] = "transfer" /\ done[r] = batch[r]
  /\ Unhashable(r) = {}
  /\ credit' = [credit EXCEPT ![r] = Credits(r, batch[r])]
  /\ pc' = [pc EXCEPT ![r] = "commit"]
  /\ UNCHANGED <<rowVars, diskVars, old, batch, writing, done, restVars>>

\* The soft time limit strikes in the closing commit: it is tried again.
InterruptCommit(r) ==
  /\ pc[r] = "commit"
  /\ pc' = [pc EXCEPT ![r] = "abort"]
  /\ UNCHANGED <<rowVars, diskVars, old, batch, writing, done, credit, restVars>>

\* _credit_finished_transfers or _mark_interrupted: a cancel, the soft time
\* limit, or a failed hash ends the run; what was recorded before it counts.
Interrupt(r) ==
  /\ pc[r] \in {"check", "transfer"}
  /\ \E checked \in SUBSET (batch[r] \ Unhashable(r)) :
       /\ Unhashable(r) = {} /\ done[r] # batch[r] => checked = batch[r]
       /\ credit' = [credit EXCEPT ![r] = Credits(r, checked)]
  /\ pc' = [pc EXCEPT ![r] = "abort"]
  /\ UNCHANGED <<rowVars, diskVars, old, batch, writing, done, restVars>>

\* The outcome of the batch is committed, whatever the rows say by now: the
\* credited rows as downloaded, the others as ERROR.
RecordOutcome(r) ==
  /\ \A f \in batch[r] : lock[f] = NoRun
  /\ status' = [f \in Files |-> IF f \in credit[r] THEN PostDownloadStatus(f)
                                ELSE IF f \in batch[r] THEN "error" ELSE status[f]]
  /\ path' = [f \in Files |-> f \in credit[r] \/ path[f]]
  /\ aged' = aged \ batch[r]
  /\ UNCHANGED lock

Commit(r) ==
  /\ pc[r] = "commit"
  /\ RecordOutcome(r)
  /\ EndBatch(r, "claim", batch[r])
  /\ UNCHANGED <<diskVars, restVars>>

\* _persist_best_effort, and the run raises.
AbortCommit(r) ==
  /\ pc[r] = "abort"
  /\ RecordOutcome(r)
  /\ EndBatch(r, "idle", batch[r])
  /\ UNCHANGED <<diskVars, restVars>>

\* The worker process dies, a commit fails, or a cancel or a time limit strikes
\* where nothing is written for it, between batches and before the claim has
\* committed: the transaction is rolled back, and the rows stay as the last
\* commit left them.
Lose(r) ==
  /\ pc[r] # "idle"
  /\ troubles < MaxTroubles
  /\ troubles' = troubles + 1
  /\ lock' = [f \in Files |-> IF lock[f] = r THEN NoRun ELSE lock[f]]
  /\ abandoned' = abandoned \cup (IF Holding(r) THEN batch[r] ELSE {})
  /\ EndBatch(r, "idle", {})
  /\ UNCHANGED <<status, path, aged, diskVars, ignoring>>

-----------------------------------------------------------------------------
(* The rest of the program, and time. *)

\* The staleness limit passes for a DOWNLOADING row.
Age(f) ==
  /\ status[f] = "downloading" /\ f \notin aged
  /\ SlowTransfers \/ \A r \in Runs : Holding(r) => f \notin batch[r]
  /\ aged' = aged \cup {f}
  /\ UNCHANGED <<status, path, lock, diskVars, runVars, restVars>>

\* Parse and route take a downloaded file out of staging.
Take(f) ==
  /\ status[f] = "downloaded"
  /\ status' = [status EXCEPT ![f] = "routed"]
  /\ disk' = [disk EXCEPT ![f] = "none"]
  /\ Touch({f})
  /\ UNCHANGED <<path, lock, opened, pc, batch, writing, done, credit, restVars>>

\* ignore_file reads the row and refuses (409) one that is not in ERROR.
IgnoreRead(f) ==
  /\ f \in Unwanted \ ignoring
  /\ status[f] = "error"
  /\ ignoring' = ignoring \cup {f}
  /\ UNCHANGED <<rowVars, diskVars, runVars, troubles, abandoned>>

\* ... and writes IGNORED, waiting for a row lock.
IgnoreCommit(f) ==
  /\ f \in ignoring
  /\ lock[f] = NoRun
  /\ ignoring' = ignoring \ {f}
  /\ status' = [status EXCEPT ![f] = "ignored"]
  /\ Touch({f})
  /\ UNCHANGED <<path, lock, diskVars, pc, batch, writing, done, credit, troubles,
                 abandoned>>

-----------------------------------------------------------------------------
Next ==
  \/ \E r \in Runs :
       \/ StartRun(r)
       \/ ClaimSelect(r)
       \/ ClaimNothing(r)
       \/ ClaimCommit(r)
       \/ Begin(r)
       \/ ApplyResults(r)
       \/ Interrupt(r)
       \/ InterruptCommit(r)
       \/ Commit(r)
       \/ AbortCommit(r)
       \/ Lose(r)
  \/ \E r \in Runs, f \in Files : Open(r, f) \/ TransferOk(r, f) \/ TransferFail(r, f)
  \/ \E f \in Files : Age(f) \/ Take(f) \/ IgnoreRead(f) \/ IgnoreCommit(f)

Spec == Init /\ [][Next]_vars

\* Beat starts runs, a run goes on, a transfer returns, and time passes.
RunFairness(r) ==
  /\ WF_vars(StartRun(r))
  /\ WF_vars(ClaimSelect(r) \/ ClaimNothing(r) \/ ClaimCommit(r))
  /\ WF_vars(Begin(r) \/ ApplyResults(r) \/ Commit(r) \/ AbortCommit(r))
  /\ WF_vars(Unhashable(r) # {} /\ Interrupt(r))
  /\ \A f \in Files : /\ WF_vars(f \notin writing[r] /\ Open(r, f))
                      /\ WF_vars(TransferOk(r, f))

\* Every run ends: the task's time limits see to it, if nothing else does.
RunsEnd == \A r \in Runs : []<>(pc[r] = "idle")

FairRuns ==
  /\ Spec
  /\ \A r \in Runs : RunFairness(r)
  /\ \A f \in Files : WF_vars(Age(f)) /\ WF_vars(IgnoreCommit(f))

FairSpec == FairRuns /\ RunsEnd

-----------------------------------------------------------------------------
(* Properties. *)

\* Two runs hold the same row.
Contended(f) ==
  \E r1, r2 \in Runs : r1 # r2 /\ f \in batch[r1] \cap batch[r2]

\* "Each batch is claimed atomically": two runs hold the same row only if a
\* lost run had left it DOWNLOADING (DownloadOrchestrator._claim_batch).
OneOwnerUnlessAbandoned == \A f \in Files : Contended(f) => f \in abandoned

\* The same without the exception: a stale row, too, is reclaimed by one run.
OneOwner == \A f \in Files : ~Contended(f)

\* What parse and route find in staging for a DOWNLOADED row is the whole file
\* (DownloadOrchestrator._record_transfer).
DownloadedIsWhole ==
  \A f \in Files : status[f] = "downloaded" => disk[f] = "whole" \/ f \in abandoned

\* Manual and noscan IGNORED rows are never claimed: only a run that had the
\* row before the ignore request committed writes over it.
IgnoredIsNotClaimed ==
  [][\A f \in Files : status[f] = "ignored" /\ status'[f] # "ignored"
       => \E r \in Runs : Holding(r) /\ f \in batch[r]]_vars

\* "Otherwise leaves it stuck there forever": no row stays DISCOVERED or
\* DOWNLOADING for good, whatever run was lost with it.
NoRowIsStuck ==
  \A f \in Files : status[f] \in {"discovered", "downloading"}
                     ~> status[f] \notin {"discovered", "downloading"}

\* "A follow-up run re-downloads it": a run tries a corrupt file once and ends,
\* without a time limit that cuts it short (DownloadOrchestrator.run).
RunsFinish == \A r \in Runs : pc[r] = "claim" ~> pc[r] = "idle"

=============================================================================
