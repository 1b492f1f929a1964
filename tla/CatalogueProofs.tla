-------------------------- MODULE CatalogueProofs --------------------------
(***************************************************************************)
(* Proofs about Catalogue, for any number of shows, seasons, requests,     *)
(* imports, syncs and failures: the rows hang together, a file is          *)
(* reported as unmatched only for a reason, and what was reported lasts.   *)
(* Then about SingleFlight, the TMDB client that all of them call, for any *)
(* number of calls, rounds and troubles: one producer, no waiter without   *)
(* an owner, what a call with bypass_cache may return, and when a waiter   *)
(* fails fast.                                                             *)
(***************************************************************************)
EXTENDS Catalogue, SingleFlight, FiniteSetTheorems, TLAPS

-----------------------------------------------------------------------------
(* The invariant. *)

Pcs == {"idle", "next", "insert", "refind", "fetch", "write", "finish", "commit", "alias",
        "split", "match", "done", "failed", "aborted"}
Tx == [row : BOOLEAN, eps : SUBSET Numbers, cached : BOOLEAN, marks : SUBSET Eps]
Report == [created : SUBSET Shows, tracked : SUBSET Eps, unmatched : SUBSET Eps]
JobRecord ==
  [pc : Pcs, mode : {"full", "shows_only", "episodes_only"}, todo : Seq(Group \cup Queued),
   cur : Shows \cup {None}, how : {"found", "created"}, gone : BOOLEAN, begun : BOOLEAN,
   n : Numbers, known : BOOLEAN, tx : Tx, files : SUBSET Eps, claimed : SUBSET Eps,
   told : Report]

\* The rows, which hang together.
Rows ==
  /\ stored \subseteq Shows /\ cached \subseteq stored
  /\ eps \subseteq stored \X Numbers /\ tracked \subseteq eps
  /\ faults \in 0..MaxFaults
  /\ removed \subseteq spoiled /\ spoiled \subseteq Shows

\* Where a job may be, by its kind.
Syncing == {"fetch", "write", "finish"}
Working == Syncing \cup {"commit", "alias", "split", "match"}
Busy == Working \cup {"insert", "refind"}
Phases(j) ==
  /\ j \in Creates => job[j].pc \notin {"next", "split", "match", "aborted"}
  /\ j \in Imports => job[j].pc \notin {"commit", "failed"}
  /\ j \in Syncs => job[j].pc \in Syncing \cup {"idle", "next", "commit"}

\* What is left to do.
Queues(j) ==
  /\ j \in Imports => job[j].todo \in Seq(Group)
  /\ j \in Syncs => /\ job[j].todo \in Seq(Queued)
                    /\ \A k \in DOMAIN job[j].todo : job[j].todo[k].show \in stored \cup {None}
  /\ j \notin Creates /\ job[j].pc \in Busy => job[j].todo # <<>>

\* The show at hand, which is there as long as nobody has deleted it.
Current(j) ==
  /\ job[j].pc \in {"idle", "next"} => job[j].cur = None
  /\ job[j].pc \in Busy => job[j].cur \in Shows
  /\ job[j].gone => job[j].cur \in removed /\ job[j].pc # "insert"
  /\ job[j].pc \in Working /\ ~job[j].gone => job[j].cur \in stored \/ job[j].tx.row

\* What a transaction has written hangs on its show.
Written(j) ==
  /\ job[j].tx # NoTx => job[j].pc \in Working /\ (job[j].cur \in stored \/ job[j].tx.row)
  /\ job[j].tx.row => j \in Creates
  /\ j \in Creates /\ job[j].pc \in Syncing \cup {"commit"} => job[j].tx.row
  /\ j \in Creates /\ job[j].pc = "alias" => job[j].tx = NoTx
  /\ job[j].tx.marks \subseteq {job[j].cur} \X Seen(j)

\* Of a show that is not spoiled a sync has everything that it has passed.
Passed(j) ==
  job[j].cur \notin spoiled =>
    /\ job[j].pc \in {"fetch", "write"} => 1..(job[j].n - 1) \subseteq Seen(j)
    /\ job[j].pc = "write" /\ job[j].known => job[j].n \in Seen(j)
    /\ job[j].pc \in Working \ {"fetch", "write"} => Seen(j) = Numbers

\* What was reported lasts.
Told(j) ==
  /\ job[j].told.created \subseteq stored \cup removed
  /\ \A e \in job[j].told.tracked : e \in tracked \/ e[1] \in removed
  /\ \A e \in job[j].told.unmatched : e[1] \in spoiled

\* A show that is not spoiled has all of its episodes, or none yet.
Whole == \A s \in Shows \ spoiled : Numbered(s) \in {{}, Numbers}

JobInv(j) ==
  Phases(j) /\ Queues(j) /\ Current(j) /\ Written(j) /\ Passed(j) /\ Told(j)

CatalogueInv ==
  /\ Rows /\ job \in [Jobs -> JobRecord] /\ Whole
  /\ \A j \in Jobs : JobInv(j)

-----------------------------------------------------------------------------
(* Records of jobs. *)

LEMMA NoTxIsTx == NoTx \in Tx /\ NoReport \in Report
  BY DEF NoTx, Tx, NoReport, Report

LEMMA LostRecord ==
  ASSUME NEW r \in JobRecord, NEW at \in Pcs
  PROVE  /\ Lost(r, at) \in JobRecord
         /\ Lost(r, at).pc = at /\ Lost(r, at).tx = NoTx /\ Lost(r, at).todo = r.todo
         /\ Lost(r, at).cur = r.cur /\ Lost(r, at).gone = r.gone /\ Lost(r, at).told = r.told
<1>1. NoTx \in Tx /\ 1 \in Numbers
  BY NoTxIsTx, CatalogueConstants DEF Numbers
<1> QED
  BY <1>1 DEF Lost, JobRecord

LEMMA LeaveRecord ==
  ASSUME NEW r \in JobRecord, r.todo # <<>>
  PROVE  /\ Leave(r) \in JobRecord
         /\ Leave(r).pc = "next" /\ Leave(r).tx = NoTx /\ Leave(r).todo = Tail(r.todo)
         /\ Leave(r).cur = None /\ Leave(r).gone = FALSE /\ Leave(r).told = r.told
<1> DEFINE l == Lost(r, "next")
           rest == Tail(r.todo)
           claimed == IF Len(r.todo) > 1 /\ r.todo[2].split THEN l.claimed ELSE {}
<1>1. l \in JobRecord /\ l.pc = "next" /\ l.tx = NoTx /\ l.todo = r.todo /\ l.told = r.told
  BY LostRecord DEF Pcs
<1>2. rest \in Seq(Group \cup Queued) /\ claimed \in SUBSET Eps
  BY <1>1 DEF JobRecord
<1>3. Leave(r) = [l EXCEPT !.todo = rest, !.cur = None, !.gone = FALSE, !.how = "found",
                           !.files = {}, !.claimed = claimed]
  BY <1>1 DEF Leave
<1> HIDE DEF l, rest, claimed
<1>4. Leave(r) \in JobRecord
  BY <1>1, <1>2, <1>3 DEF JobRecord
<1>5. Leave(r).pc = "next" /\ Leave(r).tx = NoTx /\ Leave(r).todo = rest
      /\ Leave(r).cur = None /\ Leave(r).gone = FALSE /\ Leave(r).told = r.told
  BY <1>1, <1>3 DEF JobRecord
<1> QED
  BY <1>4, <1>5 DEF rest

LEMMA StartRecord ==
  ASSUME NEW r \in JobRecord
  PROVE  /\ Start(r) \in JobRecord
         /\ Start(r).pc = "fetch" /\ Start(r).n = 1 /\ Start(r).tx = r.tx
         /\ Start(r).todo = r.todo /\ Start(r).cur = r.cur /\ Start(r).gone = r.gone
         /\ Start(r).told = r.told /\ Start(r).begun = r.begun
<1>1. 1 \in Numbers
  BY CatalogueConstants DEF Numbers
<1> QED
  BY <1>1 DEF Start, JobRecord, Pcs

LEMMA FreshRecord ==
  ASSUME NEW todo \in Seq(Group \cup Queued),
         NEW mode \in {"full", "shows_only", "episodes_only"}
  PROVE  /\ Fresh(todo, mode) \in JobRecord
         /\ Fresh(todo, mode).pc = "idle" /\ Fresh(todo, mode).tx = NoTx
         /\ Fresh(todo, mode).todo = todo /\ Fresh(todo, mode).cur = None
         /\ Fresh(todo, mode).gone = FALSE /\ Fresh(todo, mode).told = NoReport
<1>1. NoTx \in Tx /\ NoReport \in Report /\ 1 \in Numbers
  BY NoTxIsTx, CatalogueConstants DEF Numbers
<1> QED
  BY <1>1 DEF Fresh, JobRecord, Pcs
-----------------------------------------------------------------------------
(* Steps of one job. *)

LEMMA JobFacts ==
  ASSUME CatalogueInv, NEW j \in Jobs
  PROVE  /\ job[j] \in JobRecord /\ JobInv(j) /\ Seen(j) \subseteq Numbers
         /\ job[j].tx \in Tx /\ job[j].n \in Numbers /\ job[j].files \in SUBSET Eps
         /\ job[j].pc \notin Working => job[j].tx = NoTx
         /\ job[j].pc \in {"idle", "next"} =>
              job[j].tx = NoTx /\ job[j].cur = None /\ job[j].gone = FALSE
<1>1. job[j] \in JobRecord /\ JobInv(j) /\ Seen(j) \subseteq Numbers
  BY DEF CatalogueInv, Seen, Numbered, JobRecord, Tx
<1>2. job[j].pc \notin Working => job[j].tx = NoTx
  BY <1>1 DEF JobInv, Written
<1>3. job[j].pc \in {"idle", "next"} => job[j].cur = None /\ job[j].gone = FALSE
  BY <1>1, CatalogueConstants DEF JobInv, Current, CatalogueInv, Rows, JobRecord
<1>4. job[j].tx \in Tx /\ job[j].n \in Numbers /\ job[j].files \in SUBSET Eps
  BY <1>1 DEF JobRecord
<1> QED
  BY <1>1, <1>2, <1>3, <1>4 DEF Working, Syncing

\* What the session sees after such a step.
LEMMA SeenAfter ==
  ASSUME CatalogueInv, NEW j \in Jobs, NEW r2, job' = [job EXCEPT ![j] = r2], eps' = eps
  PROVE  job'[j] = r2 /\ Seen(j)' = Numbered(r2.cur) \cup r2.tx.eps
<1>1. job'[j] = r2
  BY DEF CatalogueInv
<1> QED
  BY <1>1 DEF Seen, Numbered

\* The other jobs see nothing but that there is more.
LEMMA JobStep ==
  ASSUME CatalogueInv, NEW j \in Jobs, NEW r2 \in JobRecord, job' = [job EXCEPT ![j] = r2],
         stored \subseteq stored', eps \subseteq eps', tracked \subseteq tracked',
         spoiled \subseteq spoiled', removed' = removed, Rows', Whole', JobInv(j)'
  PROVE  CatalogueInv'
<1>1. job' \in [Jobs -> JobRecord]
  BY DEF CatalogueInv
<1>2. ASSUME NEW k \in Jobs, k # j PROVE JobInv(k)'
  <2>1. job'[k] = job[k] /\ JobInv(k) /\ job[k] \in JobRecord
    BY <1>2 DEF CatalogueInv
  <2>2. Seen(k) \subseteq Seen(k)' /\ Seen(k)' \subseteq Numbers
    BY <2>1 DEF Seen, Numbered, JobRecord, Tx
  <2>3. Phases(k)' /\ Queues(k)' /\ Current(k)'
    BY <2>1 DEF JobInv, Phases, Queues, Current
  <2>4. Written(k)' /\ Told(k)'
    BY <2>1, <2>2 DEF JobInv, Written, Told
  <2>5. Passed(k)'
    BY <2>1, <2>2 DEF JobInv, Passed
  <2> QED
    BY <2>3, <2>4, <2>5 DEF JobInv
<1> QED
  BY <1>1, <1>2 DEF CatalogueInv

\* Such a step without a commit.
LEMMA QuietStep ==
  ASSUME CatalogueInv, NEW j \in Jobs, NEW r2 \in JobRecord, job' = [job EXCEPT ![j] = r2],
         UNCHANGED db, removed' = removed, faults' \in 0..MaxFaults,
         spoiled \subseteq spoiled', spoiled' \subseteq Shows, JobInv(j)'
  PROVE  CatalogueInv'
<1>1. Rows'
  BY DEF CatalogueInv, Rows, db
<1>2. Whole'
  BY DEF CatalogueInv, Whole, Numbered, db
<1> QED
  BY <1>1, <1>2, JobStep DEF db

\* A step without a commit, after which the job has no transaction.
LEMMA RestStep ==
  ASSUME CatalogueInv, NEW j \in Jobs, NEW r2 \in JobRecord, job' = [job EXCEPT ![j] = r2],
         UNCHANGED db, removed' = removed, faults' \in 0..MaxFaults,
         spoiled \subseteq spoiled', spoiled' \subseteq Shows,
         r2.tx = NoTx, r2.pc \notin Working, r2.told = job[j].told,
         Phases(j)', Queues(j)', Current(j)'
  PROVE  CatalogueInv'
<1>1. job'[j] = r2 /\ JobInv(j)
  BY DEF CatalogueInv
<1>2. Written(j)'
  BY <1>1 DEF Written, NoTx, Working, Syncing
<1>3. Passed(j)'
  BY <1>1 DEF Passed, Working, Syncing
<1>4. Told(j)'
  BY <1>1 DEF JobInv, Told, db
<1> QED
  BY <1>2, <1>3, <1>4, QuietStep DEF JobInv

LEMMA FaultsCount ==
  ASSUME CatalogueInv, UNCHANGED faults \/ Fail
  PROVE  faults' \in 0..MaxFaults
  BY CatalogueConstants DEF CatalogueInv, Rows, Fail

LEMMA AskStep == ASSUME CatalogueInv, NEW c \in Jobs, Ask(c) PROVE CatalogueInv'
<1>1. /\ c \in Creates /\ job[c].pc = "idle"
      /\ UNCHANGED <<db, faults, spoiled, removed>>
  BY DEF Ask
<1>2. PICK s \in Shows :
        job' = [job EXCEPT ![c].cur = s, ![c].pc = IF Existing(s) THEN "done" ELSE "insert"]
  BY DEF Ask
<1> DEFINE r2 == [job[c] EXCEPT !.cur = s, !.pc = IF Existing(s) THEN "done" ELSE "insert"]
<1>3. job' = [job EXCEPT ![c] = r2]
  BY <1>2 DEF CatalogueInv
<1>4. job[c] \in JobRecord /\ job[c].tx = NoTx /\ job[c].gone = FALSE
  BY <1>1, JobFacts
<1>5. /\ r2 \in JobRecord /\ r2.pc \in {"done", "insert"} /\ r2.cur = s /\ r2.tx = NoTx
      /\ r2.gone = FALSE /\ r2.told = job[c].told
  BY <1>4 DEF JobRecord, Pcs
<1> HIDE DEF r2
<1>6. job'[c] = r2
  BY <1>3 DEF CatalogueInv
<1>7. Phases(c)' /\ Queues(c)' /\ Current(c)'
  BY <1>1, <1>5, <1>6, CatalogueConstants
     DEF Phases, Queues, Current, Working, Syncing, Busy
<1>8. r2.pc \notin Working /\ faults' \in 0..MaxFaults /\ spoiled \subseteq spoiled'
      /\ spoiled' \subseteq Shows
  BY <1>1, <1>5 DEF Working, Syncing, CatalogueInv, Rows
<1> QED
  BY <1>1, <1>3, <1>5, <1>7, <1>8, RestStep DEF db

LEMMA InsertStep == ASSUME CatalogueInv, NEW j \in Jobs, Insert(j) PROVE CatalogueInv'
<1> DEFINE r == job[j]
           s == r.cur
<1>1. /\ r.pc = "insert" /\ UNCHANGED <<cached, eps, tracked, faults, spoiled, removed>>
      /\ stored' = IF j \in Imports THEN stored \cup {s} ELSE stored
  BY DEF Insert
<1>2. /\ r \in JobRecord /\ r.tx = NoTx /\ r.gone = FALSE /\ s \in Shows /\ JobInv(j)
      /\ j \notin Syncs
      /\ j \in Imports => r.todo \in Seq(Group) /\ r.todo # <<>>
  <2>1. r \in JobRecord /\ JobInv(j) /\ r.tx = NoTx
    BY <1>1, JobFacts DEF Working, Syncing
  <2>2. r.gone = FALSE /\ s \in Shows
    BY <1>1, <2>1 DEF JobInv, Current, Busy, JobRecord
  <2>3. j \notin Syncs
    BY <1>1, <2>1 DEF JobInv, Phases, Syncing
  <2>4. j \in Imports => r.todo \in Seq(Group) /\ r.todo # <<>>
    BY <1>1, <2>1, CatalogueConstants DEF JobInv, Queues, Busy
  <2> QED
    BY <2>1, <2>2, <2>3, <2>4
<1>3. faults' \in 0..MaxFaults /\ spoiled' \subseteq Shows
  BY <1>1 DEF CatalogueInv, Rows
<1> HIDE DEF r, s
<1>4. CASE s \in stored
  <2> DEFINE r2 == Lost(r, "refind")
  <2>1. job' = [job EXCEPT ![j] = r2] /\ stored' = stored
    BY <1>1, <1>4 DEF Insert, r, s
  <2>2. /\ r2 \in JobRecord /\ r2.pc = "refind" /\ r2.tx = NoTx /\ r2.cur = s
        /\ r2.gone = FALSE /\ r2.todo = r.todo /\ r2.told = r.told
    BY <1>2, LostRecord DEF Pcs, s
  <2> HIDE DEF r2
  <2>3. job'[j] = r2
    BY <2>1 DEF CatalogueInv
  <2>4. Phases(j)' /\ Queues(j)' /\ Current(j)'
    BY <1>2, <2>2, <2>3, CatalogueConstants
       DEF Phases, Queues, Current, Working, Syncing, Busy, Jobs
  <2>5. r2.pc \notin Working
    BY <2>2 DEF Working, Syncing
  <2> QED
    BY <1>1, <1>3, <2>1, <2>2, <2>4, <2>5, RestStep DEF db, r
<1>5. CASE s \notin stored /\ j \in Creates
  <2> DEFINE r2 == Inserted(r)
  <2>1. job' = [job EXCEPT ![j] = r2] /\ stored' = stored
    BY <1>1, <1>5, CatalogueConstants DEF Insert, r, s
  <2>2. /\ r2 \in JobRecord /\ r2.pc = "fetch" /\ r2.cur = s /\ r2.n = 1
        /\ r2.gone = FALSE /\ r2.todo = r.todo /\ r2.told = r.told
        /\ r2.tx.row = TRUE /\ r2.tx.marks = {}
    <3> DEFINE t == [Start(r).tx EXCEPT !.row = TRUE]
    <3>1. /\ Start(r) \in JobRecord /\ Start(r).pc = "fetch" /\ Start(r).n = 1
          /\ Start(r).tx = NoTx /\ Start(r).todo = r.todo /\ Start(r).cur = s
          /\ Start(r).gone = FALSE /\ Start(r).told = r.told
      BY <1>2, StartRecord DEF s
    <3>2. t \in Tx /\ t.row = TRUE /\ t.marks = {}
      <4>1. t = [NoTx EXCEPT !.row = TRUE] /\ NoTx \in Tx /\ NoTx.marks = {}
        BY <3>1, NoTxIsTx DEF NoTx
      <4> QED
        BY <4>1 DEF Tx
    <3>3. r2 = [Start(r) EXCEPT !.tx = t, !.begun = TRUE, !.how = "created"]
      BY DEF Inserted
    <3> HIDE DEF t, r2
    <3> QED
      BY <3>1, <3>2, <3>3 DEF JobRecord
  <2> HIDE DEF r2
  <2>3. job'[j] = r2
    BY <2>1 DEF CatalogueInv
  <2>4. Phases(j)' /\ Queues(j)' /\ Current(j)'
    BY <1>2, <1>5, <2>2, <2>3, CatalogueConstants
       DEF Phases, Queues, Current, Working, Syncing, Busy, Jobs
  <2>5. Written(j)'
    BY <1>2, <1>5, <2>2, <2>3 DEF Written, Working, Syncing
  <2>6. Passed(j)' /\ Told(j)'
    BY <1>1, <1>2, <2>1, <2>2, <2>3 DEF Passed, Told, Working, Syncing, JobInv, r
  <2> QED
    BY <1>1, <1>3, <2>1, <2>2, <2>4, <2>5, <2>6, QuietStep DEF db, JobInv
<1>6. CASE s \notin stored /\ j \in Imports
  <2> DEFINE r2 == Kept(r)
  <2>1. job' = [job EXCEPT ![j] = r2] /\ stored' = stored \cup {s}
    BY <1>1, <1>6, CatalogueConstants DEF Insert, r, s
  <2>2. /\ r2 \in JobRecord /\ r2.pc = "fetch" /\ r2.cur = s /\ r2.n = 1 /\ r2.tx = NoTx
        /\ r2.gone = FALSE /\ r2.todo = r.todo
        /\ r2.told.created = r.told.created \cup {s}
        /\ r2.told.tracked = r.told.tracked /\ r2.told.unmatched = r.told.unmatched
    <3> DEFINE t == [Start(r).told EXCEPT !.created = Start(r).told.created \cup {s}]
    <3>1. /\ Start(r) \in JobRecord /\ Start(r).pc = "fetch" /\ Start(r).n = 1
          /\ Start(r).tx = NoTx /\ Start(r).todo = r.todo /\ Start(r).cur = s
          /\ Start(r).gone = FALSE /\ Start(r).told = r.told
      BY <1>2, StartRecord DEF s
    <3>2. r.told \in Report
      BY <1>2 DEF JobRecord
    <3>3. /\ t \in Report /\ t.created = r.told.created \cup {s}
          /\ t.tracked = r.told.tracked /\ t.unmatched = r.told.unmatched
      BY <1>2, <3>1, <3>2 DEF Report
    <3>4. r2 = [Start(r) EXCEPT !.begun = FALSE, !.how = "created", !.told = t]
      BY DEF Kept, s
    <3> HIDE DEF t, r2
    <3> QED
      BY <3>1, <3>3, <3>4 DEF JobRecord
  <2> HIDE DEF r2
  <2>3. job'[j] = r2
    BY <2>1 DEF CatalogueInv
  <2>4. Phases(j)' /\ Queues(j)' /\ Current(j)'
    BY <1>2, <1>6, <2>1, <2>2, <2>3, CatalogueConstants
       DEF Phases, Queues, Current, Working, Syncing, Busy, Jobs
  <2>5. Written(j)'
    BY <1>6, <2>2, <2>3, CatalogueConstants DEF Written, Working, Syncing, NoTx
  <2>6. Passed(j)' /\ Told(j)'
    BY <1>1, <1>2, <2>1, <2>2, <2>3 DEF Passed, Told, Working, Syncing, JobInv, r
  <2>7. Rows' /\ Whole'
    BY <1>1, <1>2, <2>1 DEF CatalogueInv, Rows, Whole, Numbered
  <2> QED
    BY <1>1, <2>1, <2>2, <2>4, <2>5, <2>6, <2>7, JobStep DEF JobInv
<1> QED
  BY <1>2, <1>4, <1>5, <1>6 DEF Jobs

LEMMA RefindStep == ASSUME CatalogueInv, NEW c \in Jobs, Refind(c) PROVE CatalogueInv'
<1> DEFINE r == job[c]
           r2 == [r EXCEPT !.pc = IF Existing(r.cur) THEN "done" ELSE "failed"]
<1>1. /\ c \in Creates /\ r.pc = "refind" /\ UNCHANGED <<db, faults, spoiled, removed>>
      /\ job' = [job EXCEPT ![c] = r2]
  BY DEF Refind
<1>2. r \in JobRecord /\ r.tx = NoTx /\ JobInv(c)
  BY <1>1, JobFacts DEF Working, Syncing
<1>3. /\ r2 \in JobRecord /\ r2.pc \in {"done", "failed"} /\ r2.cur = r.cur /\ r2.tx = NoTx
      /\ r2.gone = r.gone /\ r2.told = r.told
  BY <1>2 DEF JobRecord, Pcs
<1> HIDE DEF r2
<1>4. job'[c] = r2
  BY <1>1 DEF CatalogueInv
<1>5. Phases(c)' /\ Queues(c)' /\ Current(c)'
  BY <1>1, <1>2, <1>3, <1>4, CatalogueConstants
     DEF Phases, Queues, Current, Working, Syncing, Busy, JobInv
<1>6. r2.pc \notin Working /\ faults' \in 0..MaxFaults /\ spoiled' \subseteq Shows
  BY <1>1, <1>3 DEF Working, Syncing, CatalogueInv, Rows
<1> QED
  BY <1>1, <1>3, <1>5, <1>6, RestStep

\* An import takes a show that is there.
LEMMA AdoptedRecord ==
  ASSUME CatalogueInv, NEW j \in Imports, NEW r \in JobRecord, r.cur \in stored, r.tx = NoTx,
         r.gone = FALSE, r.told = job[j].told, r.todo \in Seq(Group), r.todo # <<>>,
         job' = [job EXCEPT ![j] = Adopted(r)], UNCHANGED <<db, faults, spoiled, removed>>
  PROVE  CatalogueInv'
<1>1. j \in Jobs /\ j \notin Creates /\ j \notin Syncs /\ JobInv(j) /\ r.cur \in Shows
  BY CatalogueConstants DEF Jobs, CatalogueInv, Rows
<1> DEFINE r2 == Adopted(r)
<1>2. /\ r2 \in JobRecord /\ r2.cur = r.cur /\ r2.tx = NoTx /\ r2.gone = FALSE
      /\ r2.told = r.told /\ r2.todo = r.todo
      /\ \/ Numbered(r.cur) = {} /\ r2.pc = "fetch" /\ r2.n = 1
         \/ Numbered(r.cur) # {} /\ r2.pc = "split"
  <2>1. CASE Numbered(r.cur) = {}
    <3>1. /\ Start(r) \in JobRecord /\ Start(r).pc = "fetch" /\ Start(r).n = 1
          /\ Start(r).tx = NoTx /\ Start(r).todo = r.todo /\ Start(r).cur = r.cur
          /\ Start(r).gone = FALSE /\ Start(r).told = r.told
      BY StartRecord
    <3>2. r2 = [Start(r) EXCEPT !.begun = TRUE, !.how = "found"]
      BY <2>1 DEF Adopted
    <3> HIDE DEF r2
    <3> QED
      BY <2>1, <3>1, <3>2 DEF JobRecord
  <2>2. CASE Numbered(r.cur) # {}
    <3>1. r2 = [r EXCEPT !.pc = "split", !.how = "found"]
      BY <2>2 DEF Adopted
    <3> HIDE DEF r2
    <3> QED
      BY <2>2, <3>1 DEF JobRecord, Pcs
  <2> QED
    BY <2>1, <2>2
<1> HIDE DEF r2
<1>3. job' = [job EXCEPT ![j] = r2]
  BY DEF r2
<1>4. job'[j] = r2 /\ Seen(j)' = Numbered(r.cur)
  <2>1. job'[j] = r2 /\ Seen(j)' = Numbered(r2.cur) \cup r2.tx.eps
    BY <1>1, <1>3, SeenAfter DEF db
  <2> QED
    BY <1>2, <2>1 DEF NoTx
<1>5. Phases(j)' /\ Queues(j)' /\ Current(j)'
  BY <1>1, <1>2, <1>4, <1>3
     DEF Phases, Queues, Current, Working, Syncing, Busy, db
<1>6. Written(j)'
  BY <1>1, <1>2, <1>4 DEF Written, NoTx
<1>7. Passed(j)'
  BY <1>1, <1>2, <1>4 DEF Passed, CatalogueInv, Whole
<1>8. Told(j)'
  BY <1>1, <1>2, <1>4 DEF Told, JobInv, db
<1>9. faults' \in 0..MaxFaults /\ spoiled' \subseteq Shows
  BY DEF CatalogueInv, Rows
<1> QED
  BY <1>1, <1>2, <1>3, <1>5, <1>6, <1>7, <1>8, <1>9, QuietStep DEF JobInv

\* The rest of a queue is as good as the queue.
LEMMA TailQueued ==
  ASSUME NEW todo \in Seq(Queued), todo # <<>>, NEW rows,
         \A k \in DOMAIN todo : todo[k].show \in rows
  PROVE  /\ Tail(todo) \in Seq(Queued)
         /\ \A k \in DOMAIN Tail(todo) : Tail(todo)[k].show \in rows
<1>1. /\ Tail(todo) \in Seq(Queued) /\ Len(Tail(todo)) = Len(todo) - 1
      /\ \A k \in 1..Len(Tail(todo)) : Tail(todo)[k] = todo[k + 1]
  OBVIOUS
<1>2. \A k \in 1..Len(Tail(todo)) : k + 1 \in 1..Len(todo)
  BY <1>1
<1> QED
  BY <1>1, <1>2

\* An import leaves the directory for the next one.
LEMMA LeftStep ==
  ASSUME CatalogueInv, NEW j \in Jobs, j \notin Creates, job[j].todo # <<>>,
         job' = [job EXCEPT ![j] = Leave(job[j])], UNCHANGED db, removed' = removed,
         faults' \in 0..MaxFaults, spoiled \subseteq spoiled', spoiled' \subseteq Shows
  PROVE  CatalogueInv'
<1> DEFINE r2 == Leave(job[j])
<1>1. job[j] \in JobRecord /\ JobInv(j)
  BY JobFacts
<1>2. /\ r2 \in JobRecord /\ r2.pc = "next" /\ r2.tx = NoTx /\ r2.todo = Tail(job[j].todo)
      /\ r2.cur = None /\ r2.gone = FALSE /\ r2.told = job[j].told
  BY <1>1, LeaveRecord
<1> HIDE DEF r2
<1>3. job' = [job EXCEPT ![j] = r2]
  BY DEF r2
<1>4. job'[j] = r2
  BY <1>3 DEF CatalogueInv
<1>5. Queues(j)'
  <2>1. \A S : job[j].todo \in Seq(S) /\ job[j].todo # <<>> => Tail(job[j].todo) \in Seq(S)
    OBVIOUS
  <2>2. Queues(j) /\ stored' = stored
    BY <1>1 DEF JobInv, db
  <2> QED
    BY <1>2, <1>4, <2>1, <2>2, TailQueued DEF Queues, Busy, Working, Syncing
<1>6. Phases(j)' /\ Current(j)'
  BY <1>2, <1>4 DEF Phases, Current, Busy, Working, Syncing
<1>7. r2.pc \notin Working
  BY <1>2 DEF Working, Syncing
<1> QED
  BY <1>2, <1>3, <1>5, <1>6, <1>7, RestStep

LEMMA AdoptWinnerStep ==
  ASSUME CatalogueInv, NEW i \in Jobs, AdoptWinner(i)
  PROVE  CatalogueInv'
<1> DEFINE r == job[i]
           r1 == [r EXCEPT !.gone = FALSE]
<1>1. /\ i \in Imports /\ r.pc = "refind" /\ UNCHANGED <<db, faults, spoiled, removed>>
      /\ job' = [job EXCEPT ![i] = IF Existing(r.cur) THEN Adopted(r1) ELSE Unresolved(r)]
  BY DEF AdoptWinner
<1>2. r \in JobRecord /\ r.tx = NoTx /\ JobInv(i)
  BY <1>1, JobFacts DEF Working, Syncing
<1>3. r.todo \in Seq(Group) /\ r.todo # <<>> /\ i \notin Creates
  BY <1>1, <1>2, CatalogueConstants DEF JobInv, Queues, Busy
<1>4. /\ r1 \in JobRecord /\ r1.cur = r.cur /\ r1.tx = NoTx /\ r1.gone = FALSE
      /\ r1.told = r.told /\ r1.todo = r.todo
  BY <1>2 DEF JobRecord
<1> HIDE DEF r1
<1>5. CASE Existing(r.cur)
  BY <1>1, <1>3, <1>4, <1>5, AdoptedRecord DEF Existing
<1>6. CASE ~Existing(r.cur)
  <2>1. job' = [job EXCEPT ![i] = Leave(r)]
    BY <1>1, <1>6 DEF Unresolved
  <2>2. faults' \in 0..MaxFaults /\ spoiled' \subseteq Shows
    BY <1>1 DEF CatalogueInv, Rows
  <2> QED
    BY <1>1, <1>3, <2>1, <2>2, LeftStep
<1> QED
  BY <1>5, <1>6

LEMMA FindShowStep == ASSUME CatalogueInv, NEW i \in Jobs, FindShow(i) PROVE CatalogueInv'
<1> DEFINE r == job[i]
           r1 == [r EXCEPT !.cur = Named(i)]
<1>1. /\ i \in Imports /\ r.pc \in {"idle", "next"} /\ r.todo # <<>> /\ Named(i) \in stored
      /\ UNCHANGED <<db, faults, spoiled, removed>>
      /\ job' = [job EXCEPT ![i] = Adopted(r1)]
  BY DEF FindShow, Resolves
<1>2. r \in JobRecord /\ r.tx = NoTx /\ r.gone = FALSE /\ JobInv(i)
  BY <1>1, JobFacts
<1>3. r.todo \in Seq(Group) /\ Named(i) \in Shows
  BY <1>1, <1>2 DEF JobInv, Queues, CatalogueInv, Rows
<1>4. /\ r1 \in JobRecord /\ r1.cur = Named(i) /\ r1.tx = NoTx /\ r1.gone = FALSE
      /\ r1.told = r.told /\ r1.todo = r.todo
  BY <1>2, <1>3 DEF JobRecord
<1> HIDE DEF r1
<1> QED
  BY <1>1, <1>3, <1>4, AdoptedRecord

LEMMA SearchShowStep ==
  ASSUME CatalogueInv, NEW i \in Jobs, SearchShow(i) \/ SkipShow(i)
  PROVE  CatalogueInv'
<1> DEFINE r == job[i]
<1>1. /\ i \in Imports /\ r.pc \in {"idle", "next"} /\ r.todo # <<>> /\ Named(i) \notin stored
      /\ UNCHANGED <<db, spoiled, removed>>
  BY DEF SearchShow, SkipShow, Resolves
<1>2. r \in JobRecord /\ r.tx = NoTx /\ r.gone = FALSE /\ JobInv(i)
  BY <1>1, JobFacts
<1>3. r.todo \in Seq(Group) /\ i \notin Creates /\ i \notin Syncs /\ Named(i) \in Shows
  <2>1. r.todo \in Seq(Group) /\ i \notin Creates /\ i \notin Syncs
    BY <1>1, <1>2, CatalogueConstants DEF JobInv, Queues
  <2>2. Head(r.todo) \in Group
    BY <1>1, <2>1
  <2> QED
    BY <2>1, <2>2 DEF Named, Group
<1>4. faults' \in 0..MaxFaults /\ spoiled' \subseteq Shows
  BY <1>1, FaultsCount DEF CatalogueInv, Rows, SearchShow, SkipShow
<1>5. CASE job' = [job EXCEPT ![i] = Unresolved(r)]
  BY <1>1, <1>3, <1>4, <1>5, LeftStep DEF Unresolved
<1>6. CASE job' = [job EXCEPT ![i].cur = Named(i), ![i].pc = "insert"]
  <2> DEFINE r2 == [r EXCEPT !.cur = Named(i), !.pc = "insert"]
  <2>1. job' = [job EXCEPT ![i] = r2]
    BY <1>6 DEF CatalogueInv
  <2>2. /\ r2 \in JobRecord /\ r2.pc = "insert" /\ r2.cur = Named(i) /\ r2.tx = NoTx
        /\ r2.gone = FALSE /\ r2.told = r.told /\ r2.todo = r.todo
    BY <1>2, <1>3 DEF JobRecord, Pcs
  <2> HIDE DEF r2
  <2>3. job'[i] = r2
    BY <2>1 DEF CatalogueInv
  <2>4. Phases(i)' /\ Queues(i)' /\ Current(i)' /\ r2.pc \notin Working
    BY <1>1, <1>3, <2>2, <2>3 DEF Phases, Queues, Current, Busy, Working, Syncing
  <2> QED
    BY <1>1, <1>4, <2>1, <2>2, <2>4, RestStep
<1> QED
  BY <1>5, <1>6 DEF SearchShow, SkipShow

-----------------------------------------------------------------------------
(* The sync of the episodes of a show. *)

\* The job goes on with its show, of which it has not seen everything.
LEMMA SpoiledStep ==
  ASSUME CatalogueInv, NEW j \in Jobs, job[j].pc \in Syncing, NEW at \in {"commit", "alias"},
         job' = [job EXCEPT ![j] = [job[j] EXCEPT !.pc = at]], UNCHANGED db,
         at = "commit" => j \in Creates, at = "alias" => j \in Imports,
         spoiled' = spoiled \cup {job[j].cur}, removed' = removed, faults' \in 0..MaxFaults
  PROVE  CatalogueInv'
<1> DEFINE r == job[j]
           r2 == [r EXCEPT !.pc = at]
<1>1. r \in JobRecord /\ JobInv(j)
  BY JobFacts
<1>2. /\ r2 \in JobRecord /\ r2.pc = at /\ r2.tx = r.tx /\ r2.cur = r.cur /\ r2.gone = r.gone
      /\ r2.told = r.told /\ r2.todo = r.todo
  BY <1>1 DEF JobRecord, Pcs
<1> HIDE DEF r2
<1>3. job' = [job EXCEPT ![j] = r2]
  BY DEF r2
<1>4. job'[j] = r2 /\ Seen(j)' = Seen(j)
  <2>1. job'[j] = r2 /\ Seen(j)' = Numbered(r2.cur) \cup r2.tx.eps
    BY <1>3, SeenAfter DEF db
  <2> QED
    BY <1>2, <2>1 DEF Seen
<1>5. Phases(j)' /\ Queues(j)' /\ Current(j)'
  BY <1>1, <1>2, <1>4, CatalogueConstants
     DEF JobInv, Phases, Queues, Current, Working, Syncing, Busy, db
<1>6. Written(j)'
  BY <1>1, <1>2, <1>4, CatalogueConstants DEF JobInv, Written, Working, Syncing, db
<1>7. Passed(j)'
  BY <1>2, <1>4 DEF Passed
<1>8. Told(j)'
  BY <1>1, <1>2, <1>4 DEF JobInv, Told, db
<1>9. spoiled' \subseteq Shows
  BY <1>1 DEF CatalogueInv, Rows, JobInv, Current, Busy, Working
<1> QED
  BY <1>2, <1>3, <1>5, <1>6, <1>7, <1>8, <1>9, QuietStep DEF JobInv

\* The job ends with its transaction.
LEMMA LostStep ==
  ASSUME CatalogueInv, NEW j \in Jobs, NEW at \in {"failed", "aborted"},
         job' = [job EXCEPT ![j] = Lost(job[j], at)], UNCHANGED db,
         at = "failed" => j \in Creates, at = "aborted" => j \in Imports,
         spoiled' = spoiled, removed' = removed, faults' \in 0..MaxFaults
  PROVE  CatalogueInv'
<1> DEFINE r == job[j]
           r2 == Lost(r, at)
<1>1. r \in JobRecord /\ JobInv(j)
  BY JobFacts
<1>2. /\ r2 \in JobRecord /\ r2.pc = at /\ r2.tx = NoTx /\ r2.cur = r.cur /\ r2.gone = r.gone
      /\ r2.told = r.told /\ r2.todo = r.todo
  BY <1>1, LostRecord DEF Pcs
<1> HIDE DEF r2
<1>3. job' = [job EXCEPT ![j] = r2]
  BY DEF r2
<1>4. job'[j] = r2
  BY <1>3 DEF CatalogueInv
<1>5. Phases(j)' /\ Queues(j)' /\ Current(j)' /\ r2.pc \notin Working
  BY <1>1, <1>2, <1>4, CatalogueConstants
     DEF JobInv, Phases, Queues, Current, Working, Syncing, Busy
<1>6. spoiled' \subseteq Shows
  BY DEF CatalogueInv, Rows
<1> QED
  BY <1>2, <1>3, <1>5, <1>6, RestStep

LEMMA SyncFailedStep ==
  ASSUME CatalogueInv, NEW j \in Jobs, NEW database \in BOOLEAN, SyncFailed(j, database),
         job[j].pc \in Syncing, UNCHANGED db, removed' = removed, UNCHANGED faults \/ Fail
  PROVE  CatalogueInv'
<1> DEFINE r == job[j]
<1>1. /\ job' = [job EXCEPT ![j] = IF j \in Creates THEN Tolerated(r, database)
                                   ELSE IF j \in Imports THEN RolledBack(r) ELSE Leave(r)]
      /\ spoiled' = IF \/ j \in Creates /\ ~database
                       \/ j \in Imports /\ ~r.begun
                    THEN spoiled \cup {r.cur} ELSE spoiled
  BY DEF SyncFailed
<1>2. faults' \in 0..MaxFaults
  BY FaultsCount
<1>3. CASE j \in Creates /\ database
  BY <1>1, <1>2, <1>3, CatalogueConstants, LostStep DEF Tolerated
<1>4. CASE j \in Creates /\ ~database
  BY <1>1, <1>2, <1>4, CatalogueConstants, SpoiledStep DEF Tolerated
<1>5. CASE j \in Imports /\ r.begun
  <2>1. j \notin Creates
    BY <1>5, CatalogueConstants
  <2>2. job' = [job EXCEPT ![j] = Lost(r, "aborted")] /\ spoiled' = spoiled
    BY <1>1, <1>5, <2>1 DEF RolledBack
  <2> QED
    BY <1>2, <1>5, <2>1, <2>2, LostStep
<1>6. CASE j \in Imports /\ ~r.begun
  <2>1. j \notin Creates
    BY <1>6, CatalogueConstants
  <2>2. job' = [job EXCEPT ![j] = [r EXCEPT !.pc = "alias"]] /\ spoiled' = spoiled \cup {r.cur}
    BY <1>1, <1>6, <2>1 DEF RolledBack
  <2> QED
    BY <1>2, <1>6, <2>1, <2>2, SpoiledStep
<1>7. CASE j \in Syncs
  <2>1. j \notin Creates /\ j \notin Imports
    BY <1>7, CatalogueConstants
  <2>2. job' = [job EXCEPT ![j] = Leave(r)] /\ spoiled' = spoiled
    BY <1>1, <2>1
  <2>3. r.todo # <<>> /\ spoiled' \subseteq Shows
    BY <2>1, <2>2, JobFacts DEF JobInv, Queues, Busy, Working, CatalogueInv, Rows
  <2> QED
    BY <1>2, <2>1, <2>2, <2>3, LeftStep
<1> QED
  BY <1>3, <1>4, <1>5, <1>6, <1>7 DEF Jobs

LEMMA FetchStep == ASSUME CatalogueInv, NEW j \in Jobs, Fetch(j) PROVE CatalogueInv'
<1> DEFINE r == job[j]
<1>1. r.pc = "fetch" /\ UNCHANGED <<db, removed>>
  BY DEF Fetch
<1>2. CASE Fail /\ SyncFailed(j, FALSE)
  BY <1>1, <1>2, SyncFailedStep DEF Syncing
<1>3. CASE /\ job' = [job EXCEPT ![j].pc = "write", ![j].begun = TRUE,
                                 ![j].known = Known(j, r.n)]
           /\ UNCHANGED <<faults, spoiled>>
  <2> DEFINE known == Known(j, r.n)
             r2 == [r EXCEPT !.pc = "write", !.begun = TRUE, !.known = known]
  <2>1. job' = [job EXCEPT ![j] = r2]
    BY <1>3 DEF CatalogueInv
  <2>2. r \in JobRecord /\ JobInv(j)
    BY JobFacts
  <2>3. known \in BOOLEAN /\ (known => r.n \in Seen(j))
    BY DEF Known
  <2> HIDE DEF known
  <2>4. /\ r2 \in JobRecord /\ r2.pc = "write" /\ r2.tx = r.tx /\ r2.cur = r.cur
        /\ r2.gone = r.gone /\ r2.told = r.told /\ r2.todo = r.todo /\ r2.n = r.n
        /\ r2.known = known
    BY <2>2, <2>3 DEF JobRecord, Pcs
  <2> HIDE DEF r2
  <2>5. job'[j] = r2 /\ Seen(j)' = Seen(j)
    <3>1. job'[j] = r2 /\ Seen(j)' = Numbered(r2.cur) \cup r2.tx.eps
      BY <1>1, <2>1, SeenAfter DEF db
    <3> QED
      BY <2>4, <3>1 DEF Seen
  <2>6. Phases(j)' /\ Queues(j)' /\ Current(j)'
    BY <1>1, <2>2, <2>4, <2>5
       DEF JobInv, Phases, Queues, Current, Working, Syncing, Busy, db
  <2>7. Written(j)' /\ Told(j)'
    <3>1. Written(j)'
      BY <1>1, <2>2, <2>4, <2>5 DEF JobInv, Written, Working, Syncing, db
    <3>2. Told(j)'
      BY <1>1, <1>3, <2>2, <2>4, <2>5 DEF JobInv, Told, db
    <3> QED
      BY <3>1, <3>2
  <2>8. Passed(j)'
    <3>1. /\ job'[j].cur = r.cur /\ job'[j].pc = "write" /\ job'[j].n = r.n
          /\ job'[j].known => r.n \in Seen(j)
      BY <2>3, <2>4, <2>5
    <3>2. r.cur \notin spoiled => 1..(r.n - 1) \subseteq Seen(j)
      BY <1>1, <2>2 DEF JobInv, Passed
    <3>3. Seen(j)' = Seen(j) /\ spoiled' = spoiled
      BY <1>3, <2>5
    <3> QED
      BY <3>1, <3>2, <3>3, Zenon DEF Passed
  <2>9. faults' \in 0..MaxFaults /\ spoiled' \subseteq Shows
    BY <1>3 DEF CatalogueInv, Rows
  <2> QED
    BY <1>1, <1>3, <2>1, <2>4, <2>6, <2>7, <2>8, <2>9, QuietStep DEF JobInv
<1> QED
  BY <1>2, <1>3 DEF Fetch

LEMMA WriteStep == ASSUME CatalogueInv, NEW j \in Jobs, Write(j) PROVE CatalogueInv'
<1> DEFINE r == job[j]
<1>1. r.pc = "write" /\ UNCHANGED <<db, faults, removed>>
  BY DEF Write
<1>2. CASE Refused(j)
  <2>1. SyncFailed(j, TRUE)
    BY <1>2 DEF Write
  <2> QED
    BY <1>1, <2>1, SyncFailedStep DEF Syncing
<1>3. CASE ~Refused(j)
  <2> DEFINE more == r.n < Seasons
             r1 == NewEpisode(r)
             n2 == IF more THEN r1.n + 1 ELSE 1
             at == IF more THEN "fetch" ELSE "finish"
             r2 == [r1 EXCEPT !.known = FALSE, !.n = n2, !.pc = at]
  <2>1. job' = [job EXCEPT ![j] = r2] /\ spoiled' = spoiled
    BY <1>3 DEF Write
  <2>2. r \in JobRecord /\ JobInv(j) /\ r.tx \in Tx /\ r.n \in Numbers /\ ~r.gone
    BY <1>3, JobFacts DEF Refused
  <2>3. /\ r1 \in JobRecord /\ r1.cur = r.cur /\ r1.gone = r.gone /\ r1.told = r.told
        /\ r1.todo = r.todo /\ r1.n = r.n /\ r1.tx \in Tx
        /\ r1.tx.eps = r.tx.eps \cup (IF r.known THEN {} ELSE {r.n})
        /\ r1.tx.row = r.tx.row /\ r1.tx.marks = r.tx.marks
    <3>1. CASE r.known
      BY <2>2, <3>1 DEF NewEpisode
    <3>2. CASE ~r.known
      <4> DEFINE t == [r.tx EXCEPT !.eps = r.tx.eps \cup {r.n}]
      <4>1. t \in Tx /\ t.eps = r.tx.eps \cup {r.n} /\ t.row = r.tx.row /\ t.marks = r.tx.marks
        BY <2>2 DEF Tx
      <4>2. r1 = [r EXCEPT !.tx = t]
        BY <3>2 DEF NewEpisode
      <4> HIDE DEF t, r1
      <4> QED
        BY <2>2, <3>2, <4>1, <4>2 DEF JobRecord
    <3> QED
      BY <3>1, <3>2
  <2>4. n2 \in Numbers /\ at \in {"fetch", "finish"}
    BY <2>2, <2>3, CatalogueConstants DEF Numbers
  <2> HIDE DEF r1
  <2>5. /\ r2 \in JobRecord /\ r2.pc = at /\ r2.n = n2 /\ r2.tx = r1.tx /\ r2.cur = r.cur
        /\ r2.gone = r.gone /\ r2.told = r.told /\ r2.todo = r.todo /\ r2.known = FALSE
    BY <2>3, <2>4 DEF JobRecord, Pcs
  <2> HIDE DEF r2
  <2>6. /\ job'[j] = r2 /\ Seen(j) \subseteq Seen(j)'
        /\ Seen(j)' = Seen(j) \cup (IF r.known THEN {} ELSE {r.n}) /\ Seen(j)' \subseteq Numbers
    <3>1. job'[j] = r2 /\ Seen(j)' = Numbered(r2.cur) \cup r2.tx.eps
      BY <1>1, <2>1, SeenAfter DEF db
    <3> QED
      BY <2>2, <2>3, <2>5, <3>1, JobFacts DEF Seen
  <2>7. Phases(j)' /\ Queues(j)' /\ Current(j)'
    BY <1>1, <2>2, <2>3, <2>4, <2>5, <2>6
       DEF JobInv, Phases, Queues, Current, Working, Syncing, Busy, db
  <2>8. Written(j)' /\ Told(j)'
    <3>1. Told(j)'
      BY <1>1, <2>1, <2>2, <2>5, <2>6 DEF JobInv, Told, db
    <3>2. r.cur \in stored \/ r.tx.row
      BY <1>1, <2>2 DEF JobInv, Current, Working, Syncing
    <3>3. Written(j)'
      BY <1>1, <2>2, <2>3, <2>4, <2>5, <2>6, <3>2 DEF JobInv, Written, Working, Syncing, db
    <3> QED
      BY <3>1, <3>3
  <2>9. Passed(j)'
    <3>1. ASSUME r.cur \notin spoiled PROVE 1..r.n \subseteq Seen(j)'
      <4>1. 1..(r.n - 1) \subseteq Seen(j) /\ r.n \in Seen(j)'
        BY <1>1, <2>2, <2>6, <3>1 DEF JobInv, Passed
      <4> QED
        BY <2>2, <2>6, <4>1 DEF Numbers
    <3>2. CASE more
      <4>1. r2.n - 1 = r.n /\ r2.pc = "fetch"
        BY <2>2, <2>3, <2>5, <3>2 DEF Numbers
      <4> QED
        BY <2>1, <2>5, <2>6, <3>1, <4>1 DEF Passed, Working, Syncing
    <3>3. CASE ~more
      <4>1. r.n = Seasons /\ r2.pc = "finish"
        BY <2>2, <2>5, <3>3, CatalogueConstants DEF Numbers
      <4> QED
        BY <2>1, <2>5, <2>6, <3>1, <4>1 DEF Passed, Working, Syncing, Numbers
    <3> QED
      BY <3>2, <3>3
  <2>10. faults' \in 0..MaxFaults /\ spoiled' \subseteq Shows
    BY <1>1, <2>1 DEF CatalogueInv, Rows
  <2> QED
    BY <1>1, <2>1, <2>5, <2>7, <2>8, <2>9, <2>10, QuietStep DEF JobInv
<1> QED
  BY <1>2, <1>3

LEMMA FinishStep == ASSUME CatalogueInv, NEW j \in Jobs, Finish(j) PROVE CatalogueInv'
<1> DEFINE r == job[j]
<1>1. r.pc = "finish" /\ UNCHANGED <<db, faults, removed>>
  BY DEF Finish
<1>2. CASE r.gone
  <2>1. SyncFailed(j, TRUE)
    BY <1>2 DEF Finish
  <2> QED
    BY <1>1, <2>1, SyncFailedStep DEF Syncing
<1>3. CASE ~r.gone
  <2> DEFINE t == [r.tx EXCEPT !.cached = TRUE]
             at == IF j \notin Imports THEN "commit"
                   ELSE IF r.how = "created" THEN "alias" ELSE "split"
             r2 == [r EXCEPT !.tx = t, !.pc = at]
  <2>1. job' = [job EXCEPT ![j] = r2] /\ spoiled' = spoiled
    <3>1. job' = [job EXCEPT ![j].tx.cached = TRUE, ![j].pc = at] /\ spoiled' = spoiled
      BY <1>3 DEF Finish
    <3> HIDE DEF at
    <3> QED
      BY <3>1 DEF CatalogueInv
  <2>2. r \in JobRecord /\ JobInv(j) /\ r.tx \in Tx
    BY JobFacts
  <2>3. t \in Tx /\ t.eps = r.tx.eps /\ t.row = r.tx.row /\ t.marks = r.tx.marks
    BY <2>2 DEF Tx
  <2>4. /\ at \in {"commit", "alias", "split"}
        /\ at = "commit" => j \notin Imports
        /\ at # "commit" => j \in Imports
    OBVIOUS
  <2> HIDE DEF t, at
  <2>5. /\ r2 \in JobRecord /\ r2.pc = at /\ r2.tx = t /\ r2.cur = r.cur
        /\ r2.gone = r.gone /\ r2.told = r.told /\ r2.todo = r.todo
    BY <2>2, <2>3, <2>4 DEF JobRecord, Pcs
  <2> HIDE DEF r2
  <2>6. job'[j] = r2 /\ Seen(j)' = Seen(j)
    <3>1. job'[j] = r2 /\ Seen(j)' = Numbered(r2.cur) \cup r2.tx.eps
      BY <1>1, <2>1, SeenAfter DEF db
    <3> QED
      BY <2>3, <2>5, <3>1 DEF Seen
  <2>7. Phases(j)' /\ Queues(j)' /\ Current(j)'
    <3>1. Phases(j)'
      BY <1>1, <2>2, <2>4, <2>5, <2>6, CatalogueConstants DEF JobInv, Phases, Syncing, Jobs
    <3>2. Queues(j)'
      BY <1>1, <2>2, <2>4, <2>5, <2>6 DEF JobInv, Queues, Working, Syncing, Busy, db
    <3>3. Current(j)'
      BY <1>1, <2>2, <2>3, <2>4, <2>5, <2>6 DEF JobInv, Current, Working, Syncing, Busy, db
    <3> QED
      BY <3>1, <3>2, <3>3
  <2>8. Written(j)'
    <3>1. r.cur \in stored \/ r.tx.row
      BY <1>1, <1>3, <2>2 DEF JobInv, Current, Working, Syncing
    <3> QED
      BY <1>1, <2>2, <2>3, <2>4, <2>5, <2>6, <3>1, CatalogueConstants
         DEF JobInv, Written, Working, Syncing, db
  <2>9. Passed(j)' /\ Told(j)'
    <3>1. r.cur \notin spoiled => Seen(j) = Numbers
      BY <1>1, <2>2 DEF JobInv, Passed, Working, Syncing
    <3>2. Passed(j)'
      BY <2>1, <2>4, <2>5, <2>6, <3>1 DEF Passed
    <3>3. Told(j)'
      BY <1>1, <2>1, <2>2, <2>5, <2>6 DEF JobInv, Told, db
    <3> QED
      BY <3>2, <3>3
  <2>10. faults' \in 0..MaxFaults /\ spoiled' \subseteq Shows
    BY <1>1, <2>1 DEF CatalogueInv, Rows
  <2> QED
    BY <1>1, <2>1, <2>5, <2>7, <2>8, <2>9, <2>10, QuietStep DEF JobInv
<1> QED
  BY <1>2, <1>3

\* What a commit does to the rows: they hang together, and a show that is not
\* spoiled gets all of its episodes at once.
LEMMA Published ==
  ASSUME CatalogueInv, NEW j \in Jobs, Publish(j), UNCHANGED <<faults, spoiled, removed>>,
         job[j].pc \in Working \ {"fetch", "write"}
  PROVE  /\ Rows' /\ Whole'
         /\ stored \subseteq stored' /\ eps \subseteq eps' /\ tracked \subseteq tracked'
         /\ job[j].tx.marks \subseteq tracked'
         /\ job[j].tx.row => job[j].cur \in stored'
         /\ \A n \in Seen(j) : <<job[j].cur, n>> \in eps'
<1> DEFINE r == job[j]
           s == r.cur
           tx == r.tx
<1>1. /\ stored' = IF tx.row THEN stored \cup {s} ELSE stored
      /\ cached' = IF tx.cached THEN cached \cup {s} ELSE cached
      /\ eps' = eps \cup ({s} \X tx.eps)
      /\ tracked' = tracked \cup tx.marks
  BY DEF Publish
<1>2. r \in JobRecord /\ JobInv(j) /\ tx \in Tx /\ Seen(j) \subseteq Numbers
  BY JobFacts
<1>3. s \in Shows
  BY <1>2 DEF JobInv, Current, Busy
<1>4. Seen(j) = {n \in Numbers : <<s, n>> \in eps} \cup tx.eps
  BY DEF Seen, Numbered
<1>5. s \notin spoiled => Seen(j) = Numbers
  BY <1>2 DEF JobInv, Passed
<1>6. tx.marks \subseteq {s} \X Seen(j) /\ (tx # NoTx => s \in stored \/ tx.row)
  BY <1>2 DEF JobInv, Written
<1>7. tx.eps \subseteq Numbers /\ (tx.eps # {} \/ tx.cached => tx # NoTx)
  BY <1>2 DEF Tx, NoTx
<1> HIDE DEF r, s, tx
<1>8. \A n \in Seen(j) : <<s, n>> \in eps'
  BY <1>1, <1>4
<1>9. \A n \in Numbers : <<s, n>> \in eps' <=> n \in Seen(j)
  BY <1>1, <1>4
<1>10. tx.marks \subseteq eps'
  BY <1>6, <1>8
<1>11. Rows'
  <2>1. stored' \subseteq Shows /\ (tx.eps # {} \/ tx.cached => s \in stored')
    BY <1>1, <1>3, <1>6, <1>7 DEF CatalogueInv, Rows
  <2>2. cached' \subseteq stored' /\ stored \subseteq stored'
    BY <1>1, <2>1 DEF CatalogueInv, Rows
  <2>3. eps' \subseteq stored' \X Numbers
    BY <1>1, <1>7, <2>1, <2>2 DEF CatalogueInv, Rows
  <2>4. tracked' \subseteq eps'
    BY <1>1, <1>10 DEF CatalogueInv, Rows
  <2> QED
    BY <2>1, <2>2, <2>3, <2>4 DEF CatalogueInv, Rows
<1>12. Whole'
  <2>1. ASSUME NEW q \in Shows \ spoiled PROVE Numbered(q)' \in {{}, Numbers}
    <3>1. CASE q = s
      BY <1>5, <1>9, <2>1, <3>1 DEF Numbered
    <3>2. CASE q # s
      <4>1. \A n \in Numbers : <<q, n>> \in eps' <=> <<q, n>> \in eps
        BY <1>1, <3>2
      <4> QED
        BY <2>1, <4>1 DEF CatalogueInv, Whole, Numbered
    <3> QED
      BY <3>1, <3>2
  <2> QED
    BY <2>1 DEF Whole
<1> QED
  BY <1>1, <1>8, <1>11, <1>12 DEF r, s, tx

LEMMA CommitStep == ASSUME CatalogueInv, NEW j \in Jobs, Commit(j) PROVE CatalogueInv'
<1> DEFINE r == job[j]
<1>1. /\ r.pc = "commit" /\ Publish(j) /\ UNCHANGED <<faults, spoiled, removed>>
      /\ job' = [job EXCEPT ![j] = IF j \in Syncs THEN Leave(r) ELSE Lost(r, "alias")]
  BY DEF Commit
<1>2. /\ Rows' /\ Whole'
      /\ stored \subseteq stored' /\ eps \subseteq eps' /\ tracked \subseteq tracked'
      /\ r.tx.row => r.cur \in stored'
      /\ \A n \in Seen(j) : <<r.cur, n>> \in eps'
  BY <1>1, Published DEF Working, Syncing
<1>3. r \in JobRecord /\ JobInv(j) /\ Seen(j) \subseteq Numbers
  BY JobFacts
<1>4. CASE j \in Syncs
  <2> DEFINE r2 == Leave(r)
  <2>1. r.todo # <<>> /\ r.todo \in Seq(Queued) /\ j \notin Creates /\ j \notin Imports
    BY <1>1, <1>3, <1>4, CatalogueConstants DEF JobInv, Queues, Busy, Working
  <2>2. /\ r2 \in JobRecord /\ r2.pc = "next" /\ r2.tx = NoTx /\ r2.todo = Tail(r.todo)
        /\ r2.cur = None /\ r2.gone = FALSE /\ r2.told = r.told
    BY <1>3, <2>1, LeaveRecord
  <2> HIDE DEF r2
  <2>3. job' = [job EXCEPT ![j] = r2] /\ job'[j] = r2
    BY <1>1, <1>4 DEF CatalogueInv, r2
  <2>4. Queues(j)'
    <3>1. Queues(j) /\ stored \subseteq stored'
      BY <1>2, <1>3 DEF JobInv
    <3> QED
      BY <1>4, <2>1, <2>2, <2>3, <3>1, TailQueued DEF Queues, Busy, Working, Syncing
  <2>5. Phases(j)' /\ Current(j)'
    BY <1>4, <2>1, <2>2, <2>3 DEF Phases, Current, Busy, Working, Syncing
  <2>6. Written(j)' /\ Passed(j)' /\ Told(j)'
    <3>1. Written(j)'
      BY <2>1, <2>2, <2>3 DEF Written, NoTx
    <3>2. Passed(j)'
      BY <2>2, <2>3 DEF Passed, Working, Syncing
    <3>3. Told(j)'
      BY <1>1, <1>2, <1>3, <2>2, <2>3 DEF JobInv, Told
    <3> QED
      BY <3>1, <3>2, <3>3
  <2> QED
    BY <1>1, <1>2, <2>2, <2>3, <2>4, <2>5, <2>6, JobStep DEF JobInv
<1>5. CASE j \notin Syncs
  <2> DEFINE r2 == Lost(r, "alias")
  <2>1. j \in Creates /\ j \notin Imports /\ r.tx.row
    <3>1. j \in Creates /\ j \notin Imports
      BY <1>1, <1>3, <1>5, CatalogueConstants DEF JobInv, Phases, Jobs
    <3> QED
      BY <1>1, <1>3, <3>1 DEF JobInv, Written, Syncing
  <2>2. /\ r2 \in JobRecord /\ r2.pc = "alias" /\ r2.tx = NoTx /\ r2.todo = r.todo
        /\ r2.cur = r.cur /\ r2.gone = r.gone /\ r2.told = r.told
    BY <1>3, LostRecord DEF Pcs
  <2> HIDE DEF r2
  <2>3. job' = [job EXCEPT ![j] = r2] /\ job'[j] = r2
    BY <1>1, <1>5 DEF CatalogueInv, r2
  <2>4. Phases(j)' /\ Queues(j)' /\ Current(j)'
    <3>1. Phases(j)' /\ Queues(j)'
      BY <1>5, <2>1, <2>2, <2>3 DEF Phases, Queues, Syncing
    <3>2. Current(j)'
      BY <1>1, <1>2, <1>3, <2>1, <2>2, <2>3 DEF JobInv, Current, Busy, Working, Syncing
    <3> QED
      BY <3>1, <3>2
  <2>5. Written(j)'
    BY <2>1, <2>2, <2>3 DEF Written, NoTx, Syncing
  <2>6. Told(j)'
    BY <1>1, <1>2, <1>3, <2>2, <2>3 DEF JobInv, Told
  <2>7. Passed(j)'
    <3>1. r.cur \notin spoiled => Seen(j) = Numbers
      BY <1>1, <1>3 DEF JobInv, Passed, Working, Syncing
    <3>2. r.cur \notin spoiled => Seen(j)' = Numbers
      <4>1. Seen(j)' = {n \in Numbers : <<r.cur, n>> \in eps'}
        BY <2>2, <2>3 DEF Seen, Numbered, NoTx
      <4> QED
        BY <1>2, <3>1, <4>1
    <3> QED
      BY <1>1, <2>2, <2>3, <3>2 DEF Passed
  <2> QED
    BY <1>1, <1>2, <2>2, <2>3, <2>4, <2>5, <2>6, <2>7, JobStep DEF JobInv
<1> QED
  BY <1>4, <1>5

LEMMA AliasCreatedStep ==
  ASSUME CatalogueInv, NEW c \in Jobs, AliasCreated(c)
  PROVE  CatalogueInv'
<1> DEFINE r == job[c]
<1>1. c \in Creates /\ r.pc = "alias" /\ UNCHANGED <<db, spoiled, removed>>
  BY DEF AliasCreated
<1>2. r \in JobRecord /\ JobInv(c) /\ r.cur \in Shows /\ c \notin Imports /\ c \notin Syncs
  BY <1>1, JobFacts, CatalogueConstants DEF JobInv, Current, Busy, Working
<1>3. CASE AliasesFail(r) /\ job' = [job EXCEPT ![c] = Lost(r, "failed")]
  <2>1. faults' \in 0..MaxFaults
    BY <1>3, FaultsCount DEF AliasesFail
  <2> QED
    BY <1>1, <1>2, <1>3, <2>1, LostStep DEF AliasesFail
<1>4. CASE /\ AliasesKept(r)
           /\ job' = [job EXCEPT ![c].pc = "done",
                                 ![c].told.created = @ \cup {job[c].cur}]
  <2> DEFINE t == [r.told EXCEPT !.created = r.told.created \cup {r.cur}]
             r2 == [r EXCEPT !.pc = "done", !.told = t]
  <2>1. job' = [job EXCEPT ![c] = r2] /\ ~r.gone /\ faults' = faults
    BY <1>4 DEF CatalogueInv, AliasesKept
  <2>2. /\ t \in Report /\ t.created = r.told.created \cup {r.cur}
        /\ t.tracked = r.told.tracked /\ t.unmatched = r.told.unmatched
    <3>1. r.told \in Report
      BY <1>2 DEF JobRecord
    <3> QED
      BY <1>2, <3>1 DEF Report
  <2> HIDE DEF t
  <2>3. /\ r2 \in JobRecord /\ r2.pc = "done" /\ r2.tx = r.tx /\ r2.todo = r.todo
        /\ r2.cur = r.cur /\ r2.gone = r.gone /\ r2.told = t
    BY <1>2, <2>2 DEF JobRecord, Pcs
  <2> HIDE DEF r2
  <2>4. job'[c] = r2
    BY <2>1 DEF CatalogueInv
  <2>5. r.tx = NoTx /\ r.cur \in stored
    <3>1. r.tx = NoTx
      BY <1>1, <1>2 DEF JobInv, Written
    <3> QED
      BY <1>1, <1>2, <2>1, <3>1 DEF JobInv, Current, Working, NoTx
  <2>6. Phases(c)' /\ Queues(c)' /\ Current(c)'
    BY <1>2, <2>1, <2>3, <2>4 DEF Phases, Queues, Current, Busy, Working, Syncing
  <2>7. Written(c)' /\ Passed(c)'
    BY <1>2, <2>3, <2>4, <2>5 DEF Written, Passed, NoTx, Working, Syncing
  <2>8. Told(c)'
    BY <1>1, <1>2, <2>2, <2>3, <2>4, <2>5 DEF JobInv, Told, db
  <2>9. faults' \in 0..MaxFaults /\ spoiled' \subseteq Shows
    BY <1>1, <2>1 DEF CatalogueInv, Rows
  <2> QED
    BY <1>1, <2>1, <2>3, <2>6, <2>7, <2>8, <2>9, QuietStep DEF JobInv
<1> QED
  BY <1>3, <1>4 DEF AliasCreated

LEMMA AliasImportedStep ==
  ASSUME CatalogueInv, NEW i \in Jobs, AliasImported(i)
  PROVE  CatalogueInv'
<1> DEFINE r == job[i]
<1>1. i \in Imports /\ r.pc = "alias" /\ UNCHANGED <<db, spoiled, removed>>
  BY DEF AliasImported
<1>2. r \in JobRecord /\ JobInv(i) /\ i \notin Creates /\ i \notin Syncs
  BY <1>1, JobFacts, CatalogueConstants
<1>3. CASE AliasesFail(r) /\ job' = [job EXCEPT ![i] = Lost(r, "aborted")]
  <2>1. faults' \in 0..MaxFaults
    BY <1>3, FaultsCount DEF AliasesFail
  <2> QED
    BY <1>1, <1>2, <1>3, <2>1, LostStep DEF AliasesFail
<1>4. CASE AliasesKept(r) /\ job' = [job EXCEPT ![i].pc = "split"]
  <2> DEFINE r2 == [r EXCEPT !.pc = "split"]
  <2>1. job' = [job EXCEPT ![i] = r2] /\ faults' = faults
    BY <1>4 DEF CatalogueInv, AliasesKept
  <2>2. /\ r2 \in JobRecord /\ r2.pc = "split" /\ r2.tx = r.tx /\ r2.todo = r.todo
        /\ r2.cur = r.cur /\ r2.gone = r.gone /\ r2.told = r.told
    BY <1>2 DEF JobRecord, Pcs
  <2> HIDE DEF r2
  <2>3. job'[i] = r2 /\ Seen(i)' = Seen(i)
    <3>1. job'[i] = r2 /\ Seen(i)' = Numbered(r2.cur) \cup r2.tx.eps
      BY <1>1, <2>1, SeenAfter DEF db
    <3> QED
      BY <2>2, <3>1 DEF Seen
  <2>4. Phases(i)' /\ Queues(i)' /\ Current(i)'
    BY <1>1, <1>2, <2>2, <2>3
       DEF JobInv, Phases, Queues, Current, Busy, Working, Syncing, db
  <2>5. Written(i)'
    BY <1>1, <1>2, <2>2, <2>3 DEF JobInv, Written, Working, Syncing, db
  <2>6. Passed(i)' /\ Told(i)'
    <3>1. Passed(i)'
      BY <1>1, <1>2, <2>2, <2>3 DEF JobInv, Passed, Working, Syncing
    <3>2. Told(i)'
      BY <1>1, <1>2, <2>2, <2>3 DEF JobInv, Told, db
    <3> QED
      BY <3>1, <3>2
  <2>7. faults' \in 0..MaxFaults /\ spoiled' \subseteq Shows
    BY <1>1, <2>1 DEF CatalogueInv, Rows
  <2> QED
    BY <1>1, <2>1, <2>2, <2>4, <2>5, <2>6, <2>7, QuietStep DEF JobInv
<1> QED
  BY <1>3, <1>4 DEF AliasImported

-----------------------------------------------------------------------------
(* Imports, directory by directory. *)

LEMMA SequenceOfSet ==
  ASSUME NEW S, IsFiniteSet(S)
  PROVE  SetToSeq(S) \in Seq(S)
<1>1. Cardinality(S) \in Nat /\ ExistsBijection(1..Cardinality(S), S)
  BY FS_CardinalityType
<1>2. \E f \in [1..Cardinality(S) -> S] : IsInjective(f)
  BY <1>1 DEF ExistsBijection, Bijection, Injection
<1>3. SetToSeq(S) \in [1..Cardinality(S) -> S]
  BY <1>2 DEF SetToSeq
<1> QED
  BY <1>1, <1>3

LEMMA PartsAreFinite ==
  ASSUME NEW away, NEW others \in SUBSET Shows
  PROVE  IsFiniteSet({Part(away, t) : t \in others})
<1> DEFINE parts == {Part(away, t) : t \in others}
           f == [p \in parts |-> p.show]
<1>1. \A t \in others : Part(away, t).show = t
  BY DEF Part
<1>2. f \in [parts -> Shows] /\ \A p, q \in parts : f[p] = f[q] => p = q
  BY <1>1
<1>3. f \in Injection(parts, Shows)
  BY <1>2 DEF Injection, IsInjective
<1> QED
  BY <1>3, FS_Injection, CatalogueConstants

LEMMA SplitStep == ASSUME CatalogueInv, NEW i \in Jobs, Split(i) PROVE CatalogueInv'
<1> DEFINE r == job[i]
           g == Head(r.todo)
<1>1. r.pc = "split" /\ UNCHANGED <<db, faults, spoiled, removed>>
  BY DEF Split
<1>2. /\ r \in JobRecord /\ JobInv(i) /\ i \in Imports /\ i \notin Creates /\ i \notin Syncs
      /\ r.todo \in Seq(Group) /\ r.todo # <<>>
  <2>1. r \in JobRecord /\ JobInv(i)
    BY JobFacts
  <2>2. i \in Imports /\ i \notin Creates /\ i \notin Syncs
    BY <1>1, <2>1, CatalogueConstants DEF JobInv, Phases, Syncing, Jobs
  <2> QED
    BY <1>1, <2>1, <2>2 DEF JobInv, Queues, Busy, Working
<1>3. g \in Group /\ Tail(r.todo) \in Seq(Group)
  BY <1>2
<1>4. PICK away \in Misplaced(g, r.mode) :
        job' = [job EXCEPT
         ![i].pc = "match",
         ![i].files = g.files \ away,
         ![i].todo = <<g>> \o SetToSeq({Part(away, t) : t \in Others(away, g.show)}) \o Tail(@)]
  BY DEF Split
<1> DEFINE parts == {Part(away, t) : t \in Others(away, g.show)}
           todo == <<g>> \o SetToSeq(parts) \o Tail(r.todo)
           files == g.files \ away
           r2 == [r EXCEPT !.pc = "match", !.files = files, !.todo = todo]
<1>5. job' = [job EXCEPT ![i] = r2]
  <2> HIDE DEF files, g
  <2>1. job' = [job EXCEPT ![i].pc = "match", ![i].files = files,
                           ![i].todo = <<g>> \o SetToSeq(parts) \o Tail(@)]
    BY <1>4 DEF files, g
  <2> HIDE DEF parts
  <2> QED
    BY <2>1 DEF CatalogueInv
<1>6. files \in SUBSET Eps /\ away \subseteq Eps
  <2>1. away = {} \/ away \subseteq g.files
    BY DEF Misplaced
  <2> QED
    BY <1>3, <2>1 DEF Group
<1>7. todo \in Seq(Group) /\ todo # <<>>
  <2>1. IsFiniteSet(parts)
    <3> DEFINE others == Others(away, g.show)
    <3>1. others \in SUBSET Shows
      BY DEF Others
    <3> HIDE DEF others
    <3>2. IsFiniteSet({Part(away, t) : t \in others})
      BY <3>1, PartsAreFinite
    <3> QED
      BY <3>2 DEF others
  <2>2. parts \subseteq Group
    <3> SUFFICES ASSUME NEW t \in Others(away, g.show) PROVE Part(away, t) \in Group
      OBVIOUS
    <3> QED
      BY <1>6 DEF Part, Others, Group
  <2>3. SetToSeq(parts) \in Seq(parts)
    BY <2>1, SequenceOfSet
  <2> HIDE DEF parts, g
  <2>4. SetToSeq(parts) \in Seq(Group)
    BY <2>2, <2>3
  <2>5. <<g>> \in Seq(Group) /\ Len(<<g>>) = 1
    BY <1>3
  <2> QED
    BY <1>3, <2>4, <2>5
<1> HIDE DEF todo, files, g
<1>8. /\ r2 \in JobRecord /\ r2.pc = "match" /\ r2.tx = r.tx /\ r2.todo = todo
      /\ r2.cur = r.cur /\ r2.gone = r.gone /\ r2.told = r.told
  <2>1. todo \in Seq(Group \cup Queued)
    BY <1>7
  <2> QED
    BY <1>2, <1>6, <2>1 DEF JobRecord, Pcs
<1> HIDE DEF r2
<1>9. job'[i] = r2 /\ Seen(i)' = Seen(i)
  <2>1. job'[i] = r2 /\ Seen(i)' = Numbered(r2.cur) \cup r2.tx.eps
    BY <1>1, <1>5, SeenAfter DEF db
  <2> QED
    BY <1>8, <2>1 DEF Seen
<1>10. Phases(i)' /\ Queues(i)' /\ Current(i)'
  BY <1>1, <1>2, <1>7, <1>8, <1>9
     DEF JobInv, Phases, Queues, Current, Busy, Working, Syncing, db
<1>11. Written(i)'
  BY <1>1, <1>2, <1>8, <1>9 DEF JobInv, Written, Working, Syncing, db
<1>12. Passed(i)' /\ Told(i)'
  <2>1. Passed(i)'
    BY <1>1, <1>2, <1>8, <1>9 DEF JobInv, Passed, Working, Syncing
  <2>2. Told(i)'
    BY <1>1, <1>2, <1>8, <1>9 DEF JobInv, Told, db
  <2> QED
    BY <2>1, <2>2
<1>13. faults' \in 0..MaxFaults /\ spoiled' \subseteq Shows
  BY <1>1 DEF CatalogueInv, Rows
<1> QED
  BY <1>1, <1>5, <1>8, <1>10, <1>11, <1>12, <1>13, QuietStep DEF JobInv

\* A file is unmatched, tracked, or tracked already.
LEMMA TallyRecord ==
  ASSUME CatalogueInv, NEW i \in Jobs, job[i].pc = "match", NEW f \in job[i].files,
         NEW n \in Matches(i, f), NEW t, t = Tally(job[i], f, n)
  PROVE  /\ t \in JobRecord /\ t.pc = "match" /\ t.todo = job[i].todo /\ t.cur = job[i].cur
         /\ t.gone = job[i].gone /\ t.tx.eps = job[i].tx.eps /\ t.tx.row = job[i].tx.row
         /\ t.tx = job[i].tx \/ Seen(i) # {}
         /\ t.tx.marks \subseteq job[i].tx.marks \cup ({job[i].cur} \X Seen(i))
         /\ t.told.created = job[i].told.created /\ t.told.tracked = job[i].told.tracked
         /\ \A e \in t.told.unmatched :
              e \in job[i].told.unmatched \/ (e[1] = job[i].cur /\ Seen(i) # Numbers)
<1> DEFINE r == job[i]
<1>1. /\ r \in JobRecord /\ JobInv(i) /\ Seen(i) \subseteq Numbers /\ r.tx \in Tx
      /\ r.told \in Report /\ r.claimed \in SUBSET Eps /\ f \in Eps
  BY JobFacts DEF JobRecord
<1>2. f[2] \in Numbers /\ r.cur \in Shows
  BY <1>1 DEF Eps, JobInv, Current, Busy, Working
<1>3. CASE n = None
  <2> DEFINE un == r.told.unmatched \cup {<<r.cur, f[2]>>}
             told == [r.told EXCEPT !.unmatched = un]
  <2>1. f[2] \notin Seen(i)
    BY <1>1, <1>3, CatalogueConstants DEF Matches
  <2>2. told \in Report /\ told.created = r.told.created /\ told.tracked = r.told.tracked
        /\ told.unmatched = un
    BY <1>1, <1>2 DEF Report, Eps
  <2>3. \A e \in un : e \in r.told.unmatched \/ (e[1] = r.cur /\ Seen(i) # Numbers)
    BY <1>2, <2>1
  <2>4. t = [r EXCEPT !.told = told]
    BY <1>3 DEF Tally
  <2> HIDE DEF told, un
  <2> QED
    BY <1>1, <2>2, <2>3, <2>4 DEF JobRecord
<1>4. CASE n \in Seen(i) /\ n # None /\ <<r.cur, n>> \in r.claimed
  <2>1. t = r
    BY <1>4 DEF Tally
  <2> QED
    BY <1>1, <2>1
<1>5. CASE n \in Seen(i) /\ n # None /\ <<r.cur, n>> \notin r.claimed
  <2> DEFINE m == r.tx.marks \cup {<<r.cur, n>>}
             tx == [r.tx EXCEPT !.marks = m]
             c == r.claimed \cup {<<r.cur, n>>}
  <2>1. c \in SUBSET Eps /\ tx \in Tx /\ tx.marks = m /\ tx.eps = r.tx.eps /\ tx.row = r.tx.row
    BY <1>1, <1>2, <1>5 DEF Tx, Eps
  <2>2. t = [r EXCEPT !.claimed = c, !.tx = tx]
    BY <1>5 DEF Tally
  <2>3. m \subseteq r.tx.marks \cup ({r.cur} \X Seen(i))
    BY <1>5
  <2> HIDE DEF c, tx, m
  <2> QED
    BY <1>1, <1>5, <2>1, <2>2, <2>3 DEF JobRecord
<1> QED
  BY <1>3, <1>4, <1>5 DEF Matches, Guesses

LEMMA TrackStep == ASSUME CatalogueInv, NEW i \in Jobs, Track(i) PROVE CatalogueInv'
<1> DEFINE r == job[i]
<1>1. r.pc = "match" /\ UNCHANGED <<db, faults, spoiled, removed>>
  BY DEF Track
<1>2. PICK f \in r.files : \E n \in Matches(i, f) :
        job' = [job EXCEPT ![i] = [Tally(r, f, n) EXCEPT !.files = r.files \ {f}]]
  BY DEF Track
<1>0. PICK n \in Matches(i, f) :
        job' = [job EXCEPT ![i] = [Tally(r, f, n) EXCEPT !.files = r.files \ {f}]]
  BY <1>2
<1> DEFINE t == Tally(r, f, n)
           r2 == [t EXCEPT !.files = r.files \ {f}]
<1>3. job' = [job EXCEPT ![i] = r2]
  BY <1>0
<1>4. /\ r \in JobRecord /\ JobInv(i) /\ i \notin Creates /\ i \notin Syncs
      /\ Seen(i) \subseteq Numbers /\ r.cur \in Shows
  BY <1>1, JobFacts, CatalogueConstants DEF JobInv, Phases, Current, Busy, Working, Syncing
<1>5. /\ t \in JobRecord /\ t.pc = "match" /\ t.todo = r.todo /\ t.cur = r.cur
      /\ t.gone = r.gone /\ t.tx.eps = r.tx.eps /\ t.tx.row = r.tx.row
      /\ t.tx = r.tx \/ Seen(i) # {}
      /\ t.tx.marks \subseteq r.tx.marks \cup ({r.cur} \X Seen(i))
      /\ t.told.created = r.told.created /\ t.told.tracked = r.told.tracked
      /\ \A e \in t.told.unmatched :
           e \in r.told.unmatched \/ (e[1] = r.cur /\ Seen(i) # Numbers)
  BY <1>1, TallyRecord
<1> HIDE DEF t
<1>6. /\ r2 \in JobRecord /\ r2.pc = "match" /\ r2.todo = t.todo /\ r2.cur = t.cur
      /\ r2.gone = t.gone /\ r2.tx = t.tx /\ r2.told = t.told
  BY <1>4, <1>5 DEF JobRecord
<1> HIDE DEF r2
<1>7. job'[i] = r2 /\ Seen(i)' = Seen(i)
  <2>1. job'[i] = r2 /\ Seen(i)' = Numbered(r2.cur) \cup r2.tx.eps
    BY <1>1, <1>3, SeenAfter DEF db
  <2> QED
    BY <1>5, <1>6, <2>1 DEF Seen
<1>8. Phases(i)' /\ Queues(i)' /\ Current(i)'
  BY <1>1, <1>4, <1>5, <1>6, <1>7
     DEF JobInv, Phases, Queues, Current, Busy, Working, Syncing, db
<1>9. Written(i)'
  <2>1. Seen(i) # {} => r.cur \in stored \/ r.tx.row
    <3>1. r.tx.eps # {} => r.cur \in stored \/ r.tx.row
      BY <1>4 DEF JobInv, Written, NoTx
    <3>2. Numbered(r.cur) # {} => r.cur \in stored
      BY DEF CatalogueInv, Rows, Numbered
    <3> QED
      BY <3>1, <3>2 DEF Seen
  <2>2. r.tx # NoTx => r.cur \in stored \/ r.tx.row
    BY <1>4 DEF JobInv, Written
  <2>3. r.tx.marks \subseteq {r.cur} \X Seen(i) /\ ~r.tx.row
    BY <1>4 DEF JobInv, Written
  <2> QED
    BY <1>1, <1>4, <1>5, <1>6, <1>7, <2>1, <2>2, <2>3 DEF Written, Working, Syncing, db
<1>10. r.cur \notin spoiled => Seen(i) = Numbers
  BY <1>1, <1>4 DEF JobInv, Passed, Working, Syncing
<1>11. Passed(i)'
  BY <1>1, <1>5, <1>6, <1>7, <1>10 DEF Passed
<1>12. Told(i)'
  BY <1>1, <1>4, <1>5, <1>6, <1>7, <1>10 DEF JobInv, Told, db
<1>13. faults' \in 0..MaxFaults /\ spoiled' \subseteq Shows
  BY <1>1 DEF CatalogueInv, Rows
<1> QED
  BY <1>1, <1>3, <1>6, <1>8, <1>9, <1>11, <1>12, <1>13, QuietStep DEF JobInv

\* The end of a directory: its transaction is committed, then it is reported.
LEMMA EndGroupStep ==
  ASSUME CatalogueInv, NEW i \in Jobs, FinishShowsOnly(i) \/ EndGroup(i)
  PROVE  CatalogueInv'
<1> DEFINE r == job[i]
           l == Leave(r)
<1>1. /\ r.pc \in {"split", "match"} /\ Publish(i) /\ UNCHANGED <<faults, spoiled, removed>>
      /\ \/ job' = [job EXCEPT ![i] = l]
         \/ job' = [job EXCEPT ![i] =
                      [l EXCEPT !.told.tracked = l.told.tracked \cup r.tx.marks]]
  BY DEF FinishShowsOnly, EndGroup
<1>2. /\ Rows' /\ Whole'
      /\ stored \subseteq stored' /\ eps \subseteq eps' /\ tracked \subseteq tracked'
      /\ r.tx.marks \subseteq tracked'
  BY <1>1, Published DEF Working, Syncing
<1>3. /\ r \in JobRecord /\ JobInv(i) /\ i \notin Creates /\ i \notin Syncs /\ r.tx \in Tx
  BY <1>1, JobFacts, CatalogueConstants DEF JobInv, Phases, Syncing
<1>4. i \in Imports /\ r.todo \in Seq(Group) /\ r.todo # <<>>
  BY <1>1, <1>3 DEF JobInv, Queues, Busy, Working, Jobs
<1>5. /\ l \in JobRecord /\ l.pc = "next" /\ l.tx = NoTx /\ l.todo = Tail(r.todo)
      /\ l.cur = None /\ l.gone = FALSE /\ l.told = r.told
  BY <1>3, <1>4, LeaveRecord
<1> HIDE DEF l
<1>6. ASSUME NEW r2 \in JobRecord, job' = [job EXCEPT ![i] = r2], r2.pc = "next", r2.tx = NoTx,
             r2.todo = Tail(r.todo), r2.cur = None, r2.gone = FALSE,
             r2.told.created = r.told.created, r2.told.unmatched = r.told.unmatched,
             r2.told.tracked \subseteq r.told.tracked \cup r.tx.marks
      PROVE  CatalogueInv'
  <2>1. job'[i] = r2 /\ Tail(r.todo) \in Seq(Group)
    BY <1>4, <1>6 DEF CatalogueInv
  <2>2. Phases(i)' /\ Queues(i)' /\ Current(i)'
    BY <1>3, <1>6, <2>1 DEF Phases, Queues, Current, Busy, Working, Syncing
  <2>3. Written(i)' /\ Passed(i)'
    <3>1. Written(i)'
      BY <1>6, <2>1, <1>3 DEF Written, NoTx
    <3>2. Passed(i)'
      BY <1>6, <2>1 DEF Passed, Working, Syncing
    <3> QED
      BY <3>1, <3>2
  <2>4. Told(i)'
    BY <1>1, <1>2, <1>3, <1>6, <2>1 DEF JobInv, Told
  <2> QED
    BY <1>1, <1>2, <1>6, <2>2, <2>3, <2>4, JobStep DEF JobInv
<1>7. CASE job' = [job EXCEPT ![i] = l]
  BY <1>5, <1>6, <1>7
<1>8. CASE job' = [job EXCEPT ![i] =
                     [l EXCEPT !.told.tracked = l.told.tracked \cup r.tx.marks]]
  <2> DEFINE told == [l.told EXCEPT !.tracked = l.told.tracked \cup r.tx.marks]
             r2 == [l EXCEPT !.told = told]
  <2>1. r.told \in Report /\ r.tx.marks \in SUBSET Eps
    BY <1>3 DEF JobRecord, Tx
  <2>2. /\ told \in Report /\ told.created = r.told.created
        /\ told.unmatched = r.told.unmatched
        /\ told.tracked = r.told.tracked \cup r.tx.marks
    BY <1>5, <2>1 DEF Report
  <2>3. job' = [job EXCEPT ![i] = r2]
    BY <1>8
  <2> HIDE DEF told
  <2>4. /\ r2 \in JobRecord /\ r2.pc = "next" /\ r2.tx = NoTx /\ r2.todo = Tail(r.todo)
        /\ r2.cur = None /\ r2.gone = FALSE /\ r2.told = told
    BY <1>5, <2>2 DEF JobRecord
  <2> HIDE DEF r2
  <2> QED
    BY <1>6, <2>2, <2>3, <2>4
<1> QED
  BY <1>1, <1>7, <1>8

LEMMA EndImportStep == ASSUME CatalogueInv, NEW i \in Jobs, EndImport(i) PROVE CatalogueInv'
<1> DEFINE r == job[i]
           r2 == [r EXCEPT !.pc = "done"]
<1>1. /\ i \in Imports /\ r.pc = "next" /\ UNCHANGED <<db, faults, spoiled, removed>>
      /\ job' = [job EXCEPT ![i] = r2]
  BY DEF EndImport, CatalogueInv
<1>2. /\ r \in JobRecord /\ r.tx = NoTx /\ r.gone = FALSE /\ JobInv(i)
      /\ i \notin Creates /\ i \notin Syncs
  BY <1>1, JobFacts, CatalogueConstants
<1>3. /\ r2 \in JobRecord /\ r2.pc = "done" /\ r2.tx = NoTx /\ r2.gone = FALSE
      /\ r2.told = r.told /\ r2.todo = r.todo
  BY <1>2 DEF JobRecord, Pcs
<1> HIDE DEF r2
<1>4. job'[i] = r2 /\ r2.pc \notin Working
  BY <1>1, <1>3 DEF CatalogueInv, Working, Syncing
<1>5. Phases(i)' /\ Queues(i)' /\ Current(i)'
  BY <1>1, <1>2, <1>3, <1>4 DEF JobInv, Phases, Queues, Current, Busy, Working, Syncing
<1>6. faults' \in 0..MaxFaults /\ spoiled' \subseteq Shows
  BY <1>1 DEF CatalogueInv, Rows
<1> QED
  BY <1>1, <1>3, <1>4, <1>5, <1>6, RestStep

-----------------------------------------------------------------------------
(* Syncs. *)

LEMMA QueueOfShows ==
  ASSUME CatalogueInv, NEW shows \in SUBSET stored, NEW q \in Queue(shows)
  PROVE  /\ q \in Seq(Queued)
         /\ \A k \in DOMAIN q : q[k].show \in stored \cup {None}
<1> DEFINE len == Cardinality(shows)
<1>1. PICK f \in SetToSeqs(shows) :
        q = [k \in DOMAIN f |-> [show |-> f[k], files |-> {}, split |-> FALSE]]
  BY DEF Queue
<1>2. len \in Nat
  BY FS_Subset, FS_CardinalityType, CatalogueConstants DEF CatalogueInv, Rows
<1>3. f \in [1..len -> shows]
  BY DEF SetToSeqs
<1> HIDE DEF len
<1>4. q \in [1..len -> Queued]
  BY <1>1, <1>3 DEF Queued, CatalogueInv, Rows
<1>5. DOMAIN q = 1..len /\ \A k \in 1..len : q[k].show = f[k]
  BY <1>1, <1>3
<1> QED
  BY <1>2, <1>3, <1>4, <1>5

LEMMA SyncBeginStep ==
  ASSUME CatalogueInv, NEW y \in Jobs, SyncAll(y) \/ SyncOne(y) \/ SyncMissing(y)
  PROVE  CatalogueInv'
<1> DEFINE r == job[y]
<1>1. y \in Syncs /\ r.pc = "idle" /\ UNCHANGED <<db, faults, spoiled, removed>>
  BY DEF SyncAll, SyncOne, SyncMissing
<1>2. PICK shows \in SUBSET stored : \E q \in Queue(shows) :
        job' = [job EXCEPT ![y].todo = q, ![y].pc = "next"]
  <2>1. CASE SyncAll(y)
    BY <2>1 DEF SyncAll, Incomplete
  <2>2. CASE SyncOne(y)
    BY <2>2 DEF SyncOne
  <2>3. CASE SyncMissing(y)
    BY <2>3 DEF SyncMissing, Missing
  <2> QED
    BY <2>1, <2>2, <2>3
<1>0. PICK q \in Queue(shows) : job' = [job EXCEPT ![y].todo = q, ![y].pc = "next"]
  BY <1>2
<1> DEFINE r2 == [r EXCEPT !.todo = q, !.pc = "next"]
<1>3. job' = [job EXCEPT ![y] = r2]
  BY <1>0 DEF CatalogueInv
<1>4. /\ r \in JobRecord /\ r.tx = NoTx /\ r.gone = FALSE /\ r.cur = None
      /\ y \notin Creates /\ y \notin Imports
  BY <1>1, JobFacts, CatalogueConstants
<1>5. q \in Seq(Queued) /\ \A k \in DOMAIN q : q[k].show \in stored \cup {None}
  BY QueueOfShows
<1>6. q \in Seq(Group \cup Queued)
  BY <1>5
<1>7. /\ r2 \in JobRecord /\ r2.pc = "next" /\ r2.todo = q /\ r2.tx = NoTx /\ r2.cur = None
      /\ r2.gone = FALSE /\ r2.told = r.told
  BY <1>4, <1>6 DEF JobRecord, Pcs
<1> HIDE DEF r2
<1>8. job'[y] = r2 /\ r2.pc \notin Working
  BY <1>3, <1>7 DEF CatalogueInv, Working, Syncing
<1>9. Queues(y)'
  BY <1>1, <1>4, <1>5, <1>7, <1>8 DEF Queues, Busy, Working, Syncing, db
<1>10. Phases(y)' /\ Current(y)'
  BY <1>4, <1>7, <1>8 DEF Phases, Current, Busy, Working, Syncing
<1>11. faults' \in 0..MaxFaults /\ spoiled' \subseteq Shows
  BY <1>1 DEF CatalogueInv, Rows
<1> QED
  BY <1>1, <1>3, <1>7, <1>8, <1>9, <1>10, <1>11, RestStep

LEMMA SyncNextStep == ASSUME CatalogueInv, NEW y \in Jobs, SyncNext(y) PROVE CatalogueInv'
<1> DEFINE r == job[y]
           s == Head(r.todo).show
<1>1. /\ y \in Syncs /\ r.pc = "next" /\ UNCHANGED <<db, faults, spoiled, removed>>
      /\ job' = [job EXCEPT ![y] =
                   IF r.todo = <<>> THEN [r EXCEPT !.pc = "idle"]
                   ELSE IF s = None THEN Leave(r)
                   ELSE [Start(r) EXCEPT !.cur = s, !.begun = TRUE]]
  BY DEF SyncNext
<1>2. /\ r \in JobRecord /\ r.tx = NoTx /\ r.gone = FALSE /\ r.cur = None /\ JobInv(y)
      /\ y \notin Creates /\ y \notin Imports
  BY <1>1, JobFacts, CatalogueConstants
<1>3. faults' \in 0..MaxFaults /\ spoiled' \subseteq Shows
  BY <1>1 DEF CatalogueInv, Rows
<1>4. Queues(y) /\ r.todo \in Seq(Queued)
  BY <1>1, <1>2 DEF JobInv, Queues
<1>5. CASE r.todo = <<>>
  <2> DEFINE r2 == [r EXCEPT !.pc = "idle"]
  <2>1. job' = [job EXCEPT ![y] = r2]
    BY <1>1, <1>5
  <2>2. /\ r2 \in JobRecord /\ r2.pc = "idle" /\ r2.tx = NoTx /\ r2.cur = None
        /\ r2.gone = FALSE /\ r2.told = r.told /\ r2.todo = r.todo
    BY <1>2 DEF JobRecord, Pcs
  <2> HIDE DEF r2
  <2>3. job'[y] = r2 /\ r2.pc \notin Working
    BY <2>1, <2>2 DEF CatalogueInv, Working, Syncing
  <2>4. Phases(y)' /\ Queues(y)' /\ Current(y)'
    BY <1>1, <1>2, <1>4, <2>2, <2>3 DEF Phases, Queues, Current, Busy, Working, Syncing, db
  <2> QED
    BY <1>1, <1>3, <2>1, <2>2, <2>3, <2>4, RestStep
<1>6. CASE r.todo # <<>> /\ s = None
  <2>1. job' = [job EXCEPT ![y] = Leave(r)]
    BY <1>1, <1>6
  <2> QED
    BY <1>1, <1>2, <1>3, <1>6, <2>1, LeftStep
<1>7. CASE r.todo # <<>> /\ s # None
  <2>1. s \in stored /\ s \in Shows
    <3>1. 1 \in DOMAIN r.todo /\ Head(r.todo) = r.todo[1]
      BY <1>4, <1>7
    <3> QED
      BY <1>1, <1>4, <1>7, <3>1 DEF Queues, CatalogueInv, Rows
  <2> HIDE DEF s
  <2> DEFINE r2 == [Start(r) EXCEPT !.cur = s, !.begun = TRUE]
  <2>2. job' = [job EXCEPT ![y] = r2]
    BY <1>1, <1>7 DEF s
  <2>3. /\ r2 \in JobRecord /\ r2.pc = "fetch" /\ r2.n = 1 /\ r2.tx = NoTx /\ r2.cur = s
        /\ r2.gone = FALSE /\ r2.told = r.told /\ r2.todo = r.todo
    <3>1. /\ Start(r) \in JobRecord /\ Start(r).pc = "fetch" /\ Start(r).n = 1
          /\ Start(r).tx = NoTx /\ Start(r).todo = r.todo
          /\ Start(r).gone = FALSE /\ Start(r).told = r.told
      BY <1>2, StartRecord
    <3> QED
      BY <2>1, <3>1 DEF JobRecord
  <2> HIDE DEF r2
  <2>4. job'[y] = r2
    BY <2>2 DEF CatalogueInv
  <2>5. Queues(y)'
    <3>1. /\ r.todo \in Seq(Queued) /\ stored' = stored /\ job'[y].todo = r.todo
          /\ \A k \in DOMAIN r.todo : r.todo[k].show \in stored \cup {None}
      BY <1>1, <1>4, <2>3, <2>4 DEF Queues, db
    <3> HIDE DEF r
    <3> QED
      BY <1>2, <1>7, <3>1 DEF Queues
  <2>8. Phases(y)' /\ Current(y)'
    <3>1. stored' = stored
      BY <1>1 DEF db
    <3>2. Phases(y)'
      BY <1>2, <2>3, <2>4 DEF Phases, Syncing
    <3>3. Current(y)'
      BY <2>1, <2>3, <2>4, <3>1 DEF Current, Busy, Working, Syncing
    <3> QED
      BY <3>2, <3>3
  <2>6. Written(y)' /\ Passed(y)'
    BY <1>2, <2>3, <2>4 DEF Written, Passed, NoTx, Working, Syncing
  <2>7. Told(y)'
    BY <1>1, <1>2, <2>3, <2>4 DEF JobInv, Told, db
  <2> QED
    BY <1>1, <1>3, <2>2, <2>3, <2>5, <2>6, <2>7, <2>8, QuietStep DEF JobInv
<1> QED
  BY <1>5, <1>6, <1>7

-----------------------------------------------------------------------------
(* Deleted shows and lost workers. *)

LEMMA DroppedQueue ==
  ASSUME NEW todo \in Seq(Queued), NEW s, NEW rows,
         \A k \in DOMAIN todo : todo[k].show \in rows \cup {None}
  PROVE  /\ Dropped(todo, s) \in Seq(Queued)
         /\ \A k \in DOMAIN Dropped(todo, s) :
              Dropped(todo, s)[k].show \in (rows \ {s}) \cup {None}
         /\ todo # <<>> => Dropped(todo, s) # <<>>
<1> DEFINE d == Dropped(todo, s)
<1>0. \A q \in Queued : [q EXCEPT !.show = None] \in Queued
  BY DEF Queued
<1>1. \A k \in 1..Len(todo) : todo[k] \in Queued /\ [todo[k] EXCEPT !.show = None] \in Queued
  BY <1>0
<1>2. d = [k \in 1..Len(todo) |->
             IF todo[k].show = s THEN [todo[k] EXCEPT !.show = None] ELSE todo[k]]
  BY DEF Dropped
<1> HIDE DEF d
<1>3. d \in [1..Len(todo) -> Queued] /\ Len(todo) \in Nat
  BY <1>1, <1>2
<1>4. d \in Seq(Queued) /\ Len(d) = Len(todo)
  BY <1>3
<1>5. \A k \in 1..Len(todo) : d[k].show \in (rows \ {s}) \cup {None}
  <2> SUFFICES ASSUME NEW k \in 1..Len(todo) PROVE d[k].show \in (rows \ {s}) \cup {None}
    OBVIOUS
  <2>1. todo[k].show \in rows \cup {None} /\ todo[k] \in Queued
    BY <1>1
  <2>2. CASE todo[k].show = s
    <3>1. [todo[k] EXCEPT !.show = None].show = None
      BY <2>1 DEF Queued
    <3> QED
      BY <1>2, <2>2, <3>1
  <2>3. CASE todo[k].show # s
    BY <1>2, <2>1, <2>3
  <2> QED
    BY <2>2, <2>3
<1> QED
  BY <1>4, <1>5 DEF d

LEMMA DeleteStep == ASSUME CatalogueInv, NEW s \in Shows, Delete(s) PROVE CatalogueInv'
<1>1. /\ s \in stored /\ Fail
      /\ \A j \in Jobs : job[j].cur = s => job[j].tx = NoTx
      /\ stored' = stored \ {s} /\ cached' = cached \ {s}
      /\ eps' = {e \in eps : e[1] # s} /\ tracked' = {e \in tracked : e[1] # s}
      /\ spoiled' = spoiled \cup {s} /\ removed' = removed \cup {s}
  BY DEF Delete, Without
<1>2. job' = [j \in Jobs |->
         [job[j] EXCEPT !.gone = job[j].gone \/ (job[j].cur = s /\ job[j].pc # "insert"),
                        !.todo = IF j \in Syncs THEN Dropped(job[j].todo, s) ELSE job[j].todo]]
  BY DEF Delete
<1>3. Rows'
  <2>1. faults' \in 0..MaxFaults
    BY <1>1, FaultsCount
  <2>2. stored' \subseteq Shows /\ cached' \subseteq stored' /\ tracked' \subseteq eps'
    BY <1>1 DEF CatalogueInv, Rows
  <2>3. eps' \subseteq stored' \X Numbers
    BY <1>1 DEF CatalogueInv, Rows
  <2>4. removed' \subseteq spoiled' /\ spoiled' \subseteq Shows
    BY <1>1 DEF CatalogueInv, Rows
  <2> QED
    BY <2>1, <2>2, <2>3, <2>4 DEF Rows
<1>4. \A q \in Shows : q # s => Numbered(q)' = Numbered(q)
  BY <1>1 DEF Numbered
<1>5. Whole'
  BY <1>1, <1>4 DEF Whole, CatalogueInv
<1>6. ASSUME NEW j \in Jobs PROVE job'[j] \in JobRecord /\ JobInv(j)'
  <2> DEFINE r == job[j]
             gone == r.gone \/ (r.cur = s /\ r.pc # "insert")
             todo == IF j \in Syncs THEN Dropped(r.todo, s) ELSE r.todo
             r2 == job'[j]
  <2>1. r \in JobRecord /\ JobInv(j) /\ Seen(j) \subseteq Numbers
    BY JobFacts
  <2>2. /\ todo \in Seq(Group \cup Queued) /\ (r.todo # <<>> => todo # <<>>)
        /\ j \in Imports => todo \in Seq(Group)
        /\ j \in Syncs => /\ todo \in Seq(Queued)
                          /\ \A k \in DOMAIN todo : todo[k].show \in stored' \cup {None}
    <3>1. CASE j \in Syncs
      <4>1. /\ r.todo \in Seq(Queued) /\ j \notin Imports
            /\ \A k \in DOMAIN r.todo : r.todo[k].show \in stored \cup {None}
        BY <2>1, <3>1, CatalogueConstants DEF JobInv, Queues
      <4>2. /\ todo \in Seq(Queued) /\ (r.todo # <<>> => todo # <<>>)
            /\ \A k \in DOMAIN todo : todo[k].show \in (stored \ {s}) \cup {None}
        BY <3>1, <4>1, DroppedQueue
      <4> HIDE DEF todo
      <4> QED
        BY <1>1, <3>1, <4>1, <4>2
    <3>2. CASE j \notin Syncs
      BY <2>1, <3>2 DEF JobInv, Queues, JobRecord
    <3> QED
      BY <3>1, <3>2
  <2>3. gone \in BOOLEAN /\ r2 = [r EXCEPT !.gone = gone, !.todo = todo]
    BY <1>2, <2>1 DEF JobRecord
  <2> HIDE DEF todo, r2
  <2>4. /\ r2 \in JobRecord /\ r2.pc = r.pc /\ r2.cur = r.cur /\ r2.tx = r.tx /\ r2.n = r.n
        /\ r2.known = r.known /\ r2.told = r.told /\ r2.todo = todo /\ r2.gone = gone
    BY <2>1, <2>2, <2>3 DEF JobRecord
  <2> HIDE DEF gone
  <2>5. r.cur # s => Seen(j)' = Seen(j)
    <3>1. \A q : q # s => {n \in Numbers : <<q, n>> \in eps'} = {n \in Numbers : <<q, n>> \in eps}
      BY <1>1
    <3>2. Seen(j)' = {n \in Numbers : <<r.cur, n>> \in eps'} \cup r.tx.eps
      BY <2>4 DEF Seen, Numbered, r2
    <3> QED
      BY <3>1, <3>2 DEF Seen, Numbered
  <2>6. Phases(j)' /\ Queues(j)'
    BY <2>1, <2>2, <2>4 DEF JobInv, Phases, Queues, r2
  <2>7. Current(j)'
    BY <1>1, <2>1, <2>4 DEF JobInv, Current, r2, gone, Working, Busy, Syncing
  <2>8. Written(j)'
    <3>1. CASE r.cur = s
      <4>1. r.tx = NoTx
        BY <1>1, <3>1
      <4> QED
        BY <2>1, <2>4, <4>1 DEF JobInv, Written, NoTx, r2
    <3>2. CASE r.cur # s
      BY <1>1, <2>1, <2>4, <2>5, <3>2 DEF JobInv, Written, r2
    <3> QED
      BY <3>1, <3>2
  <2>9. Passed(j)'
    <3>1. CASE r.cur = s
      BY <1>1, <2>4, <3>1 DEF Passed, r2
    <3>2. CASE r.cur # s
      BY <1>1, <2>1, <2>4, <2>5, <3>2 DEF JobInv, Passed, r2
    <3> QED
      BY <3>1, <3>2
  <2>10. Told(j)'
    BY <1>1, <2>1, <2>4 DEF JobInv, Told, r2
  <2> QED
    BY <2>4, <2>6, <2>7, <2>8, <2>9, <2>10 DEF JobInv, r2
<1> QED
  BY <1>2, <1>3, <1>5, <1>6 DEF CatalogueInv

LEMMA FirstRecord ==
  ASSUME NEW j \in Jobs, NEW mode \in {"full", "shows_only", "episodes_only"}
  PROVE  /\ Entries(j) \in Seq(Group \cup Queued)
         /\ j \in Imports => Entries(j) \in Seq(Group)
         /\ j \notin Imports => Entries(j) = <<>>
         /\ Fresh(Entries(j), mode) \in JobRecord
<1>1. /\ j \in Imports => Entries(j) \in Seq(Group)
      /\ j \notin Imports => Entries(j) = <<>>
  BY CatalogueConstants DEF Entries
<1>2. Entries(j) \in Seq(Group \cup Queued)
  <2>1. CASE j \in Imports
    <3>1. Entries(j) \in Seq(Group)
      BY <1>1, <2>1
    <3> QED
      BY <3>1
  <2>2. CASE j \notin Imports
    BY <1>1, <2>2
  <2> QED
    BY <2>1, <2>2
<1> QED
  BY <1>1, <1>2, FreshRecord

LEMMA LoseStep == ASSUME CatalogueInv, NEW j \in Jobs, Lose(j) PROVE CatalogueInv'
<1> DEFINE r == job[j]
<1>1. /\ r.pc # "idle" /\ Fail /\ UNCHANGED <<db, spoiled, removed>>
      /\ job' = [job EXCEPT ![j] = IF j \in Creates THEN Lost(r, "failed")
                                   ELSE Fresh(Entries(j), r.mode)]
  BY DEF Lose
<1>2. faults' \in 0..MaxFaults /\ spoiled' \subseteq Shows
  BY <1>1, FaultsCount DEF CatalogueInv, Rows
<1>3. CASE j \in Creates
  BY <1>1, <1>2, <1>3, LostStep
<1>4. CASE j \notin Creates
  <2> DEFINE r2 == Fresh(Entries(j), r.mode)
  <2>1. job' = [job EXCEPT ![j] = r2]
    BY <1>1, <1>4
  <2>2. r \in JobRecord /\ r.mode \in {"full", "shows_only", "episodes_only"}
    BY JobFacts DEF JobRecord
  <2>3. /\ Entries(j) \in Seq(Group \cup Queued)
        /\ j \in Imports => Entries(j) \in Seq(Group)
        /\ j \notin Imports => Entries(j) = <<>>
    BY <2>2, FirstRecord
  <2>4. /\ r2 \in JobRecord /\ r2.pc = "idle" /\ r2.tx = NoTx /\ r2.todo = Entries(j)
        /\ r2.cur = None /\ r2.gone = FALSE /\ r2.told = NoReport
    BY <2>2, <2>3, FreshRecord
  <2> HIDE DEF r2
  <2>5. job'[j] = r2
    BY <2>1 DEF CatalogueInv
  <2>6. Phases(j)' /\ Current(j)'
    BY <1>4, <2>4, <2>5 DEF Phases, Current, Busy, Working, Syncing
  <2>7. Queues(j)'
    BY <1>4, <2>3, <2>4, <2>5, CatalogueConstants DEF Queues, Busy, Working, Syncing
  <2>8. Written(j)' /\ Passed(j)' /\ Told(j)'
    BY <1>4, <2>4, <2>5 DEF Written, Passed, Told, NoTx, NoReport, Working, Syncing
  <2> QED
    BY <1>1, <1>2, <2>1, <2>4, <2>6, <2>7, <2>8, QuietStep DEF JobInv
<1> QED
  BY <1>3, <1>4

-----------------------------------------------------------------------------
(* The theorems. *)

LEMMA CatalogueInitial == Init => CatalogueInv
<1> SUFFICES ASSUME Init PROVE CatalogueInv
  OBVIOUS
<1>1. PICK modes \in [Imports -> Modes] :
        job = [j \in Jobs |-> Fresh(Entries(j), IF j \in Imports THEN modes[j] ELSE "full")]
  BY DEF Init
<1>2. /\ stored = {} /\ cached = {} /\ eps = {} /\ tracked = {}
      /\ faults = 0 /\ spoiled = {} /\ removed = {}
  BY DEF Init
<1>3. Rows /\ Whole
  BY <1>2, CatalogueConstants DEF Rows, Whole, Numbered
<1>4. ASSUME NEW j \in Jobs PROVE job[j] \in JobRecord /\ JobInv(j)
  <2> DEFINE mode == IF j \in Imports THEN modes[j] ELSE "full"
  <2>1. mode \in {"full", "shows_only", "episodes_only"}
    BY CatalogueConstants
  <2>2. job[j] = Fresh(Entries(j), mode)
    BY <1>1
  <2> HIDE DEF mode
  <2>3. /\ Entries(j) \in Seq(Group \cup Queued)
        /\ j \in Imports => Entries(j) \in Seq(Group)
        /\ j \notin Imports => Entries(j) = <<>>
    BY <2>1, FirstRecord
  <2>4. /\ job[j] \in JobRecord /\ job[j].pc = "idle" /\ job[j].tx = NoTx
        /\ job[j].todo = Entries(j) /\ job[j].cur = None /\ job[j].gone = FALSE
        /\ job[j].told = NoReport
    <3> DEFINE r == Fresh(Entries(j), mode)
    <3>1. /\ r \in JobRecord /\ r.pc = "idle" /\ r.tx = NoTx
          /\ r.todo = Entries(j) /\ r.cur = None /\ r.gone = FALSE /\ r.told = NoReport
      BY <2>1, <2>3, FreshRecord
    <3> HIDE DEF r
    <3> QED
      BY <2>2, <3>1 DEF r
  <2>5. Phases(j) /\ Current(j)
    BY <2>4 DEF Phases, Current, Busy, Working, Syncing
  <2>6. Queues(j)
    BY <2>3, <2>4, CatalogueConstants DEF Queues, Busy, Working, Syncing
  <2>7. Written(j) /\ Passed(j) /\ Told(j)
    BY <2>4 DEF Written, Passed, Told, NoTx, NoReport, Working, Syncing
  <2> QED
    BY <2>4, <2>5, <2>6, <2>7 DEF JobInv
<1> QED
  BY <1>1, <1>3, <1>4 DEF CatalogueInv

LEMMA CatalogueUnchanged == CatalogueInv /\ UNCHANGED vars => CatalogueInv'
<1> SUFFICES ASSUME CatalogueInv, UNCHANGED vars PROVE CatalogueInv'
  OBVIOUS
<1>1. /\ stored' = stored /\ cached' = cached /\ eps' = eps /\ tracked' = tracked
      /\ job' = job /\ faults' = faults /\ spoiled' = spoiled /\ removed' = removed
  BY DEF vars, db
<1> QED
  BY <1>1 DEF CatalogueInv, Rows, Whole, Numbered, JobInv, Phases, Queues, Current, Written,
              Passed, Told, Seen

LEMMA CatalogueStep == CatalogueInv /\ [Next]_vars => CatalogueInv'
<1> SUFFICES ASSUME CatalogueInv, [Next]_vars PROVE CatalogueInv'
  OBVIOUS
<1>1. ASSUME NEW j \in Jobs, Step(j) PROVE CatalogueInv'
  BY <1>1, InsertStep, RefindStep, AdoptWinnerStep, FetchStep, WriteStep, FinishStep,
     CommitStep, AliasCreatedStep, AliasImportedStep, FindShowStep, SearchShowStep, SplitStep,
     EndGroupStep, TrackStep, EndImportStep, SyncNextStep DEF Step
<1>2. ASSUME NEW j \in Jobs,
             Ask(j) \/ SyncAll(j) \/ SyncOne(j) \/ SyncMissing(j) \/ Lose(j)
      PROVE  CatalogueInv'
  BY <1>2, AskStep, SyncBeginStep, LoseStep
<1>3. ASSUME NEW s \in Shows, Delete(s) PROVE CatalogueInv'
  BY <1>3, DeleteStep
<1>4. CASE UNCHANGED vars
  BY <1>4, CatalogueUnchanged
<1> QED
  BY <1>1, <1>2, <1>3, <1>4 DEF Next

\* The inductive invariant holds in every state.
THEOREM CatalogueInvariant == Spec => []CatalogueInv
  BY CatalogueInitial, CatalogueStep, PTL DEF Spec

\* The rows hang together whatever fails or is deleted meanwhile: an episode has its
\* show, a cached or a tracked row is there, and the jobs are well formed.
THEOREM CatalogueTyped == Spec => []TypeOK
<1>1. CatalogueInv => TypeOK
  <2> SUFFICES ASSUME CatalogueInv PROVE TypeOK
    OBVIOUS
  <2>1. ASSUME NEW j \in Jobs
        PROVE  /\ job[j].pc \in Pcs
               /\ job[j].cur \in Shows \cup {None} /\ job[j].todo \in Seq(Group \cup Queued)
               /\ job[j].tx.eps \subseteq Numbers /\ job[j].tx.marks \subseteq Eps
               /\ job[j].files \subseteq Eps /\ job[j].claimed \subseteq Eps
    <3>1. job[j] \in JobRecord
      BY DEF CatalogueInv
    <3> QED
      BY <3>1 DEF JobRecord, Tx
  <2>2. removed \subseteq Shows
    BY DEF CatalogueInv, Rows
  <2> QED
    BY <2>1, <2>2 DEF CatalogueInv, Rows, TypeOK, Pcs
<1> QED
  BY <1>1, CatalogueInvariant, PTL

\* A file is reported as unmatched, though TMDB has its episode, only when a fetch has
\* failed or the show was deleted: a show that another job is just adding is synced
\* before its files are matched (_sync_episodes_if_needed).
THEOREM UnmatchedHasReason == Spec => []UnmatchedIsReal
<1>1. CatalogueInv => UnmatchedIsReal
  BY DEF CatalogueInv, JobInv, Told, UnmatchedIsReal, Jobs
<1> QED
  BY <1>1, CatalogueInvariant, PTL

\* What a job has reported as created or tracked was committed before, so that no
\* failure, rollback or lost worker takes it back; only a deleted show is gone.
THEOREM ReportLasts == Spec => []ReportIsDurable
<1>1. CatalogueInv => ReportIsDurable
  BY DEF CatalogueInv, JobInv, Told, ReportIsDurable
<1> QED
  BY <1>1, CatalogueInvariant, PTL
-----------------------------------------------------------------------------
(* The requests of the catalogue: types of SingleFlight. *)

USE DEF flightVars, cacheVars, endVars

\* The initial states have the types.
LEMMA FlightTypeInitial == FlightInit => FlightTypeOK
  BY FlightConstants DEF FlightInit, FlightTypeOK, CacheEntries

\* Every step of a call, of another process and of the cache keeps them.
LEMMA FlightTypeStep == FlightTypeOK /\ [FlightNext]_callVars => FlightTypeOK'
<1> SUFFICES ASSUME FlightTypeOK, [FlightNext]_callVars PROVE FlightTypeOK'
  OBVIOUS
<1> USE FlightConstants DEF FlightTypeOK, CacheEntries, OwnerPoints, WaiterPoints, Outcomes
<1>1. ASSUME NEW c \in Callers, CheckHit(c) PROVE FlightTypeOK'
  BY <1>1 DEF CheckHit, GoTo
<1>2. ASSUME NEW c \in Callers, CheckMiss(c) PROVE FlightTypeOK'
  BY <1>2 DEF CheckMiss, GoTo
<1>3. ASSUME NEW c \in Callers, Store(c) PROVE FlightTypeOK'
  BY <1>3 DEF Store, GoTo
<1>4. ASSUME NEW c \in Callers, LeaveUncached(c) PROVE FlightTypeOK'
  BY <1>4 DEF LeaveUncached, GoTo
<1>5. ASSUME NEW c \in Callers, Succeed(c) PROVE FlightTypeOK'
  BY <1>5 DEF Succeed, GoTo, End
<1>6. ASSUME NEW c \in Callers, ProduceFails(c) PROVE FlightTypeOK'
  BY <1>6 DEF ProduceFails, GoTo, End
<1>7. ASSUME NEW c \in Callers, Clean(c) PROVE FlightTypeOK'
  BY <1>7 DEF Clean, GoTo
<1>8. ASSUME NEW c \in Callers, Raise(c) PROVE FlightTypeOK'
  BY <1>8 DEF Raise, GoTo, End
<1>9. ASSUME NEW c \in Callers, Call(c) PROVE FlightTypeOK'
  BY <1>9 DEF Call, GoTo, Enter, Own
<1>10. ASSUME NEW c \in Callers, Read(c) PROVE FlightTypeOK'
  BY <1>10 DEF Read, GoTo, Found
<1>11. ASSUME NEW c \in Callers, Join(c) PROVE FlightTypeOK'
  BY <1>11 DEF Join, GoTo, Enter, Own
<1>12. ASSUME NEW c \in Callers, Look(c) PROVE FlightTypeOK'
  BY <1>12 DEF Look, GoTo, Found
<1>13. ASSUME NEW c \in Callers, Elect(c) PROVE FlightTypeOK'
  BY <1>13 DEF Elect, GoTo, Own, Exceeded
<1>14. ASSUME NEW c \in Callers, CleanFail(c) PROVE FlightTypeOK'
  BY <1>14 DEF CleanFail, GoTo, End
<1>15. ASSUME NEW c \in Callers, ReadFail(c) PROVE FlightTypeOK'
  BY <1>15 DEF ReadFail, GoTo
<1>16. ASSUME NEW c \in Callers, Cancel(c) PROVE FlightTypeOK'
  BY <1>16 DEF Cancel, GoTo, End
<1>17. ASSUME NEW x \in Foreign, WriteElsewhere(x) PROVE FlightTypeOK'
  BY <1>17 DEF WriteElsewhere
<1>18. CASE Expire
  BY <1>18 DEF Expire
<1>19. CASE UNCHANGED callVars
  BY <1>19 DEF callVars
<1> QED
  BY <1>1, <1>2, <1>3, <1>4, <1>5, <1>6, <1>7, <1>8, <1>9, <1>10, <1>11, <1>12,
     <1>13, <1>14, <1>15, <1>16, <1>17, <1>18, <1>19
     DEF FlightNext, OwnerStep, CallerStep, Trouble

\* The types of the variables hold for any number of calls.
THEOREM FlightTyped == FlightSpec => []FlightTypeOK
<1>1. FlightInit => FlightTypeOK
  BY FlightTypeInitial
<1>2. FlightTypeOK /\ [FlightNext]_callVars => FlightTypeOK'
  BY FlightTypeStep
<1> QED
  BY <1>1, <1>2, PTL DEF FlightSpec
-----------------------------------------------------------------------------
(* One owner. *)

\* The table holds the event of the call that is at produce() or in its handlers.
OwnerHasTheKey ==
  \A c \in Callers : pc[c] \in OwnerPoints <=> inFlight = c

\* A call owns a flight once: its event is its own and not set yet.
OwnerIsNew ==
  \A c \in Callers : pc[c] \in OwnerPoints => event[c] = c /\ c \notin ended

\* An owner whose event is set has returned.
EndedIsOver ==
  \A c \in ended : pc[c] \in Outcomes

\* Who is waiting knows an owner that has ended or is at work.
WaitersKnowAnOwner ==
  \A c \in Callers :
    /\ pc[c] = "waiting" => event[c] \in ended \cup (Callers \cap {inFlight})
    /\ pc[c] = "unserved" => event[c] \in ended

Ownership ==
  /\ OwnerHasTheKey
  /\ OwnerIsNew
  /\ EndedIsOver
  /\ WaitersKnowAnOwner

\* There is no owner before the first call.
LEMMA OwnershipInitial == FlightInit => Ownership
  BY FlightConstants DEF FlightInit, Ownership, OwnerHasTheKey, OwnerIsNew, EndedIsOver,
     WaitersKnowAnOwner, OwnerPoints

\* Every step keeps the key with one owner.
LEMMA OwnershipStep ==
  ASSUME FlightTypeOK, Ownership, [FlightNext]_callVars
  PROVE  Ownership'
<1> USE FlightConstants DEF FlightTypeOK, Ownership, OwnerHasTheKey, OwnerIsNew, EndedIsOver,
        WaitersKnowAnOwner, OwnerPoints, WaiterPoints, Outcomes
<1>1. ASSUME NEW c \in Callers, CheckHit(c) PROVE Ownership'
  BY <1>1 DEF CheckHit, GoTo
<1>2. ASSUME NEW c \in Callers, CheckMiss(c) PROVE Ownership'
  BY <1>2 DEF CheckMiss, GoTo
<1>3. ASSUME NEW c \in Callers, Store(c) PROVE Ownership'
  BY <1>3 DEF Store, GoTo
<1>4. ASSUME NEW c \in Callers, LeaveUncached(c) PROVE Ownership'
  BY <1>4 DEF LeaveUncached, GoTo
<1>5. ASSUME NEW c \in Callers, Succeed(c) PROVE Ownership'
  BY <1>5 DEF Succeed, GoTo, End
<1>6. ASSUME NEW c \in Callers, ProduceFails(c) PROVE Ownership'
  BY <1>6 DEF ProduceFails, GoTo, End
<1>7. ASSUME NEW c \in Callers, Clean(c) PROVE Ownership'
  BY <1>7 DEF Clean, GoTo
<1>8. ASSUME NEW c \in Callers, Raise(c) PROVE Ownership'
  BY <1>8 DEF Raise, GoTo, End
<1>9. ASSUME NEW c \in Callers, Call(c) PROVE Ownership'
  BY <1>9 DEF Call, GoTo, Enter, Own
<1>10. ASSUME NEW c \in Callers, Read(c) PROVE Ownership'
  BY <1>10 DEF Read, GoTo, Found
<1>11. ASSUME NEW c \in Callers, Join(c) PROVE Ownership'
  BY <1>11 DEF Join, GoTo, Enter, Own
<1>12. ASSUME NEW c \in Callers, Look(c) PROVE Ownership'
  BY <1>12 DEF Look, GoTo, Found
<1>13. ASSUME NEW c \in Callers, Elect(c) PROVE Ownership'
  BY <1>13 DEF Elect, GoTo, Own, Exceeded
<1>14. ASSUME NEW c \in Callers, CleanFail(c) PROVE Ownership'
  BY <1>14 DEF CleanFail, GoTo, End
<1>15. ASSUME NEW c \in Callers, ReadFail(c) PROVE Ownership'
  BY <1>15 DEF ReadFail, GoTo
<1>16. ASSUME NEW c \in Callers, Cancel(c) PROVE Ownership'
  BY <1>16 DEF Cancel, GoTo, End
<1>17. ASSUME NEW x \in Foreign, WriteElsewhere(x) PROVE Ownership'
  BY <1>17 DEF WriteElsewhere
<1>18. CASE Expire
  BY <1>18 DEF Expire
<1>19. CASE UNCHANGED callVars
  BY <1>19 DEF callVars
<1> QED
  BY <1>1, <1>2, <1>3, <1>4, <1>5, <1>6, <1>7, <1>8, <1>9, <1>10, <1>11, <1>12,
     <1>13, <1>14, <1>15, <1>16, <1>17, <1>18, <1>19
     DEF FlightNext, OwnerStep, CallerStep, Trouble

\* Types and ownership hold in every reachable state.
LEMMA OwnershipInvariant == FlightSpec => [](FlightTypeOK /\ Ownership)
<1>1. FlightInit => FlightTypeOK /\ Ownership
  BY FlightTypeInitial, OwnershipInitial
<1>2. FlightTypeOK /\ Ownership /\ [FlightNext]_callVars => (FlightTypeOK /\ Ownership)'
  BY FlightTypeStep, OwnershipStep
<1> QED
  BY <1>1, <1>2, PTL DEF FlightSpec

\* At most one call is at produce(), however many wake up or call together.
THEOREM OneProducerAtATime == FlightSpec => []OneProducer
<1>1. FlightTypeOK /\ Ownership => OneProducer
  BY FlightConstants DEF Ownership, OwnerHasTheKey, OneProducer
<1> QED
  BY <1>1, OwnershipInvariant, PTL

\* Every waiter's owner is at work or has set its event: no wakeup is lost.
THEOREM NoWaiterIsForgotten == FlightSpec => []WaitersAreServed
<1>1. FlightTypeOK /\ Ownership => WaitersAreServed
  BY DEF Ownership, WaitersKnowAnOwner, WaitersAreServed
<1> QED
  BY <1>1, OwnershipInvariant, PTL
-----------------------------------------------------------------------------
(* Fresh answers. *)

\* What is older than a flight has been in the cache.
BeforeWasPublished ==
  \A c \in Callers : before[c] \subseteq published

\* A call's own entry is published when it has stored it, and not before.
OwnEntryIsNew ==
  \A c \in Callers :
    /\ c \in published => pc[c] \in {"published", "cleaning", "cleaned"} \cup Outcomes
    /\ pc[c] \in OwnerPoints => c \notin before[c]

\* Once an owner has written the entry or deleted it, nothing older is left.
TidyOwnersLeaveNothingOld ==
  /\ \A c \in Callers : Tidy(c) => cache \cap before[c] = {}
  /\ \A c \in ended \ careless : cache \cap before[c] = {}

\* A waiter's owner, and whoever owns the key now, came after the waiter's flight.
OwnersAreLater ==
  \A c \in Callers : pc[c] \in {"waiting", "unserved"} =>
    /\ event[c] \in ended => before[c] \subseteq before[event[c]]
    /\ inFlight \in Callers => before[c] \subseteq before[inFlight]

\* A call has no answer before it has looked, and one that bypasses never checks.
AnswersAreLast ==
  /\ \A c \in Callers : pc[c] \in {"idle"} \cup WaiterPoints => answer[c] = {}
  /\ \A c \in Bypassing : pc[c] \notin {"reading", "missed", "checking"}

Freshness ==
  /\ BeforeWasPublished
  /\ OwnEntryIsNew
  /\ TidyOwnersLeaveNothingOld
  /\ OwnersAreLater
  /\ AnswersAreLast
  /\ BypassIsFreshUnlessCareless

\* Nothing is older than a flight before the first one.
LEMMA FreshnessInitial == FlightInit => Freshness
  BY FlightConstants DEF FlightInit, Freshness, BeforeWasPublished, OwnEntryIsNew, Tidy,
     TidyOwnersLeaveNothingOld, OwnersAreLater, AnswersAreLast, OwnerPoints,
     BypassIsFreshUnlessCareless

\* Every step keeps old entries away from the waiters of tidy owners.
LEMMA FreshnessStep ==
  ASSUME FlightTypeOK, Ownership, Freshness, [FlightNext]_callVars
  PROVE  Freshness'
<1> USE FlightConstants DEF FlightTypeOK, CacheEntries, Ownership, OwnerHasTheKey, OwnerIsNew,
        EndedIsOver, WaitersKnowAnOwner, Freshness, BeforeWasPublished, OwnEntryIsNew,
        Tidy, TidyOwnersLeaveNothingOld, OwnersAreLater, AnswersAreLast,
        BypassIsFreshUnlessCareless, OwnerPoints, WaiterPoints, Outcomes
<1>1. ASSUME NEW c \in Callers, CheckHit(c) PROVE Freshness'
  BY <1>1 DEF CheckHit, GoTo
<1>2. ASSUME NEW c \in Callers, CheckMiss(c) PROVE Freshness'
  BY <1>2 DEF CheckMiss, GoTo
<1>3. ASSUME NEW c \in Callers, Store(c) PROVE Freshness'
  BY <1>3 DEF Store, GoTo
<1>4. ASSUME NEW c \in Callers, LeaveUncached(c) PROVE Freshness'
  BY <1>4 DEF LeaveUncached, GoTo
<1>5. ASSUME NEW c \in Callers, Succeed(c) PROVE Freshness'
  BY <1>5 DEF Succeed, GoTo, End
<1>6. ASSUME NEW c \in Callers, ProduceFails(c) PROVE Freshness'
  BY <1>6 DEF ProduceFails, GoTo, End
<1>7. ASSUME NEW c \in Callers, Clean(c) PROVE Freshness'
  BY <1>7 DEF Clean, GoTo
<1>8. ASSUME NEW c \in Callers, Raise(c) PROVE Freshness'
  BY <1>8 DEF Raise, GoTo, End
<1>9. ASSUME NEW c \in Callers, Call(c) PROVE Freshness'
  BY <1>9 DEF Call, GoTo, Enter, Own
<1>10. ASSUME NEW c \in Callers, Read(c) PROVE Freshness'
  BY <1>10 DEF Read, GoTo, Found
<1>11. ASSUME NEW c \in Callers, Join(c) PROVE Freshness'
  BY <1>11 DEF Join, GoTo, Enter, Own
<1>12. ASSUME NEW c \in Callers, Look(c) PROVE Freshness'
  BY <1>12 DEF Look, GoTo, Found
<1>13. ASSUME NEW c \in Callers, Elect(c) PROVE Freshness'
  BY <1>13 DEF Elect, GoTo, Own, Exceeded
<1>14. ASSUME NEW c \in Callers, CleanFail(c) PROVE Freshness'
  BY <1>14 DEF CleanFail, GoTo, End
<1>15. ASSUME NEW c \in Callers, ReadFail(c) PROVE Freshness'
  BY <1>15 DEF ReadFail, GoTo
<1>16. ASSUME NEW c \in Callers, Cancel(c) PROVE Freshness'
  BY <1>16 DEF Cancel, GoTo, End
<1>17. ASSUME NEW x \in Foreign, WriteElsewhere(x) PROVE Freshness'
  BY <1>17 DEF WriteElsewhere
<1>18. CASE Expire
  BY <1>18 DEF Expire
<1>19. CASE UNCHANGED callVars
  BY <1>19 DEF callVars
<1> QED
  BY <1>1, <1>2, <1>3, <1>4, <1>5, <1>6, <1>7, <1>8, <1>9, <1>10, <1>11, <1>12,
     <1>13, <1>14, <1>15, <1>16, <1>17, <1>18, <1>19
     DEF FlightNext, OwnerStep, CallerStep, Trouble

\* A call with bypass_cache returns an older entry only after a careless owner.
THEOREM BypassedAnswersAreFresh == FlightSpec => []BypassIsFreshUnlessCareless
<1>1. FlightInit => FlightTypeOK /\ Ownership /\ Freshness
  BY FlightTypeInitial, OwnershipInitial, FreshnessInitial
<1>2. FlightTypeOK /\ Ownership /\ Freshness /\ [FlightNext]_callVars => (FlightTypeOK /\ Ownership /\ Freshness)'
  BY FlightTypeStep, OwnershipStep, FreshnessStep
<1>3. Freshness => BypassIsFreshUnlessCareless
  BY DEF Freshness
<1> QED
  BY <1>1, <1>2, <1>3, PTL DEF FlightSpec
-----------------------------------------------------------------------------
(* Failing fast. *)

\* The rounds of a batch are owners that failed, and the one at work.
RoundsAreBarren ==
  IF inFlight = NoCaller THEN rounds <= barren ELSE rounds <= barren + 1

\* The stored error is that of the owner that is handling it, and then of the
\* last owner, if it failed.
ErrorIsTheLast ==
  /\ \A c \in Callers : pc[c] \in {"cleaning", "cleaned"} => error = {c}
  /\ last = NoCaller => ended = {}
  /\ inFlight = NoCaller /\ last \in Callers /\ pc[last] = "failed" => error = {last}

Rounds ==
  /\ RoundsAreBarren
  /\ ErrorIsTheLast

\* There are no rounds and no errors before the first call.
LEMMA RoundsInitial == FlightInit => Rounds
  BY FlightConstants DEF FlightInit, Rounds, RoundsAreBarren, ErrorIsTheLast

\* Every step keeps the count of rounds and the error with the owners.
LEMMA RoundsStep ==
  ASSUME FlightTypeOK, Ownership, Rounds, [FlightNext]_callVars
  PROVE  Rounds'
<1> USE FlightConstants DEF FlightTypeOK, Ownership, OwnerHasTheKey, OwnerIsNew,
        EndedIsOver, WaitersKnowAnOwner, Rounds, RoundsAreBarren, ErrorIsTheLast,
        OwnerPoints, WaiterPoints, Outcomes
<1>1. ASSUME NEW c \in Callers, CheckHit(c) PROVE Rounds'
  BY <1>1 DEF CheckHit, GoTo
<1>2. ASSUME NEW c \in Callers, CheckMiss(c) PROVE Rounds'
  BY <1>2 DEF CheckMiss, GoTo
<1>3. ASSUME NEW c \in Callers, Store(c) PROVE Rounds'
  BY <1>3 DEF Store, GoTo
<1>4. ASSUME NEW c \in Callers, LeaveUncached(c) PROVE Rounds'
  BY <1>4 DEF LeaveUncached, GoTo
<1>5. ASSUME NEW c \in Callers, Succeed(c) PROVE Rounds'
  BY <1>5 DEF Succeed, GoTo, End
<1>6. ASSUME NEW c \in Callers, ProduceFails(c) PROVE Rounds'
  BY <1>6 DEF ProduceFails, GoTo, End
<1>7. ASSUME NEW c \in Callers, Clean(c) PROVE Rounds'
  BY <1>7 DEF Clean, GoTo
<1>8. ASSUME NEW c \in Callers, Raise(c) PROVE Rounds'
  BY <1>8 DEF Raise, GoTo, End
<1>9. ASSUME NEW c \in Callers, Call(c) PROVE Rounds'
  BY <1>9 DEF Call, GoTo, Enter, Own
<1>10. ASSUME NEW c \in Callers, Read(c) PROVE Rounds'
  BY <1>10 DEF Read, GoTo, Found
<1>11. ASSUME NEW c \in Callers, Join(c) PROVE Rounds'
  BY <1>11 DEF Join, GoTo, Enter, Own
<1>12. ASSUME NEW c \in Callers, Look(c) PROVE Rounds'
  BY <1>12 DEF Look, GoTo, Found
<1>13. ASSUME NEW c \in Callers, Elect(c) PROVE Rounds'
  BY <1>13 DEF Elect, GoTo, Own, Exceeded
<1>14. ASSUME NEW c \in Callers, CleanFail(c) PROVE Rounds'
  BY <1>14 DEF CleanFail, GoTo, End
<1>15. ASSUME NEW c \in Callers, ReadFail(c) PROVE Rounds'
  BY <1>15 DEF ReadFail, GoTo
<1>16. ASSUME NEW c \in Callers, Cancel(c) PROVE Rounds'
  BY <1>16 DEF Cancel, GoTo, End
<1>17. ASSUME NEW x \in Foreign, WriteElsewhere(x) PROVE Rounds'
  BY <1>17 DEF WriteElsewhere
<1>18. CASE Expire
  BY <1>18 DEF Expire
<1>19. CASE UNCHANGED callVars
  BY <1>19 DEF callVars
<1> QED
  BY <1>1, <1>2, <1>3, <1>4, <1>5, <1>6, <1>7, <1>8, <1>9, <1>10, <1>11, <1>12,
     <1>13, <1>14, <1>15, <1>16, <1>17, <1>18, <1>19
     DEF FlightNext, OwnerStep, CallerStep, Trouble

\* A waiter gives up after MaxRounds owners in a row ended without a result, and
\* raises the error of the last one if that one failed.
THEOREM FailFastComesLast == FlightSpec => FailFastIsEarned
<1> DEFINE Earned ==
      \A c \in Callers : pc[c] = "unserved" /\ pc'[c] = "capped" =>
        /\ barren >= MaxRounds
        /\ pc[last] = "failed" => error = {last}
<1>1. FlightInit => FlightTypeOK /\ Ownership /\ Rounds
  BY FlightTypeInitial, OwnershipInitial, RoundsInitial
<1>2. FlightTypeOK /\ Ownership /\ Rounds /\ [FlightNext]_callVars => (FlightTypeOK /\ Ownership /\ Rounds)'
  BY FlightTypeStep, OwnershipStep, RoundsStep
<1>3. FlightTypeOK /\ Ownership /\ Rounds /\ [FlightNext]_callVars => Earned
  <2> SUFFICES ASSUME FlightTypeOK, Ownership, Rounds, [FlightNext]_callVars,
                      NEW d \in Callers, pc[d] = "unserved", pc'[d] = "capped"
               PROVE  barren >= MaxRounds /\ (pc[last] = "failed" => error = {last})
    OBVIOUS
  <2>1. inFlight = NoCaller /\ Exceeded(rounds + 1)
    <3>1. ASSUME NEW c \in Callers, CheckHit(c) PROVE inFlight = NoCaller /\ Exceeded(rounds + 1)
      BY <3>1 DEF CheckHit, GoTo, FlightTypeOK
    <3>2. ASSUME NEW c \in Callers, CheckMiss(c) PROVE inFlight = NoCaller /\ Exceeded(rounds + 1)
      BY <3>2 DEF CheckMiss, GoTo, FlightTypeOK
    <3>3. ASSUME NEW c \in Callers, Store(c) PROVE inFlight = NoCaller /\ Exceeded(rounds + 1)
      BY <3>3 DEF Store, GoTo, FlightTypeOK
    <3>4. ASSUME NEW c \in Callers, LeaveUncached(c) PROVE inFlight = NoCaller /\ Exceeded(rounds + 1)
      BY <3>4 DEF LeaveUncached, GoTo, FlightTypeOK
    <3>5. ASSUME NEW c \in Callers, Succeed(c) PROVE inFlight = NoCaller /\ Exceeded(rounds + 1)
      BY <3>5 DEF Succeed, GoTo, End, FlightTypeOK
    <3>6. ASSUME NEW c \in Callers, ProduceFails(c) PROVE inFlight = NoCaller /\ Exceeded(rounds + 1)
      BY <3>6 DEF ProduceFails, GoTo, End, FlightTypeOK
    <3>7. ASSUME NEW c \in Callers, Clean(c) PROVE inFlight = NoCaller /\ Exceeded(rounds + 1)
      BY <3>7 DEF Clean, GoTo, FlightTypeOK
    <3>8. ASSUME NEW c \in Callers, Raise(c) PROVE inFlight = NoCaller /\ Exceeded(rounds + 1)
      BY <3>8 DEF Raise, GoTo, End, FlightTypeOK
    <3>9. ASSUME NEW c \in Callers, Call(c) PROVE inFlight = NoCaller /\ Exceeded(rounds + 1)
      BY <3>9 DEF Call, GoTo, Enter, Own, FlightTypeOK
    <3>10. ASSUME NEW c \in Callers, Read(c) PROVE inFlight = NoCaller /\ Exceeded(rounds + 1)
      BY <3>10 DEF Read, GoTo, Found, FlightTypeOK
    <3>11. ASSUME NEW c \in Callers, Join(c) PROVE inFlight = NoCaller /\ Exceeded(rounds + 1)
      BY <3>11 DEF Join, GoTo, Enter, Own, FlightTypeOK
    <3>12. ASSUME NEW c \in Callers, Look(c) PROVE inFlight = NoCaller /\ Exceeded(rounds + 1)
      BY <3>12 DEF Look, GoTo, Found, FlightTypeOK
    <3>13. ASSUME NEW c \in Callers, Elect(c) PROVE inFlight = NoCaller /\ Exceeded(rounds + 1)
      BY <3>13 DEF Elect, GoTo, Own, FlightTypeOK
    <3>14. ASSUME NEW c \in Callers, CleanFail(c) PROVE inFlight = NoCaller /\ Exceeded(rounds + 1)
      BY <3>14 DEF CleanFail, GoTo, End, FlightTypeOK
    <3>15. ASSUME NEW c \in Callers, ReadFail(c) PROVE inFlight = NoCaller /\ Exceeded(rounds + 1)
      BY <3>15 DEF ReadFail, GoTo, FlightTypeOK
    <3>16. ASSUME NEW c \in Callers, Cancel(c) PROVE inFlight = NoCaller /\ Exceeded(rounds + 1)
      BY <3>16 DEF Cancel, GoTo, End, FlightTypeOK
    <3>17. CASE UNCHANGED pc
      BY <3>17
    <3> QED
      BY <3>1, <3>2, <3>3, <3>4, <3>5, <3>6, <3>7, <3>8, <3>9, <3>10,
         <3>11, <3>12, <3>13, <3>14, <3>15, <3>16, <3>17
         DEF FlightNext, OwnerStep, CallerStep, Trouble, WriteElsewhere, Expire, callVars
  <2>2. barren >= MaxRounds
    BY <2>1, FlightConstants DEF FlightTypeOK, Rounds, RoundsAreBarren, Exceeded
  <2>3. last \in Callers
    BY DEF FlightTypeOK, Ownership, WaitersKnowAnOwner, Rounds, ErrorIsTheLast
  <2> QED
    BY <2>1, <2>2, <2>3 DEF Rounds, ErrorIsTheLast
<1>4. FlightTypeOK /\ Ownership /\ Rounds /\ [FlightNext]_callVars => [Earned]_callVars
  BY <1>3
<1> QED
  BY <1>1, <1>2, <1>4, PTL DEF FlightSpec, FailFastIsEarned
=============================================================================
