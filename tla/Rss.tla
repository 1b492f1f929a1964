-------------------------------- MODULE Rss --------------------------------
(***************************************************************************)
(* The RSS subscriptions, their import from the configuration file of      *)
(* YaRSS2, a plugin of a remote Deluge, and their publication into it.     *)
(*                                                                         *)
(* An import reconciles the rows with the downloaded file in one           *)
(* transaction.  A publish imports first, stops Deluge, keeps a backup,    *)
(* composes a new file from the rows, uploads it and starts Deluge again.  *)
(* Meanwhile the user edits rows, and subscriptions in YaRSS2 itself.      *)
(***************************************************************************)
EXTENDS Naturals, FiniteSets, FiniteSetsExt

CONSTANTS
  Names,               \* subscriptions, each of a show of its own
  Feeds,               \* feeds, which are their own keys in the file
  None, Torn, Down,    \* no value; a half-written file; a stopped Deluge
  Imports, Publishes,  \* the runs, each of which runs once
  StopCommand,         \* are the commands that stop and start Deluge configured?
  MaxEdits, MaxFaults  \* bounds: edits of the user, failures of the runs

Runs == Imports \cup Publishes
Ids == 1..(2 * MaxEdits)   \* row ids, enough for the bounded edits
Keys == 0..(MaxEdits + 1)  \* keys of the file, likewise

Subscription == [name : Names, feed : Feeds \cup {None}]
Config == [subs : [Keys -> Subscription \cup {None}], feeds : SUBSET Feeds]
Row == [name : Names, key : Keys \cup {None}, feed : Feeds \cup {None}, on : BOOLEAN]

ASSUME RssConstants ==
  /\ StopCommand \in BOOLEAN /\ MaxEdits \in Nat /\ MaxFaults \in Nat
  /\ Imports \cap Publishes = {}
  /\ None \notin Feeds \cup Keys \cup Row \cup Subscription
  /\ Torn # Down /\ Torn \notin Config /\ Down \notin Config

VARIABLES
  rows,     \* committed RssSubscription rows, or None
  feeds,    \* committed RssFeed rows: "none", "active" or "inactive"
  file,     \* the remote file
  deluge,   \* the configuration that Deluge holds in memory, or Down
  saved,    \* the names in some backup file
  run,      \* the memory and the open transaction of each run
  edits, faults,
  \* history: names that were ever in the file, that the user gave up, and that
  \* YaRSS2 added behind the download of a publish; <<key, name>> pairs that a
  \* publish made up and uploaded; names that got a second key; feeds that the
  \* user chose; a Deluge that no run will start any more
  seen, gone, late, given, rekeyed, chosen, abandoned

history == <<seen, gone, late, given, rekeyed, chosen, abandoned>>
vars == <<rows, feeds, file, deluge, saved, run, edits, faults, history>>

NoTx == [rows |-> [i \in Ids |-> None], feeds |-> {}]
Empty == [subs |-> [k \in Keys |-> None], feeds |-> {}]

\* raw: the downloaded file;  tx: what is written and not committed;  out: the
\* composed file;  keyed: the <<row, key>> pairs to be assigned;  raised: an
\* exception is on its way.
At(pc, tx, raised) ==
  [pc |-> pc, raw |-> Empty, tx |-> tx, out |-> Empty, keyed |-> {},
   raised |-> raised]
Over == At("done", NoTx, FALSE)

Init ==
  /\ rows = [i \in Ids |-> None]
  /\ feeds = [f \in Feeds |-> "active"]
  /\ file = Empty /\ deluge = Empty
  /\ saved = {}
  /\ run = [r \in Runs |-> At("idle", NoTx, FALSE)]
  /\ edits = 0 /\ faults = 0
  /\ seen = {} /\ gone = {} /\ late = {} /\ given = {} /\ rekeyed = {}
  /\ chosen = [i \in Ids |-> None]
  /\ abandoned = FALSE
-----------------------------------------------------------------------------
NamesIn(config) ==
  IF config \in {Torn, Down} THEN {}
  ELSE {config.subs[k].name : k \in {k \in Keys : config.subs[k] # None}}

\* A start of Deluge: a file that does not parse loads as no subscriptions.
Loaded(config) == IF config = Torn THEN Empty ELSE config

\* What a transaction sees: its own writes over the committed rows.
View(r) == [i \in Ids |-> IF run[r].tx.rows[i] # None THEN run[r].tx.rows[i] ELSE rows[i]]
ViewFeeds(r) == [f \in Feeds |-> IF f \in run[r].tx.feeds THEN "active" ELSE feeds[f]]

Rowed(view) == {i \in Ids : view[i] # None}
Stubs(view) == {i \in Rowed(view) : view[i].key = None}
KeysOf(view) == {view[i].key : i \in Rowed(view) \ Stubs(view)}

\* The row locks and the uncommitted inserts of the runs.
Held(i) == \E r \in Runs : run[r].tx.rows[i] # None
FreeIds == {i \in Ids : rows[i] = None /\ ~Held(i)}
-----------------------------------------------------------------------------
(***************************************************************************)
(* YaRSS2, which saves its memory over the file with every edit.           *)
(***************************************************************************)
Behind == \E p \in Publishes :
            run[p].pc \in {"import", "stop", "backup", "feeds", "subs", "assign", "upload"}

Save(config) ==
  /\ edits < MaxEdits
  /\ edits' = edits + 1
  /\ deluge' = config /\ file' = config
  /\ UNCHANGED <<rows, feeds, saved, run, faults, given, chosen, abandoned>>

\* The names that a publish has made up a key for, and uploaded or not.
Published == {pair[2] : pair \in given}
             \cup UNION {{run[p].out.subs[pair[2]].name : pair \in run[p].keyed} : p \in Publishes}

RemoteAdd(k, n, f) ==
  /\ deluge # Down /\ k <= Cardinality(NamesIn(deluge))
  /\ deluge.subs[k] = None /\ n \notin NamesIn(deluge)
  /\ Save([deluge EXCEPT !.subs[k] = [name |-> n, feed |-> f], !.feeds = @ \cup {f}])
  /\ seen' = seen \cup {n} /\ gone' = gone \ {n}
  /\ late' = IF Behind THEN late \cup {n} ELSE late
  /\ rekeyed' = IF n \in Published THEN rekeyed \cup {n} ELSE rekeyed

RemoteRemove(k) ==
  /\ deluge # Down
  /\ deluge.subs[k] # None
  /\ Save([deluge EXCEPT !.subs[k] = None])
  /\ gone' = gone \cup {deluge.subs[k].name}
  /\ UNCHANGED <<seen, late, rekeyed>>
-----------------------------------------------------------------------------
(***************************************************************************)
(* The user of the application.  A write waits for the run that holds the  *)
(* row.                                                                    *)
(***************************************************************************)
Edit ==
  /\ edits < MaxEdits
  /\ edits' = edits + 1
  /\ UNCHANGED <<run, file, deluge, saved, faults, seen, late, given, rekeyed, abandoned>>

\* The unique index allows one row without a key per show.
Insert(n, f, on) ==
  /\ \A i \in Stubs(rows) : rows[i].name # n
  /\ FreeIds # {}
  /\ rows' = [rows EXCEPT ![Min(FreeIds)] = [name |-> n, key |-> None, feed |-> f, on |-> on]]
RowsOf(n) == {i \in Rowed(rows) : rows[i].name = n}

CreateSubscription(n, f, on) ==
  /\ feeds[f] # "none"
  /\ Edit /\ Insert(n, f, on)
  /\ UNCHANGED <<feeds, gone, chosen>>

EnsureStub(n) ==
  /\ RowsOf(n) = {}
  /\ Edit /\ Insert(n, None, FALSE)
  /\ UNCHANGED <<feeds, gone, chosen>>

\* add_show_from_feed: a row without a feed is adopted before another is made.
Onboard(n, f, on) ==
  /\ feeds[f] # "none"
  /\ \A i \in RowsOf(n) : rows[i].feed # f
  /\ Edit
  /\ IF \E i \in RowsOf(n) : rows[i].feed = None
       THEN \E i \in RowsOf(n) :
              /\ rows[i].feed = None /\ ~Held(i)
              /\ rows' = [rows EXCEPT ![i].feed = f, ![i].on = @ \/ on]
       ELSE Insert(n, f, on)
  /\ UNCHANGED <<feeds, gone, chosen>>

SetEnabled(i, on) ==
  /\ rows[i] # None /\ ~Held(i) /\ rows[i].on # on
  /\ Edit
  /\ rows' = [rows EXCEPT ![i].on = on]
  /\ UNCHANGED <<feeds, gone, chosen>>

Relink(i, f) ==
  /\ rows[i] # None /\ ~Held(i) /\ rows[i].feed # f
  /\ feeds[f] # "none"
  /\ Edit
  /\ rows' = [rows EXCEPT ![i].feed = f]
  /\ chosen' = [chosen EXCEPT ![i] = f]
  /\ UNCHANGED <<feeds, gone>>

DeleteSubscription(i) ==
  /\ rows[i] # None /\ ~Held(i) /\ ~rows[i].on
  /\ Edit
  /\ rows' = [rows EXCEPT ![i] = None]
  /\ gone' = gone \cup {rows[i].name}
  /\ chosen' = [chosen EXCEPT ![i] = None]
  /\ UNCHANGED feeds

SetActive(f, active) ==
  /\ feeds[f] \notin {"none", active}
  /\ Edit
  /\ feeds' = [feeds EXCEPT ![f] = active]
  /\ UNCHANGED <<rows, gone, chosen>>

DeleteFeed(f) ==
  /\ feeds[f] # "none"
  /\ \A r \in Runs : \A i \in Rowed(View(r)) : View(r)[i].feed # f
  /\ Edit
  /\ feeds' = [feeds EXCEPT ![f] = "none"]
  /\ UNCHANGED <<rows, gone, chosen>>
-----------------------------------------------------------------------------
(***************************************************************************)
(* The import, which is also the first part of a publish.                  *)
(***************************************************************************)
\* A parse error is recorded and ends the run; so do the failures of Raise below.
Download(r) ==
  /\ run[r].pc = "idle"
  /\ run' = [run EXCEPT ![r].pc = IF file = Torn THEN "done" ELSE "import", ![r].raw = Loaded(file)]
  /\ UNCHANGED <<rows, feeds, file, deluge, saved, edits, faults, history>>

\* compute_subscription_deltas
ToCreate(r) == {k \in Keys : run[r].raw.subs[k] # None} \ KeysOf(rows)
ToUpdate(r) == {i \in Rowed(rows) \ Stubs(rows) : run[r].raw.subs[rows[i].key] # None}

\* _resolve_feed_id: every feed of the file has a row by now.
Resolve(r, k) == LET f == run[r].raw.subs[k].feed IN IF f \in run[r].raw.feeds THEN f ELSE None

\* find_stub: the keyless row of the name, which the first such key takes.
StubFor(r, k) ==
  {i \in Stubs(rows) : /\ rows[i].name = run[r].raw.subs[k].name
                       /\ \A j \in ToCreate(r) : j < k =>
                            run[r].raw.subs[j].name # run[r].raw.subs[k].name}

\* The ids that the new keys are recorded under: those of their stubs, or new ones.
Targets(r) ==
  {t \in [ToCreate(r) -> Ids] :
    /\ \A k \in ToCreate(r) : t[k] \in IF StubFor(r, k) # {} THEN StubFor(r, k) ELSE FreeIds
    /\ \A j, k \in ToCreate(r) : t[j] = t[k] => j = k}

Target(r) == CHOOSE t \in Targets(r) : TRUE

\* _promote_stub and _create_subscription; _apply_update, which takes the feed
\* of the file when it resolves.
Reconciled(r) ==
  LET target == Target(r) IN
  [i \in Ids |->
  LET taken == {k \in DOMAIN target : target[k] = i} IN
  CASE taken # {} ->
         LET k == CHOOSE k \in taken : TRUE
             feed == IF Resolve(r, k) = None /\ rows[i] # None THEN rows[i].feed ELSE Resolve(r, k)
         IN [name |-> run[r].raw.subs[k].name, key |-> k, feed |-> feed, on |-> TRUE]
    [] i \in ToUpdate(r) /\ Resolve(r, rows[i].key) \notin {None, rows[i].feed} ->
         [rows[i] EXCEPT !.feed = Resolve(r, rows[i].key)]
    [] OTHER -> None]

\* Mutant: no unique index on the keys.
ClashesUnindexed(r) == FALSE

\* Another run has inserted a key that this one is to insert.
Clashes(r) == \E q \in Runs \ {r} :
  \/ {run[q].tx.rows[i].key : i \in Rowed(run[q].tx.rows)} \cap ToCreate(r) # {}
  \/ run[q].tx.feeds \cap run[r].raw.feeds # {}

Reconcile(r) ==
  /\ run[r].pc = "import" /\ ~Clashes(r)
  /\ \A i \in ToUpdate(r) \cup Stubs(rows) : ~Held(i)
  /\ Targets(r) # {}
  /\ run' = [run EXCEPT ![r].pc = IF r \in Imports THEN "finish" ELSE "stop",
                        ![r].tx = [rows |-> Reconciled(r),
                                   feeds |-> {f \in run[r].raw.feeds : feeds[f] = "none"}]]
  /\ UNCHANGED <<rows, feeds, file, deluge, saved, edits, faults, history>>

\* The insert waits for that run and fails on the unique key when it commits.
Clash(r) ==
  /\ run[r].pc = "import" /\ Clashes(r)
  /\ run' = [run EXCEPT ![r] = Over]
  /\ UNCHANGED <<rows, feeds, file, deluge, saved, edits, faults, history>>
-----------------------------------------------------------------------------
(***************************************************************************)
(* The publish, from the stop of Deluge to its start.                      *)
(***************************************************************************)
\* A Deluge that stops saves its memory.
Stopped == IF StopCommand /\ deluge # Down THEN /\ deluge' = Down /\ file' = deluge
           ELSE UNCHANGED <<deluge, file>>

Stop(p) ==
  /\ run[p].pc = "stop"
  /\ Stopped
  /\ run' = [run EXCEPT ![p].pc = "backup"]
  /\ UNCHANGED <<rows, feeds, saved, edits, faults, history>>

\* The command fails, and may have reached Deluge: nothing is uploaded, the error
\* is recorded and the start follows.
StopFails(p) ==
  /\ StopCommand /\ run[p].pc = "stop" /\ faults < MaxFaults
  /\ faults' = faults + 1
  /\ Stopped \/ UNCHANGED <<deluge, file>>
  /\ run' = [run EXCEPT ![p] = At("restart", run[p].tx, FALSE)]
  /\ UNCHANGED <<rows, feeds, saved, edits, history>>

\* Mutant: keeps what is to be uploaded.
BackupComposed(p) ==
  /\ run[p].pc = "backup"
  /\ saved' = saved \cup {View(p)[i].name : i \in Rowed(View(p))}
  /\ run' = [run EXCEPT ![p].pc = "feeds"]
  /\ UNCHANGED <<rows, feeds, file, deluge, edits, faults, history>>

Backup(p) ==
  /\ run[p].pc = "backup"
  /\ saved' = saved \cup NamesIn(run[p].raw)
  /\ run' = [run EXCEPT ![p].pc = "feeds"]
  /\ UNCHANGED <<rows, feeds, file, deluge, edits, faults, history>>

\* _build_feeds_dict: the active feeds, and those that an enabled row refers to.
BuildFeeds(p) ==
  /\ run[p].pc = "feeds"
  /\ LET view == View(p)
         referenced == {view[i].feed : i \in {i \in Rowed(view) : view[i].on}}
     IN run' = [run EXCEPT ![p].pc = "subs",
          ![p].out.feeds = {f \in Feeds : \/ ViewFeeds(p)[f] = "active"
                                          \/ ViewFeeds(p)[f] = "inactive" /\ f \in referenced}]
  /\ UNCHANGED <<rows, feeds, file, deluge, saved, edits, faults, history>>

\* The keys above the highest one of the file and of the rows, in row order.
HighestKey(p) ==
  Max({0} \cup {k + 1 : k \in KeysOf(View(p)) \cup {k \in Keys : run[p].raw.subs[k] # None}})
NewKey(p, i, stubs) == HighestKey(p) + Cardinality({j \in stubs : j < i})

\* _build_subscriptions_dict
BuildSubscriptions(p) ==
  /\ run[p].pc = "subs"
  /\ LET view == View(p)
         enabled == {i \in Rowed(view) : view[i].on}
         stubs == enabled \cap Stubs(view)
         key == [i \in enabled |-> IF i \in stubs THEN NewKey(p, i, stubs) ELSE view[i].key]
     IN /\ \A i \in stubs : key[i] \in Keys
        /\ run' = [run EXCEPT
          ![p].pc = IF stubs = {} THEN "upload" ELSE "assign",
          ![p].keyed = {<<i, key[i]>> : i \in stubs},
          ![p].out.subs = [k \in Keys |-> IF \E i \in enabled : key[i] = k
                             THEN LET i == CHOOSE i \in enabled : key[i] = k
                                  IN [name |-> view[i].name, feed |-> view[i].feed]
                             ELSE None]]
  /\ UNCHANGED <<rows, feeds, file, deluge, saved, edits, faults, history>>

\* The commit of a run's transaction, with the keys it assigned.
Commit(r, keyed) ==
  /\ rows' = [i \in Ids |-> IF \E k \in Keys : <<i, k>> \in keyed
                            THEN [View(r)[i] EXCEPT !.key = CHOOSE k \in Keys : <<i, k>> \in keyed]
                            ELSE View(r)[i]]
  /\ feeds' = ViewFeeds(r)
  /\ chosen' = [i \in Ids |-> IF rows[i] = None THEN None ELSE chosen[i]]

Assigned(p) == {pair[2] : pair \in run[p].keyed}
Assignable(p) ==
  /\ \A pair \in run[p].keyed : View(p)[pair[1]] # None
  /\ KeysOf(View(p)) \cap Assigned(p) = {}

\* The rows that another publish has given a key since this one read them: the
\* update waits for its commit, and then overwrites the key.
Rekeyed(p) == {pair[1] : pair \in run[p].keyed} \ Stubs(rows)

\* Mutant: the keys are only flushed.
AssignKeysUncommitted(p) ==
  /\ run[p].pc = "assign" /\ Assignable(p)
  /\ run' = [run EXCEPT ![p].pc = "upload",
       ![p].tx.rows = [i \in Ids |-> IF \E k \in Keys : <<i, k>> \in run[p].keyed
          THEN [View(p)[i] EXCEPT !.key = CHOOSE k \in Keys : <<i, k>> \in run[p].keyed]
          ELSE run[p].tx.rows[i]]]
  /\ UNCHANGED <<rows, feeds, file, deluge, saved, edits, faults, history>>

\* The keys are committed before the upload, and everything the import wrote
\* with them.
AssignKeys(p) ==
  /\ run[p].pc = "assign" /\ Assignable(p)
  /\ \A q \in Runs \ {p} :
       /\ \A pair \in run[p].keyed : run[q].tx.rows[pair[1]] = None
       /\ \A i \in Rowed(run[q].tx.rows) : run[q].tx.rows[i].key \notin Assigned(p)
  /\ Commit(p, run[p].keyed)
  /\ rekeyed' = rekeyed \cup {rows[i].name : i \in {i \in Rekeyed(p) : rows[i] # None}}
  /\ run' = [run EXCEPT ![p].pc = "upload", ![p].tx = NoTx]
  /\ UNCHANGED <<file, deluge, saved, edits, faults, seen, gone, late, given, abandoned>>

AssignFails(p) ==
  /\ run[p].pc = "assign" /\ ~Assignable(p)
  /\ run' = [run EXCEPT ![p] = At("restart", run[p].tx, TRUE)]
  /\ UNCHANGED <<rows, feeds, file, deluge, saved, edits, faults, history>>

Upload(p) ==
  /\ run[p].pc = "upload"
  /\ file' = run[p].out
  /\ given' = given \cup {<<pair[2], run[p].out.subs[pair[2]].name>> : pair \in run[p].keyed}
  /\ run' = [run EXCEPT ![p] = At("restart", run[p].tx, FALSE)]
  /\ UNCHANGED <<rows, feeds, deluge, saved, edits, faults, seen, gone, late, rekeyed, chosen, abandoned>>

\* The connection is lost after the remote file was opened for writing.
UploadTorn(p) ==
  /\ run[p].pc = "upload" /\ faults < MaxFaults
  /\ faults' = faults + 1
  /\ file' = Torn
  /\ run' = [run EXCEPT ![p] = At("restart", run[p].tx, TRUE)]
  /\ UNCHANGED <<rows, feeds, deluge, saved, edits, history>>

\* The finally block of _deluge_paused.
Restart(p) ==
  /\ run[p].pc = "restart"
  /\ deluge' = IF StopCommand /\ deluge = Down THEN Loaded(file) ELSE deluge
  /\ run' = [run EXCEPT ![p] = At("finish", run[p].tx, run[p].raised)]
  /\ UNCHANGED <<rows, feeds, file, saved, edits, faults, history>>

RestartFails(p) ==
  /\ StopCommand /\ run[p].pc = "restart" /\ faults < MaxFaults
  /\ faults' = faults + 1
  /\ abandoned' = (abandoned \/ deluge = Down)
  /\ run' = [run EXCEPT ![p] = At("finish", run[p].tx, run[p].raised)]
  /\ UNCHANGED <<rows, feeds, file, deluge, saved, edits, seen, gone, late, given, rekeyed, chosen>>

\* The end of the task: recorded errors commit like a success, an exception does not.
Finish(r) ==
  /\ run[r].pc = "finish"
  /\ IF run[r].raised THEN UNCHANGED <<rows, feeds, chosen>> ELSE Commit(r, {})
  /\ run' = [run EXCEPT ![r] = Over]
  /\ UNCHANGED <<file, deluge, saved, edits, faults, seen, gone, late, given, rekeyed, abandoned>>

\* Mutant: the stop is outside of the try block.
InterruptLeaves(p) ==
  /\ run[p].pc \in {"stop", "backup", "feeds", "subs", "assign", "upload"} /\ faults < MaxFaults
  /\ faults' = faults + 1
  /\ (run[p].pc = "stop" /\ Stopped) \/ UNCHANGED <<deluge, file>>
  /\ run' = [run EXCEPT ![p] = At(IF run[p].pc = "stop" THEN "finish" ELSE "restart", run[p].tx, TRUE)]
  /\ UNCHANGED <<rows, feeds, saved, edits, history>>

\* A failed call or the soft time limit, while Deluge is or may be stopped.
Interrupt(p) ==
  /\ run[p].pc \in {"stop", "backup", "feeds", "subs", "assign", "upload"} /\ faults < MaxFaults
  /\ faults' = faults + 1
  /\ (run[p].pc = "stop" /\ Stopped) \/ UNCHANGED <<deluge, file>>
  /\ run' = [run EXCEPT ![p] = At("restart", run[p].tx, TRUE)]
  /\ UNCHANGED <<rows, feeds, saved, edits, history>>

\* The worker is lost, or the time limit strikes before or after that block.
Kill(r) ==
  /\ run[r].pc \notin {"idle", "done"} /\ faults < MaxFaults
  /\ faults' = faults + 1
  /\ abandoned' = (abandoned \/ deluge = Down)
  /\ run' = [run EXCEPT ![r] = Over]
  /\ UNCHANGED <<rows, feeds, file, deluge, saved, edits, seen, gone, late, given, rekeyed, chosen>>
-----------------------------------------------------------------------------
Step(r) ==
  \/ Download(r) \/ Reconcile(r) \/ Clash(r) \/ Stop(r) \/ Backup(r) \/ BuildFeeds(r)
  \/ BuildSubscriptions(r) \/ AssignKeys(r) \/ AssignFails(r) \/ Upload(r) \/ Restart(r) \/ Finish(r)

Next ==
  \/ \E k \in Keys, n \in Names, f \in Feeds : RemoteAdd(k, n, f)
  \/ \E k \in Keys : RemoteRemove(k)
  \/ \E n \in Names, f \in Feeds, on \in BOOLEAN : CreateSubscription(n, f, on)
  \/ \E n \in Names : EnsureStub(n)
  \/ \E n \in Names, f \in Feeds, on \in BOOLEAN : Onboard(n, f, on)
  \/ \E i \in Ids, on \in BOOLEAN : SetEnabled(i, on)
  \/ \E i \in Ids, f \in Feeds : Relink(i, f)
  \/ \E i \in Ids : DeleteSubscription(i)
  \/ \E f \in Feeds, active \in {"active", "inactive"} : SetActive(f, active)
  \/ \E f \in Feeds : DeleteFeed(f)
  \/ \E r \in Runs : Step(r) \/ Kill(r)
  \/ \E p \in Publishes : StopFails(p) \/ UploadTorn(p) \/ RestartFails(p) \/ Interrupt(p)

Spec == Init /\ [][Next]_vars
Fairness == \A r \in Runs : WF_vars(Step(r))
FairSpec == Spec /\ Fairness
-----------------------------------------------------------------------------
\* The variables have their types, and a key belongs to one committed row.
TypeOK ==
  /\ rows \in [Ids -> Row \cup {None}]
  /\ \A i, j \in Rowed(rows) \ Stubs(rows) : rows[i].key = rows[j].key => i = j
  /\ feeds \in [Feeds -> {"none", "active", "inactive"}]
  /\ file \in Config \cup {Torn}
  /\ deluge \in Config \cup {Down}
  /\ saved \subseteq Names

\* A subscription that was ever in the remote file, and that the user did not
\* remove, is still in the file or in a backup.  The exception is one that YaRSS2
\* added behind the download of a publish, which uploads over it, and backs up
\* what it had downloaded.
NothingLostUnlessLate == seen \subseteq gone \cup late \cup saved \cup NamesIn(file)

\* A key that a publish made up and uploaded is known to the database, whatever
\* failed since: an import would record the subscription a second time otherwise.
\* The exception is one that got a second key, from another publish at the same
\* time, or from the user who removed it and added it in YaRSS2 again.
UploadedKeyIsKnownUnlessRekeyed ==
  \A pair \in given : pair[2] \notin gone \cup rekeyed =>
    \E i \in Rowed(rows) : rows[i].key = pair[1] /\ rows[i].name = pair[2]

\* A Deluge that a publish stopped comes up again, unless the start itself failed
\* or the worker was lost in between.
DelugeComesBack == deluge = Down ~> deluge # Down \/ abandoned

\* compute_subscription_deltas: "Jidou wins for all other fields (regex, feed,
\* paths, etc.)": the feed that the user chose stays until the user changes it.
ChosenFeedStays ==
  \A i \in Rowed(rows) : chosen[i] # None => rows[i].feed = chosen[i]
=============================================================================
