---------------------------- MODULE TaskLifecycle ----------------------------
(***************************************************************************)
(* The life of one BackgroundTask row and of the Celery job behind it:     *)
(* dispatch from the API or from beat, the worker harness, redelivery      *)
(* after a lost worker, the soft time limit, and the cancel and delete     *)
(* endpoints.  Every database call that reads a row and later writes it is *)
(* split into a read step and a commit step, because the two run in a READ *)
(* COMMITTED transaction without a row lock: whatever another connection   *)
(* commits in between is overwritten.                                      *)
(*                                                                         *)
(* All tasks of the model have the same task type, so that the overlap     *)
(* guard get_active_task relates any two of them.                          *)
(***************************************************************************)
EXTENDS Integers, FiniteSets

CONSTANTS
  Tasks,        \* the Celery task ids (uuid4) that may be drawn
  Clients,      \* concurrent API requests of users (cancel, delete)
  Dispatchers,  \* concurrent API triggers and beat wrapper runs
  Kinds,        \* which dispatch paths exist: "trigger", "reuse", "beat"
  MaxLost,      \* bound: how many times a worker process is lost
  LostReplies,  \* may apply_async raise after the broker took the message?
  NoTask        \* the task of an idle dispatcher or client

ASSUME TaskConstants ==
  /\ NoTask \notin Tasks
  /\ Kinds \subseteq {"trigger", "reuse", "beat"}
  /\ MaxLost \in Nat
  /\ LostReplies \in BOOLEAN

VARIABLES
  row,      \* the status column of the task's row, "absent" without a row
  made,     \* how many rows the task has had: the row's primary key
  pc,       \* where the task's job is: not enqueued, queued, or in the harness
  seen,     \* the status the running harness read last
  goal,     \* the status update_task_status is asked to write
  fault,    \* is the harness in an except handler (or in mark_task_timed_out)?
  revoked,  \* tasks whose revoke(terminate=True) was broadcast
  lost,     \* how many workers have been lost so far
  disp,     \* the dispatchers' state
  client,   \* the API requests' state
  told,     \* final events published for a task
  settled,  \* history: tasks whose row has been terminal at some time
  refused   \* history: tasks whose apply_async raised

rowVars == <<row, made, settled>>
runVars == <<pc, seen, goal, fault>>
vars == <<row, made, pc, seen, goal, fault, revoked, lost, disp, client, told,
          settled, refused>>

-----------------------------------------------------------------------------
(* Statuses and types. *)

ACTIVE_TASK_STATUSES == {"pending", "running"}
TERMINAL_TASK_STATUSES == {"completed", "failed", "cancelled"}
Status == ACTIVE_TASK_STATUSES \cup TERMINAL_TASK_STATUSES
RowState == Status \cup {"absent"}

\* Points of run_task_workflow between two awaits that matter.
HarnessPoints == {"create", "creating", "refresh", "work", "select", "commit",
                  "announce", "ack"}
Events == {"complete", "error", "cancelled"}

\* A dispatcher has a task from the INSERT on.
IdleDispatcher == [pc |-> "idle", kind |-> "none", task |-> NoTask]
DispatchState ==
  {IdleDispatcher}
    \cup [pc : {"claimed"}, kind : Kinds, task : {NoTask}]
    \cup [pc : {"dispatch", "withdraw", "fail_select", "fail_commit"},
          kind : Kinds, task : Tasks]

\* A request holds the row it has read, by its primary key.
IdleClient == [op |-> "idle", task |-> NoTask, made |-> 0]
ClientState ==
  {IdleClient} \cup [op : {"cancel", "tell", "delete"}, task : Tasks, made : Nat]

TypeOK ==
  /\ row \in [Tasks -> RowState]
  /\ made \in [Tasks -> Nat]
  /\ pc \in [Tasks -> HarnessPoints \cup {"none", "queued"}]
  /\ seen \in [Tasks -> RowState]
  /\ goal \in [Tasks -> Status \ {"pending"}]
  /\ \A t \in Tasks : pc[t] = "announce" => goal[t] # "running"
  /\ fault \in [Tasks -> BOOLEAN]
  /\ revoked \subseteq Tasks
  /\ lost \in 0..MaxLost
  /\ disp \in [Dispatchers -> DispatchState]
  /\ client \in [Clients -> ClientState]
  /\ told \in [Tasks -> SUBSET Events]
  /\ settled \subseteq Tasks
  /\ refused \subseteq Tasks

Active(t) == row[t] \in ACTIVE_TASK_STATUSES
Running(t) == pc[t] \in HarnessPoints

Init ==
  /\ row = [t \in Tasks |-> "absent"]
  /\ made = [t \in Tasks |-> 0]
  /\ pc = [t \in Tasks |-> "none"]
  /\ seen = [t \in Tasks |-> "absent"]
  /\ goal = [t \in Tasks |-> "running"]
  /\ fault = [t \in Tasks |-> FALSE]
  /\ revoked = {}
  /\ lost = 0
  /\ disp = [d \in Dispatchers |-> IdleDispatcher]
  /\ client = [c \in Clients |-> IdleClient]
  /\ told = [t \in Tasks |-> {}]
  /\ settled = {}
  /\ refused = {}

\* A committed UPDATE of the status column.
SetRow(t, status) ==
  /\ row' = [row EXCEPT ![t] = status]
  /\ settled' = IF status \in TERMINAL_TASK_STATUSES
                  THEN settled \cup {t} ELSE settled
  /\ UNCHANGED made

\* A committed INSERT; a row gets a primary key of its own.
InsertRow(t) ==
  /\ row' = [row EXCEPT ![t] = "pending"]
  /\ made' = [made EXCEPT ![t] = @ + 1]
  /\ UNCHANGED settled

\* The harness goes to a point of its code; a status read is used once.
GoTo(t, point) ==
  /\ pc' = [pc EXCEPT ![t] = point]
  /\ seen' = [seen EXCEPT ![t] = "absent"]
  /\ UNCHANGED <<goal, fault>>

\* The harness has read the row and goes on to the matching commit.
ReadRow(t, point) ==
  /\ pc' = [pc EXCEPT ![t] = point]
  /\ seen' = [seen EXCEPT ![t] = row[t]]
  /\ UNCHANGED <<goal, fault>>

\* The job is outside the harness, whose locals are gone.
LeaveHarness(t, place) ==
  /\ pc' = [pc EXCEPT ![t] = place]
  /\ seen' = [seen EXCEPT ![t] = "absent"]
  /\ goal' = [goal EXCEPT ![t] = "running"]
  /\ fault' = [fault EXCEPT ![t] = FALSE]

\* The harness calls update_task_status(..., status); `handler` says whether
\* the call is made by an except handler.
CallUpdate(t, status, handler) ==
  /\ pc' = [pc EXCEPT ![t] = "select"]
  /\ goal' = [goal EXCEPT ![t] = status]
  /\ fault' = [fault EXCEPT ![t] = handler]
  /\ seen' = [seen EXCEPT ![t] = "absent"]

-----------------------------------------------------------------------------
(* Dispatch: services/task_dispatch.py and workers/scheduled_tasks.py. *)

\* Mutant: only RUNNING rows count as active.
RunningTaskExists == \E t \in Tasks : row[t] = "running"

\* get_active_task finds a row of the type.
ActiveTaskExists == \E t \in Tasks : Active(t)

\* A request to /tasks/trigger, a route that enqueues directly, or a beat tick
\* passes the overlap check of its kind; the check takes no lock.
Claim(d, kind) ==
  /\ disp[d].pc = "idle"
  /\ kind \in {"reuse", "beat"} => ~ActiveTaskExists
  /\ disp' = [disp EXCEPT ![d] = [pc |-> "claimed", kind |-> kind, task |-> NoTask]]
  /\ UNCHANGED <<rowVars, runVars, revoked, lost, client, told, refused>>

\* create_task_record inserts the row under a fresh uuid4.
Insert(d, t) ==
  /\ disp[d].pc = "claimed"
  /\ made[t] = 0
  /\ InsertRow(t)
  /\ disp' = [disp EXCEPT ![d] = [pc |-> "dispatch", kind |-> disp[d].kind, task |-> t]]
  /\ UNCHANGED <<runVars, revoked, lost, client, told, refused>>

\* apply_async hands the message to the broker.
DispatchSent(d) ==
  /\ disp[d].pc = "dispatch"
  /\ LeaveHarness(disp[d].task, "queued")
  /\ disp' = [disp EXCEPT ![d] = IdleDispatcher]
  /\ UNCHANGED <<rowVars, revoked, lost, client, told, refused>>

\* Mutant: the broker's error is logged and the row is left as it is.
DispatchErrorIgnored(d) ==
  /\ disp[d].pc = "dispatch"
  /\ disp' = [disp EXCEPT ![d] = IdleDispatcher]
  /\ refused' = refused \cup {disp[d].task}
  /\ UNCHANGED <<rowVars, runVars, revoked, lost, client, told>>

\* apply_async raises; with a lost reply the broker has the message anyway.
DispatchRefused(d) ==
  /\ disp[d].pc = "dispatch"
  /\ \/ UNCHANGED runVars
     \/ LostReplies /\ LeaveHarness(disp[d].task, "queued")
  /\ disp' = [disp EXCEPT ![d].pc =
                IF disp[d].kind = "beat" THEN "withdraw" ELSE "fail_select"]
  /\ refused' = refused \cup {disp[d].task}
  /\ UNCHANGED <<rowVars, revoked, lost, client, told>>

\* Beat deletes the row it could not dispatch (one DELETE statement).
Withdraw(d) ==
  /\ disp[d].pc = "withdraw"
  /\ SetRow(disp[d].task, "absent")
  /\ disp' = [disp EXCEPT ![d] = IdleDispatcher]
  /\ UNCHANGED <<runVars, revoked, lost, client, told, refused>>

\* The API marks the row FAILED: the read of update_task_status.
FailSelect(d) ==
  /\ disp[d].pc = "fail_select"
  /\ disp' = [disp EXCEPT ![d] = IF Active(disp[d].task)
                                   THEN [@ EXCEPT !.pc = "fail_commit"]
                                   ELSE IdleDispatcher]
  /\ UNCHANGED <<rowVars, runVars, revoked, lost, client, told, refused>>

\* ... and its commit, which finds no row if a user deleted it meanwhile.
FailCommit(d) ==
  /\ disp[d].pc = "fail_commit"
  /\ IF row[disp[d].task] = "absent"
       THEN UNCHANGED rowVars
       ELSE SetRow(disp[d].task, "failed")
  /\ disp' = [disp EXCEPT ![d] = IdleDispatcher]
  /\ UNCHANGED <<runVars, revoked, lost, client, told, refused>>

-----------------------------------------------------------------------------
(* The harness: workers/_harness.py and services/progress.py. *)

\* The worker takes the message and enters run_task_workflow.
Receive(t) ==
  /\ pc[t] = "queued"
  /\ GoTo(t, "create")
  /\ UNCHANGED <<rowVars, revoked, lost, disp, client, told, refused>>

\* Mutant: the harness does not look at the returned status, and works although
\* its RUNNING update is refused.
CreateSelectUnchecked(t) ==
  /\ pc[t] = "create"
  /\ IF row[t] \in TERMINAL_TASK_STATUSES
       THEN CallUpdate(t, "running", FALSE)
       ELSE ReadRow(t, "creating")
  /\ UNCHANGED <<rowVars, revoked, lost, disp, client, told, refused>>

\* Mutant: a RUNNING row is taken for one that another worker is handling.
CreateSelectSkipsRunning(t) ==
  /\ pc[t] = "create"
  /\ IF row[t] \in TERMINAL_TASK_STATUSES \cup {"running"}
       THEN GoTo(t, "ack")
       ELSE ReadRow(t, "creating")
  /\ UNCHANGED <<rowVars, revoked, lost, disp, client, told, refused>>

\* The SELECT of create_task_record.  A terminal row is returned untouched, so
\* a redelivered message does not rerun finished work.
CreateSelect(t) ==
  /\ pc[t] = "create"
  /\ IF row[t] \in TERMINAL_TASK_STATUSES
       THEN GoTo(t, "ack")
       ELSE ReadRow(t, "creating")
  /\ UNCHANGED <<rowVars, revoked, lost, disp, client, told, refused>>

\* The commit of create_task_record: a missing row is created, a RUNNING row
\* (its worker was lost) goes back to PENDING, a PENDING one keeps its status.
\* A row deleted since the SELECT makes the commit or the refresh raise.
CreateCommit(t) ==
  /\ pc[t] = "creating"
  /\ \/ /\ seen[t] = "absent"
        /\ InsertRow(t)
        /\ GoTo(t, "refresh")
     \/ /\ seen[t] = "pending" /\ row[t] # "absent"
        /\ UNCHANGED rowVars
        /\ GoTo(t, "refresh")
     \/ /\ seen[t] = "running" /\ row[t] # "absent"
        /\ SetRow(t, "pending")
        /\ GoTo(t, "refresh")
     \/ /\ seen[t] # "absent" /\ row[t] = "absent"
        /\ UNCHANGED rowVars
        /\ CallUpdate(t, "failed", TRUE)
  /\ UNCHANGED <<revoked, lost, disp, client, told, refused>>

\* session.refresh and the check of the refreshed status.
Refresh(t) ==
  /\ pc[t] = "refresh"
  /\ \/ row[t] = "absent" /\ CallUpdate(t, "failed", TRUE)
     \/ row[t] \in TERMINAL_TASK_STATUSES /\ GoTo(t, "ack")
     \/ Active(t) /\ CallUpdate(t, "running", FALSE)
  /\ UNCHANGED <<rowVars, revoked, lost, disp, client, told, refused>>

\* Where the harness goes after update_task_status, when it committed or not.
AfterUpdate(t) == IF goal[t] = "running" THEN "work" ELSE "announce"

\* Mutant: update_task_status without its terminal guard.
NeverRefuses(current, status) == FALSE

\* The guard of update_task_status on the status it has just read.
Refuses(current, status) ==
  current \in TERMINAL_TASK_STATUSES /\ current # status

\* The SELECT of update_task_status.  Without a row, or with another terminal
\* status, nothing is written; only the "complete" event depends on the result.
Select(t) ==
  /\ pc[t] = "select"
  /\ IF row[t] = "absent" \/ Refuses(row[t], goal[t])
       THEN GoTo(t, IF goal[t] = "completed" THEN "ack" ELSE AfterUpdate(t))
       ELSE ReadRow(t, "commit")
  /\ UNCHANGED <<rowVars, revoked, lost, disp, client, told, refused>>

\* The commit of update_task_status.  The session writes only columns that
\* changed since the SELECT, so an equal status leaves the column as it is
\* now.  A row deleted meanwhile raises StaleDataError: into the harness's
\* except clause, or out of it when a handler made the call.
Commit(t) ==
  /\ pc[t] = "commit"
  /\ \/ /\ row[t] # "absent" /\ seen[t] = goal[t]
        /\ UNCHANGED rowVars
        /\ GoTo(t, AfterUpdate(t))
     \/ /\ row[t] # "absent" /\ seen[t] # goal[t]
        /\ SetRow(t, goal[t])
        /\ GoTo(t, AfterUpdate(t))
     \/ /\ row[t] = "absent" /\ fault[t]
        /\ UNCHANGED rowVars
        /\ GoTo(t, "ack")
     \/ /\ row[t] = "absent" /\ ~fault[t]
        /\ UNCHANGED rowVars
        /\ CallUpdate(t, "failed", TRUE)
  /\ UNCHANGED <<revoked, lost, disp, client, told, refused>>

\* on_progress: check_task_cancelled, then update_task_status(RUNNING).
Progress(t) ==
  /\ pc[t] = "work"
  /\ IF row[t] = "cancelled"
       THEN CallUpdate(t, "cancelled", TRUE)
       ELSE CallUpdate(t, "running", FALSE)
  /\ UNCHANGED <<rowVars, revoked, lost, disp, client, told, refused>>

\* set_total: the same write without the cancellation check.
SetTotal(t) ==
  /\ pc[t] = "work"
  /\ CallUpdate(t, "running", FALSE)
  /\ UNCHANGED <<rowVars, revoked, lost, disp, client, told, refused>>

\* work returns: _finish writes COMPLETED, or FAILED for soft errors.
Finish(t) ==
  /\ pc[t] = "work"
  /\ \E status \in {"completed", "failed"} : CallUpdate(t, status, FALSE)
  /\ UNCHANGED <<rowVars, revoked, lost, disp, client, told, refused>>

\* work raises: the except clause writes FAILED.
Raise(t) ==
  /\ pc[t] = "work"
  /\ CallUpdate(t, "failed", TRUE)
  /\ UNCHANGED <<rowVars, revoked, lost, disp, client, told, refused>>

\* SoftTimeLimitExceeded, at any await of the harness: its own except clause
\* or mark_task_timed_out writes FAILED.  It fires once in a run.
SoftLimit(t) ==
  /\ Running(t)
  /\ ~(fault[t] /\ goal[t] = "failed")
  /\ CallUpdate(t, "failed", TRUE)
  /\ UNCHANGED <<rowVars, revoked, lost, disp, client, told, refused>>

\* emit_progress of the final event of the path taken.
Announce(t) ==
  /\ pc[t] = "announce"
  /\ told' = [told EXCEPT ![t] = @ \cup
                {CASE goal[t] = "completed" -> "complete"
                   [] goal[t] = "failed" -> "error"
                   [] goal[t] = "cancelled" -> "cancelled"}]
  /\ GoTo(t, "ack")
  /\ UNCHANGED <<rowVars, revoked, lost, disp, client, refused>>

\* The task function returns or raises; with task_acks_late the message is
\* acknowledged only now.
Ack(t) ==
  /\ pc[t] = "ack"
  /\ LeaveHarness(t, "none")
  /\ UNCHANGED <<rowVars, revoked, lost, disp, client, told, refused>>

\* The worker process is lost: task_reject_on_worker_lost requeues the message.
WorkerLost(t) ==
  /\ Running(t)
  /\ lost < MaxLost
  /\ lost' = lost + 1
  /\ LeaveHarness(t, "queued")
  /\ UNCHANGED <<rowVars, revoked, disp, client, told, refused>>

\* Celery delivers a revoke(terminate=True): a queued message is discarded, a
\* running job is killed, and in both cases the message is acknowledged.  The
\* broadcast may arrive at any time, or never.
DeliverRevoke(t) ==
  /\ t \in revoked
  /\ pc[t] # "none"
  /\ LeaveHarness(t, "none")
  /\ UNCHANGED <<rowVars, revoked, lost, disp, client, told, refused>>

-----------------------------------------------------------------------------
(* The cancel and delete endpoints: api/routes/tasks.py. *)

\* cancel_task reads the row, refuses an inactive one (404, 400), and revokes.
CancelRead(c, t) ==
  /\ client[c].op = "idle"
  /\ Active(t)
  /\ revoked' = revoked \cup {t}
  /\ client' = [client EXCEPT ![c] = [op |-> "cancel", task |-> t, made |-> made[t]]]
  /\ UNCHANGED <<rowVars, runVars, lost, disp, told, refused>>

\* The row this request has read still exists.
StillThere(c) ==
  row[client[c].task] # "absent" /\ made[client[c].task] = client[c].made

\* cancel_task writes CANCELLED over whatever the status is by now.
CancelCommit(c) ==
  /\ client[c].op = "cancel"
  /\ IF StillThere(c)
       THEN /\ SetRow(client[c].task, "cancelled")
            /\ client' = [client EXCEPT ![c].op = "tell"]
       ELSE /\ client' = [client EXCEPT ![c] = IdleClient]
            /\ UNCHANGED rowVars
  /\ UNCHANGED <<runVars, revoked, lost, disp, told, refused>>

CancelTell(c) ==
  /\ client[c].op = "tell"
  /\ told' = [told EXCEPT ![client[c].task] = @ \cup {"cancelled"}]
  /\ client' = [client EXCEPT ![c] = IdleClient]
  /\ UNCHANGED <<rowVars, runVars, revoked, lost, disp, refused>>

\* delete_task reads the row and refuses an active one.
DeleteRead(c, t) ==
  /\ client[c].op = "idle"
  /\ row[t] \in TERMINAL_TASK_STATUSES
  /\ client' = [client EXCEPT ![c] = [op |-> "delete", task |-> t, made |-> made[t]]]
  /\ UNCHANGED <<rowVars, runVars, revoked, lost, disp, told, refused>>

DeleteCommit(c) ==
  /\ client[c].op = "delete"
  /\ IF StillThere(c)
       THEN SetRow(client[c].task, "absent")
       ELSE UNCHANGED rowVars
  /\ client' = [client EXCEPT ![c] = IdleClient]
  /\ UNCHANGED <<runVars, revoked, lost, disp, told, refused>>

-----------------------------------------------------------------------------
DispatchStep(d) ==
  \/ \E t \in Tasks : Insert(d, t)
  \/ DispatchSent(d)
  \/ DispatchRefused(d)
  \/ Withdraw(d)
  \/ FailSelect(d)
  \/ FailCommit(d)

HarnessStep(t) ==
  \/ Receive(t)
  \/ CreateSelect(t)
  \/ CreateCommit(t)
  \/ Refresh(t)
  \/ Select(t)
  \/ Commit(t)
  \/ Progress(t)
  \/ SetTotal(t)
  \/ Finish(t)
  \/ Raise(t)
  \/ Announce(t)
  \/ Ack(t)

ClientStep(c) ==
  \/ CancelCommit(c)
  \/ CancelTell(c)
  \/ DeleteCommit(c)

Next ==
  \/ \E d \in Dispatchers, kind \in Kinds : Claim(d, kind)
  \/ \E d \in Dispatchers : DispatchStep(d)
  \/ \E t \in Tasks : HarnessStep(t)
  \/ \E t \in Tasks : SoftLimit(t)
  \/ \E t \in Tasks : WorkerLost(t)
  \/ \E t \in Tasks : DeliverRevoke(t)
  \/ \E c \in Clients, t \in Tasks : CancelRead(c, t)
  \/ \E c \in Clients, t \in Tasks : DeleteRead(c, t)
  \/ \E c \in Clients : ClientStep(c)

Spec == Init /\ [][Next]_vars

\* The API process and the workers keep running what they have started, and
\* Celery's soft time limit ends a run that does not end by itself.
Fairness ==
  /\ \A d \in Dispatchers : WF_vars(DispatchStep(d))
  /\ \A t \in Tasks : WF_vars(HarnessStep(t)) /\ WF_vars(SoftLimit(t))
  /\ \A c \in Clients : WF_vars(ClientStep(c))

FairSpec == Spec /\ Fairness

-----------------------------------------------------------------------------
(* Properties. *)

\* The dispatcher that inserted t's row has not finished with it.
HeldByDispatcher(t) == \E d \in Dispatchers : disp[d].task = t

\* An active row has a job to advance it: a message, a running harness or the
\* dispatcher about to send or to give up.  Only a job that a user's revoke may
\* kill can leave its row active with nothing behind it (services/
\* task_dispatch.py enqueue_task, workers/_harness.py run_task_workflow).
OrphanOnlyIfRevoked ==
  \A t \in Tasks :
    Active(t) => pc[t] # "none" \/ HeldByDispatcher(t) \/ t \in revoked

\* The harness will not write the row of t again, except with the terminal
\* status it has already seen there.
Done(t) ==
  \/ pc[t] \in {"announce", "ack"}
  \/ pc[t] = "commit" /\ seen[t] = goal[t] /\ goal[t] # "running"

\* The inductive strengthening: a harness that is done leaves an ended row.
OwnerInv ==
  /\ OrphanOnlyIfRevoked
  /\ \A t \in Tasks : Done(t) => ~Active(t) \/ HeldByDispatcher(t) \/ t \in revoked

\* A terminal status changes to another one only in the races the code leaves
\* open: a cancel was requested for the task, or its dispatch was reported as
\* failed although the broker took the message (services/progress.py
\* update_task_status, api/routes/tasks.py cancel_task).
FinalUnlessRaced ==
  [][\A t \in Tasks :
       (row[t] \in TERMINAL_TASK_STATUSES /\ row'[t] \notin {row[t], "absent"})
         => t \in revoked \cup refused]_vars

\* "Once a task reaches a terminal state it must not change to ANY other state,
\* including other terminal states (e.g. CANCELLED -> COMPLETED)": here for the
\* status a user's cancel has committed (services/progress.py
\* update_task_status).
CancelledIsFinal ==
  [][\A t \in Tasks : row[t] = "cancelled" => row'[t] \in {"cancelled", "absent"}]_vars

\* A job does its work: from its RUNNING update to the call of _finish or of
\* an except handler.
Working(t) ==
  \/ pc[t] = "work"
  \/ pc[t] \in {"select", "commit"} /\ goal[t] = "running"

\* "Redelivered Celery messages must not rerun finished work": once a task has
\* ended no harness is in its work again (workers/_harness.py
\* run_task_workflow, services/progress.py create_task_record).
SettledWorkIsOver == \A t \in Tasks : t \in settled => ~Working(t)

\* Without user requests and lost broker replies a row has one writer at a time,
\* so the status a harness has read is still the status it overwrites.  This is
\* the inductive invariant behind SettledWorkIsOver and BoardSpec.
OneWriter ==
  /\ \A d \in Dispatchers, t \in Tasks :
       disp[d].task = t => /\ pc[t] = "none" /\ row[t] = "pending"
                           /\ \A e \in Dispatchers : disp[e].task = t => e = d
  /\ \A t \in Tasks :
       /\ made[t] = 0 => row[t] = "absent" /\ pc[t] = "none"
       /\ pc[t] # "none" => row[t] # "absent"

ReadsAreFresh ==
  /\ revoked = {}
  /\ \A t \in Tasks :
       /\ row[t] # "cancelled" /\ goal[t] # "cancelled"
       /\ t \in settled <=> row[t] \in TERMINAL_TASK_STATUSES
       /\ pc[t] \in {"creating", "commit"} => seen[t] = row[t]
       /\ pc[t] \in {"creating", "refresh", "work"} => Active(t)
       /\ pc[t] \in {"select", "commit"} /\ goal[t] = "running" => Active(t)
       /\ pc[t] = "commit" => Active(t) \/ row[t] = goal[t]
       /\ pc[t] = "announce" => /\ row[t] \in TERMINAL_TASK_STATUSES
                                /\ goal[t] = "completed" => row[t] = "completed"

UndisturbedInv == OneWriter /\ ReadsAreFresh

\* Two runs of an overlap-guarded task type never work at the same time
\* (services/task_dispatch.py get_active_task).
AtMostOneRunWorking ==
  \A t1, t2 \in Tasks : Working(t1) /\ Working(t2) => t1 = t2

\* The row inserted before apply_async "closes the race window where a second
\* beat fire could see no active task and dispatch a duplicate"
\* (workers/scheduled_tasks.py).
NoDuplicateDispatch ==
  \A t1, t2 \in Tasks : Active(t1) /\ Active(t2) => t1 = t2

\* Every row that becomes active reaches a terminal status or is deleted,
\* through lost workers and runs that never return, unless a user revokes it
\* (workers/_harness.py run_harnessed, workers/celery_app.py).
ActiveTasksEnd ==
  \A t \in Tasks : Active(t) ~> (~Active(t) \/ t \in revoked)

\* Without cancellations the rows and the announcements implement the board.
Board == INSTANCE TaskBoard WITH
  board <- [t \in Tasks |-> IF Active(t) THEN "active" ELSE row[t]],
  news <- told

BoardSpec == Board!Spec

=============================================================================
