------------------------ MODULE TaskLifecycleProofs ------------------------
(***************************************************************************)
(* Theorems about TaskLifecycle.                                           *)
(***************************************************************************)
EXTENDS TaskLifecycle, TLAPS

-----------------------------------------------------------------------------
(* Type correctness. *)

\* The initial states are well typed.
LEMMA InitTyped == Init => TypeOK
  BY TaskConstants
     DEF Init, TypeOK, RowState, Status, ACTIVE_TASK_STATUSES,
         TERMINAL_TASK_STATUSES, DispatchState, IdleDispatcher, ClientState,
         IdleClient

\* The row operators keep the row variables well typed.
LEMMA SetRowTyped ==
  ASSUME TypeOK, NEW t \in Tasks, NEW status \in RowState, SetRow(t, status)
  PROVE  /\ row' \in [Tasks -> RowState]
         /\ made' \in [Tasks -> Nat]
         /\ settled' \subseteq Tasks
  BY DEF TypeOK, SetRow

\* The insert of the dispatcher keeps the table of rows typed.
LEMMA InsertRowTyped ==
  ASSUME TypeOK, NEW t \in Tasks, InsertRow(t)
  PROVE  /\ row' \in [Tasks -> RowState]
         /\ made' \in [Tasks -> Nat]
         /\ settled' \subseteq Tasks
  BY DEF TypeOK, InsertRow, RowState, Status, ACTIVE_TASK_STATUSES

RunTypes ==
  /\ pc \in [Tasks -> HarnessPoints \cup {"none", "queued"}]
  /\ seen \in [Tasks -> RowState]
  /\ goal \in [Tasks -> Status \ {"pending"}]
  /\ fault \in [Tasks -> BOOLEAN]
  /\ \A t \in Tasks : pc[t] = "announce" => goal[t] # "running"

\* The moves of a job keep the harness variables well typed.
LEMMA PointTypes ==
  /\ "absent" \in RowState /\ "select" \in HarnessPoints
  /\ "running" \in Status \ {"pending"}
  BY DEF RowState, Status, HarnessPoints, ACTIVE_TASK_STATUSES

\* Moving an execution on keeps the table of executions typed.
LEMMA GoToTyped ==
  ASSUME TypeOK, NEW t \in Tasks, NEW point \in HarnessPoints,
         point = "announce" => goal[t] # "running", GoTo(t, point)
  PROVE  RunTypes'
  BY PointTypes DEF TypeOK, RunTypes, GoTo

\* Reading a row into an execution keeps that table typed.
LEMMA ReadRowTyped ==
  ASSUME TypeOK, NEW t \in Tasks, NEW point \in HarnessPoints \ {"announce"},
         ReadRow(t, point)
  PROVE  RunTypes'
  BY PointTypes DEF TypeOK, RunTypes, ReadRow

\* Leaving the harness keeps executions and messages typed.
LEMMA LeaveHarnessTyped ==
  ASSUME TypeOK, NEW t \in Tasks, NEW place \in {"none", "queued"},
         LeaveHarness(t, place)
  PROVE  RunTypes'
  BY PointTypes DEF TypeOK, RunTypes, LeaveHarness

\* A status write, whatever its outcome, keeps rows and executions typed.
LEMMA CallUpdateTyped ==
  ASSUME TypeOK, NEW t \in Tasks, NEW status \in Status \ {"pending"},
         NEW handler \in BOOLEAN, CallUpdate(t, status, handler)
  PROVE  RunTypes'
  BY PointTypes DEF TypeOK, RunTypes, CallUpdate

\* What each state of a dispatcher says of its record.
LEMMA DispatcherTask ==
  ASSUME TypeOK, NEW d \in Dispatchers
  PROVE  /\ disp[d].kind \in Kinds \cup {"none"}
         /\ disp[d].pc \in {"idle", "claimed"} <=> disp[d].task = NoTask
         /\ disp[d].task # NoTask => disp[d].task \in Tasks
         /\ disp[d].pc \in {"idle", "claimed", "dispatch", "withdraw",
                           "fail_select", "fail_commit"}
         /\ disp[d].pc # "idle" => disp[d].kind \in Kinds
         /\ disp[d] = [pc |-> disp[d].pc, kind |-> disp[d].kind, task |-> disp[d].task]
<1>1. disp[d] \in DispatchState
  BY DEF TypeOK
<1> QED
  BY <1>1, TaskConstants DEF DispatchState, IdleDispatcher

\* The dispatch actions keep the types.
LEMMA DispatchTyped ==
  ASSUME TypeOK, NEW d \in Dispatchers,
         DispatchStep(d) \/ \E kind \in Kinds : Claim(d, kind)
  PROVE  TypeOK'
<1> USE DispatcherTask
<1>1. ASSUME NEW kind \in Kinds, Claim(d, kind)
      PROVE  TypeOK'
  BY <1>1 DEF Claim, TypeOK, DispatchState, rowVars, runVars
<1>2. ASSUME NEW t \in Tasks, Insert(d, t)
      PROVE  TypeOK'
  <2>1. disp' \in [Dispatchers -> DispatchState]
    BY <1>2 DEF Insert, TypeOK, DispatchState
  <2>2. row' \in [Tasks -> RowState] /\ made' \in [Tasks -> Nat] /\ settled' \subseteq Tasks
    BY <1>2, InsertRowTyped DEF Insert
  <2> QED
    BY <1>2, <2>1, <2>2 DEF Insert, TypeOK, runVars
<1>3. CASE DispatchSent(d)
  <2>1. disp' \in [Dispatchers -> DispatchState]
    BY <1>3 DEF DispatchSent, TypeOK, DispatchState
  <2>2. disp[d].task \in Tasks
    BY <1>3 DEF DispatchSent
  <2> QED
    BY <1>3, <2>1, <2>2, LeaveHarnessTyped DEF DispatchSent, TypeOK, RunTypes, rowVars
<1>4. CASE DispatchRefused(d)
  <2>1. disp' \in [Dispatchers -> DispatchState]
    BY <1>4 DEF DispatchRefused, TypeOK, DispatchState
  <2>2. disp[d].task \in Tasks
    BY <1>4 DEF DispatchRefused
  <2>3. RunTypes'
    BY <1>4, <2>2, LeaveHarnessTyped DEF DispatchRefused, TypeOK, RunTypes, runVars
  <2> QED
    BY <1>4, <2>1, <2>2, <2>3 DEF DispatchRefused, TypeOK, RunTypes, rowVars
<1>5. CASE Withdraw(d)
  <2>1. "absent" \in RowState /\ disp[d].task \in Tasks
    BY <1>5 DEF RowState, Withdraw
  <2>2. disp' \in [Dispatchers -> DispatchState]
    BY <1>5 DEF Withdraw, TypeOK, DispatchState
  <2> QED
    BY <1>5, <2>1, <2>2, SetRowTyped DEF Withdraw, TypeOK, runVars
<1>6. CASE FailSelect(d)
  <2>1. disp' \in [Dispatchers -> DispatchState]
    BY <1>6 DEF FailSelect, TypeOK, DispatchState
  <2> QED
    BY <1>6, <2>1 DEF FailSelect, TypeOK, rowVars, runVars
<1>7. CASE FailCommit(d)
  <2>1. "failed" \in RowState /\ disp[d].task \in Tasks
    BY <1>7 DEF RowState, Status, TERMINAL_TASK_STATUSES, FailCommit
  <2>2. disp' \in [Dispatchers -> DispatchState]
    BY <1>7 DEF FailCommit, TypeOK, DispatchState
  <2>3. row' \in [Tasks -> RowState] /\ made' \in [Tasks -> Nat] /\ settled' \subseteq Tasks
    BY <1>7, <2>1, SetRowTyped DEF FailCommit, TypeOK, rowVars
  <2> QED
    BY <1>7, <2>2, <2>3 DEF FailCommit, TypeOK, runVars
<1>8. QED
  BY <1>1, <1>2, <1>3, <1>4, <1>5, <1>6, <1>7 DEF DispatchStep

\* The harness actions keep the types.
LEMMA HarnessTyped ==
  ASSUME TypeOK, NEW t \in Tasks,
         HarnessStep(t) \/ SoftLimit(t) \/ WorkerLost(t) \/ DeliverRevoke(t)
  PROVE  TypeOK'
<1> DEFINE RowOK == /\ row \in [Tasks -> RowState]
                    /\ made \in [Tasks -> Nat]
                    /\ settled \subseteq Tasks
<1>1. /\ {"completed", "failed", "cancelled", "running"} \subseteq Status \ {"pending"}
      /\ {"pending", "completed", "failed", "cancelled", "running"} \subseteq RowState
      /\ {"create", "creating", "refresh", "work", "select", "commit", "announce",
          "ack"} \subseteq HarnessPoints
      /\ Status \ {"pending"} \subseteq RowState
  BY DEF Status, ACTIVE_TASK_STATUSES, TERMINAL_TASK_STATUSES, RowState, HarnessPoints
<1>2. ASSUME RunTypes', UNCHANGED rowVars, UNCHANGED <<revoked, disp, client, told, refused>>,
             lost' \in 0..MaxLost
      PROVE  TypeOK'
  BY <1>2 DEF TypeOK, RunTypes, rowVars
<1>3. CASE Receive(t)
  BY <1>1, <1>2, <1>3, GoToTyped DEF Receive, TypeOK
<1>4. CASE CreateSelect(t)
  BY <1>1, <1>2, <1>4, GoToTyped, ReadRowTyped DEF CreateSelect, TypeOK
<1>5. CASE CreateCommit(t)
  <2>1. RowOK'
    BY <1>1, <1>5, SetRowTyped, InsertRowTyped DEF CreateCommit, TypeOK, rowVars
  <2>2. GoTo(t, "refresh") \/ CallUpdate(t, "failed", TRUE)
    BY <1>5 DEF CreateCommit
  <2>3. RunTypes'
    BY <1>1, <2>2, GoToTyped, CallUpdateTyped
  <2> QED
    BY <1>5, <2>1, <2>3 DEF CreateCommit, TypeOK, RunTypes
<1>6. CASE Refresh(t)
  <2>1. \/ GoTo(t, "ack") \/ CallUpdate(t, "failed", TRUE)
        \/ CallUpdate(t, "running", FALSE)
    BY <1>6 DEF Refresh
  <2>2. RunTypes'
    BY <1>1, <2>1, GoToTyped, CallUpdateTyped
  <2> QED
    BY <1>2, <1>6, <2>2 DEF Refresh, TypeOK
<1>7. CASE Select(t)
  BY <1>1, <1>2, <1>7, GoToTyped, ReadRowTyped DEF Select, AfterUpdate, TypeOK
<1>8. CASE Commit(t)
  <2>1. RowOK'
    BY <1>1, <1>8, SetRowTyped DEF Commit, TypeOK, rowVars
  <2>2. \/ GoTo(t, AfterUpdate(t)) \/ GoTo(t, "ack")
        \/ CallUpdate(t, "failed", TRUE)
    BY <1>8 DEF Commit
  <2>3. RunTypes'
    BY <1>1, <2>2, GoToTyped, CallUpdateTyped DEF AfterUpdate
  <2> QED
    BY <1>8, <2>1, <2>3 DEF Commit, TypeOK, RunTypes
<1>9. CASE Progress(t)
  BY <1>1, <1>2, <1>9, CallUpdateTyped DEF Progress, TypeOK
<1>10. CASE SetTotal(t) \/ Raise(t) \/ SoftLimit(t)
  BY <1>1, <1>2, <1>10, CallUpdateTyped DEF SetTotal, Raise, SoftLimit, TypeOK
<1>11. CASE Finish(t)
  BY <1>1, <1>2, <1>11, CallUpdateTyped DEF Finish, TypeOK
<1>12. CASE Announce(t)
  <2>1. RunTypes'
    BY <1>1, <1>12, GoToTyped DEF Announce
  <2>2. told' \in [Tasks -> SUBSET Events]
    <3>1. PICK e \in Events : told' = [told EXCEPT ![t] = @ \cup {e}]
      <4>1. goal[t] \in TERMINAL_TASK_STATUSES
        BY <1>12 DEF Announce, TypeOK, Status, ACTIVE_TASK_STATUSES
      <4> QED
        BY <1>12, <4>1 DEF Announce, Events, TERMINAL_TASK_STATUSES
    <3> QED
      BY <3>1 DEF TypeOK
  <2> QED
    BY <1>12, <2>1, <2>2 DEF Announce, TypeOK, RunTypes, rowVars
<1>13. CASE Ack(t) \/ DeliverRevoke(t)
  BY <1>1, <1>2, <1>13, LeaveHarnessTyped DEF Ack, DeliverRevoke, TypeOK
<1>14. CASE WorkerLost(t)
  <2>1. lost' \in 0..MaxLost
    BY <1>14, TaskConstants DEF WorkerLost, TypeOK
  <2> QED
    BY <1>2, <1>14, <2>1, LeaveHarnessTyped DEF WorkerLost, TypeOK
<1>15. QED
  BY <1>3, <1>4, <1>5, <1>6, <1>7, <1>8, <1>9, <1>10, <1>11, <1>12, <1>13, <1>14
     DEF HarnessStep

\* The requests of users keep the types.
LEMMA ClientTyped ==
  ASSUME TypeOK, NEW c \in Clients,
         ClientStep(c) \/ \E t \in Tasks : CancelRead(c, t) \/ DeleteRead(c, t)
  PROVE  TypeOK'
<1>1. client[c].op \in {"cancel", "tell", "delete"} =>
        /\ client[c].task \in Tasks
        /\ client[c] = [op |-> client[c].op, task |-> client[c].task,
                        made |-> client[c].made]
        /\ client[c].made \in Nat
  <2>1. client[c] \in ClientState
    BY DEF TypeOK
  <2> QED
    BY <2>1 DEF ClientState, IdleClient
<1>2. {"cancelled", "absent"} \subseteq RowState
  BY DEF RowState, Status, TERMINAL_TASK_STATUSES
<1>3. ASSUME NEW t \in Tasks, CancelRead(c, t) \/ DeleteRead(c, t)
      PROVE  TypeOK'
  BY <1>3 DEF CancelRead, DeleteRead, TypeOK, ClientState, rowVars, runVars
<1>4. CASE CancelCommit(c)
  <2>1. client' \in [Clients -> ClientState]
    BY <1>1, <1>4 DEF CancelCommit, TypeOK, ClientState
  <2>2. row' \in [Tasks -> RowState] /\ made' \in [Tasks -> Nat] /\ settled' \subseteq Tasks
    BY <1>1, <1>2, <1>4, SetRowTyped DEF CancelCommit, TypeOK, rowVars
  <2> QED
    BY <1>4, <2>1, <2>2 DEF CancelCommit, TypeOK, runVars
<1>5. CASE CancelTell(c)
  BY <1>1, <1>5 DEF CancelTell, TypeOK, ClientState, Events, rowVars, runVars
<1>6. CASE DeleteCommit(c)
  <2>1. client' \in [Clients -> ClientState]
    BY <1>6 DEF DeleteCommit, TypeOK, ClientState
  <2>2. row' \in [Tasks -> RowState] /\ made' \in [Tasks -> Nat] /\ settled' \subseteq Tasks
    BY <1>1, <1>2, <1>6, SetRowTyped DEF DeleteCommit, TypeOK, rowVars
  <2> QED
    BY <1>6, <2>1, <2>2 DEF DeleteCommit, TypeOK, runVars
<1>7. QED
  BY <1>3, <1>4, <1>5, <1>6 DEF ClientStep

\* Every step keeps the types.
LEMMA NextTyped == TypeOK /\ [Next]_vars => TypeOK'
<1> SUFFICES ASSUME TypeOK, [Next]_vars
             PROVE  TypeOK'
  OBVIOUS
<1>1. CASE Next
  BY <1>1, DispatchTyped, HarnessTyped, ClientTyped DEF Next
<1>2. CASE UNCHANGED vars
  BY <1>2 DEF vars, TypeOK
<1>3. QED
  BY <1>1, <1>2

\* Every reachable state of the task machinery is well typed.
THEOREM TypeCorrect == Spec => []TypeOK
  BY InitTyped, NextTyped, PTL DEF Spec

-----------------------------------------------------------------------------
(* No row is left active without a job, unless its job was revoked. *)

\* The ownership invariant holds before any dispatch.
LEMMA InitOwner == Init => OwnerInv
  BY DEF Init, OwnerInv, OrphanOnlyIfRevoked, Done, Active, ACTIVE_TASK_STATUSES

\* A harness step concerns one task and leaves the dispatchers alone.
LEMMA HarnessOwner ==
  ASSUME TypeOK, OwnerInv, NEW t \in Tasks,
         HarnessStep(t) \/ SoftLimit(t) \/ WorkerLost(t) \/ DeliverRevoke(t)
  PROVE  OwnerInv'
<1> DEFINE Owned(u) == HeldByDispatcher(u) \/ u \in revoked
           Good(u) == /\ Active(u) => pc[u] # "none" \/ Owned(u)
                      /\ Done(u) => ~Active(u) \/ Owned(u)
<1>1. UNCHANGED <<disp, revoked>>
  BY DEF HarnessStep, Receive, CreateSelect, CreateCommit, Refresh, Select, Commit,
         Progress, SetTotal, Finish, Raise, Announce, Ack, SoftLimit, WorkerLost,
         DeliverRevoke
<1>2. \A u \in Tasks : Owned(u)' <=> Owned(u)
  BY <1>1 DEF HeldByDispatcher
<1>3. \A u \in Tasks \ {t} : /\ row'[u] = row[u] /\ pc'[u] = pc[u]
                             /\ seen'[u] = seen[u] /\ goal'[u] = goal[u]
  <2> USE DEF TypeOK, GoTo, ReadRow, LeaveHarness, CallUpdate, SetRow, InsertRow, rowVars
  <2>1. CASE Receive(t) \/ CreateSelect(t) \/ Refresh(t) \/ Select(t)
    BY <2>1 DEF Receive, CreateSelect, Refresh, Select
  <2>2. CASE CreateCommit(t)
    BY <2>2 DEF CreateCommit
  <2>3. CASE Commit(t)
    BY <2>3 DEF Commit
  <2>4. CASE Progress(t) \/ SetTotal(t) \/ Finish(t) \/ Raise(t) \/ SoftLimit(t)
    BY <2>4 DEF Progress, SetTotal, Finish, Raise, SoftLimit
  <2>5. CASE Announce(t) \/ Ack(t) \/ WorkerLost(t) \/ DeliverRevoke(t)
    BY <2>5 DEF Announce, Ack, WorkerLost, DeliverRevoke
  <2>6. QED
    BY <2>1, <2>2, <2>3, <2>4, <2>5 DEF HarnessStep
<1>4. \A u \in Tasks \ {t} : Good(u)'
  <2>1. \A u \in Tasks : Good(u)
    BY DEF OwnerInv, OrphanOnlyIfRevoked
  <2> QED
    BY <1>2, <1>3, <2>1 DEF Active, Done
<1>5. Good(t)'
  <2> USE DEF TypeOK, Active, Done, GoTo, ReadRow, LeaveHarness, CallUpdate, SetRow,
              InsertRow, rowVars, ACTIVE_TASK_STATUSES, TERMINAL_TASK_STATUSES
  <2>1. Good(t)
    BY DEF OwnerInv, OrphanOnlyIfRevoked
  <2> HIDE DEF Owned
  <2>2. Owned(t)' <=> Owned(t)
    BY <1>2
  <2>3. CASE Receive(t) \/ CreateSelect(t) \/ Refresh(t)
    BY <2>1, <2>2, <2>3 DEF Receive, CreateSelect, Refresh
  <2>4. CASE Select(t)
    BY <2>1, <2>2, <2>4 DEF Select, AfterUpdate, Refuses, Status
  <2>5. CASE CreateCommit(t)
    BY <2>1, <2>2, <2>5 DEF CreateCommit
  <2>6. CASE Commit(t)
    BY <2>1, <2>2, <2>6 DEF Commit, AfterUpdate, Status
  <2>7. CASE Progress(t) \/ SetTotal(t) \/ Finish(t) \/ Raise(t) \/ SoftLimit(t)
    BY <2>1, <2>2, <2>7 DEF Progress, SetTotal, Finish, Raise, SoftLimit
  <2>8. CASE Announce(t) \/ Ack(t) \/ WorkerLost(t)
    BY <2>1, <2>2, <2>8 DEF Announce, Ack, WorkerLost
  <2>9. CASE DeliverRevoke(t)
    BY <2>1, <2>2, <2>9 DEF DeliverRevoke, Owned
  <2>10. QED
    BY <2>3, <2>4, <2>5, <2>6, <2>7, <2>8, <2>9 DEF HarnessStep
<1>6. QED
  BY <1>4, <1>5 DEF OwnerInv, OrphanOnlyIfRevoked

\* A dispatcher lets a task go when it has queued it or its row has ended.
LEMMA DispatchOwner ==
  ASSUME TypeOK, OwnerInv, NEW d \in Dispatchers,
         DispatchStep(d) \/ \E kind \in Kinds : Claim(d, kind)
  PROVE  OwnerInv'
<1> DEFINE Good(u) ==
      /\ Active(u) => pc[u] # "none" \/ HeldByDispatcher(u) \/ u \in revoked
      /\ Done(u) => ~Active(u) \/ HeldByDispatcher(u) \/ u \in revoked
<1> SUFFICES ASSUME NEW u \in Tasks
             PROVE  Good(u)'
  BY DEF OwnerInv, OrphanOnlyIfRevoked
<1> USE DEF TypeOK, Active, Done, HeldByDispatcher
<1>1. Good(u)
  BY DEF OwnerInv, OrphanOnlyIfRevoked
<1>2. /\ disp[d].pc \in {"idle", "claimed"} <=> disp[d].task = NoTask
      /\ disp[d].task # NoTask => disp[d].task \in Tasks
      /\ u # NoTask
  BY DispatcherTask, TaskConstants
<1>3. ASSUME disp[d].task # u \/ disp'[d].task = u,
             \A e \in Dispatchers \ {d} : disp'[e] = disp[e]
      PROVE  HeldByDispatcher(u) => HeldByDispatcher(u)'
  BY <1>3
<1>4. ASSUME NEW kind \in Kinds, Claim(d, kind)
      PROVE  Good(u)'
  BY <1>1, <1>2, <1>4 DEF Claim, rowVars, runVars
<1>5. ASSUME NEW t \in Tasks, Insert(d, t)
      PROVE  Good(u)'
  BY <1>1, <1>2, <1>5 DEF Insert, InsertRow, runVars
<1>6. CASE DispatchSent(d)
  BY <1>1, <1>2, <1>6 DEF DispatchSent, LeaveHarness, rowVars
<1>7. CASE DispatchRefused(d)
  <2>1. disp'[d].task = disp[d].task
    BY <1>7 DEF DispatchRefused
  <2>2. HeldByDispatcher(u)' <=> HeldByDispatcher(u)
    BY <1>7, <2>1 DEF DispatchRefused
  <2> QED
    BY <1>1, <1>2, <1>7, <2>2 DEF DispatchRefused, LeaveHarness, rowVars, runVars
<1>8. CASE Withdraw(d)
  BY <1>1, <1>2, <1>8 DEF Withdraw, SetRow, runVars, ACTIVE_TASK_STATUSES
<1>9. CASE FailSelect(d)
  BY <1>1, <1>2, <1>9 DEF FailSelect, rowVars, runVars
<1>10. CASE FailCommit(d)
  BY <1>1, <1>2, <1>10 DEF FailCommit, SetRow, rowVars, runVars, ACTIVE_TASK_STATUSES
<1>11. QED
  BY <1>4, <1>5, <1>6, <1>7, <1>8, <1>9, <1>10 DEF DispatchStep

\* A request only ends a row, and a cancel revokes before it ends it.
LEMMA ClientOwner ==
  ASSUME TypeOK, OwnerInv, NEW c \in Clients,
         ClientStep(c) \/ \E t \in Tasks : CancelRead(c, t) \/ DeleteRead(c, t)
  PROVE  OwnerInv'
<1>1. UNCHANGED <<pc, seen, goal, disp>> /\ revoked \subseteq revoked'
  BY DEF ClientStep, CancelRead, DeleteRead, CancelCommit, CancelTell, DeleteCommit, runVars
<1>2. \A u \in Tasks : Active(u)' => Active(u)
  BY DEF ClientStep, CancelRead, DeleteRead, CancelCommit, CancelTell, DeleteCommit,
         SetRow, rowVars, TypeOK, Active, ACTIVE_TASK_STATUSES
<1>3. QED
  BY <1>1, <1>2 DEF OwnerInv, OrphanOnlyIfRevoked, Done, HeldByDispatcher

\* Every step keeps the ownership invariant.
LEMMA NextOwner == TypeOK /\ OwnerInv /\ [Next]_vars => OwnerInv'
<1> SUFFICES ASSUME TypeOK, OwnerInv, [Next]_vars
             PROVE  OwnerInv'
  OBVIOUS
<1>1. CASE Next
  BY <1>1, DispatchOwner, HarnessOwner, ClientOwner DEF Next
<1>2. CASE UNCHANGED vars
  BY <1>2 DEF vars, OwnerInv, OrphanOnlyIfRevoked, Done, Active, HeldByDispatcher
<1>3. QED
  BY <1>1, <1>2

\* For any number of tasks, users, dispatchers and lost workers: a PENDING or
\* RUNNING row always has a job that can still end it, unless a user revoked
\* that job.
THEOREM OrphansAreRevoked == Spec => []OrphanOnlyIfRevoked
<1>1. OwnerInv => OrphanOnlyIfRevoked
  BY DEF OwnerInv
<1>2. QED
  BY <1>1, InitOwner, NextOwner, TypeCorrect, PTL DEF Spec

-----------------------------------------------------------------------------
(* An ending is final unless a user cancelled or a dispatch was refused.    *)

\* Nobody but the harness writes the row of such a task.
Unraced(t) == t \notin revoked \cup refused

\* A dispatcher or a request that may overwrite an ending has raced.
RacesAreKnown ==
  /\ \A d \in Dispatchers : disp[d].pc \in {"withdraw", "fail_select", "fail_commit"}
                              => disp[d].task \in refused
  /\ \A c \in Clients : client[c].op \in {"cancel", "tell"} => client[c].task \in revoked

\* A row is inserted before its message is sent, and once by its dispatcher.
InsertedFirst ==
  /\ \A t \in Tasks : made[t] = 0 => row[t] = "absent" /\ pc[t] = "none"
  /\ \A d \in Dispatchers : disp[d].task # NoTask => made[disp[d].task] # 0

\* What a harness overwrites is what it has read and was allowed to overwrite, or
\* the row is gone.
ReadIsCurrent(t) ==
  /\ pc[t] = "creating" => seen[t] \notin TERMINAL_TASK_STATUSES
  /\ pc[t] = "commit" => seen[t] # "absent" /\ ~Refuses(seen[t], goal[t])
  /\ pc[t] \in {"creating", "commit"} /\ Unraced(t) => row[t] \in {seen[t], "absent"}

FinalInv == RacesAreKnown /\ InsertedFirst /\ \A t \in Tasks : ReadIsCurrent(t)

\* One task's ending in one step.
StaysFinal(t) ==
  row[t] \in TERMINAL_TASK_STATUSES /\ row'[t] \notin {row[t], "absent"}
    => t \in revoked \cup refused

LEMMA InitFinal == Init => FinalInv
  BY DEF Init, FinalInv, RacesAreKnown, InsertedFirst, ReadIsCurrent, IdleDispatcher,
         IdleClient

\* A harness writes over what it has read.
LEMMA HarnessFinal ==
  ASSUME TypeOK, FinalInv, NEW t \in Tasks,
         HarnessStep(t) \/ SoftLimit(t) \/ WorkerLost(t) \/ DeliverRevoke(t)
  PROVE  FinalInv' /\ \A u \in Tasks : StaysFinal(u)
<1>1. UNCHANGED <<disp, revoked, refused, client>>
  BY DEF HarnessStep, Receive, CreateSelect, CreateCommit, Refresh, Select, Commit,
         Progress, SetTotal, Finish, Raise, Announce, Ack, SoftLimit, WorkerLost,
         DeliverRevoke
<1>2. \A u \in Tasks \ {t} : /\ row'[u] = row[u] /\ pc'[u] = pc[u] /\ made'[u] = made[u]
                             /\ seen'[u] = seen[u] /\ goal'[u] = goal[u]
  <2> USE DEF TypeOK, GoTo, ReadRow, LeaveHarness, CallUpdate, SetRow, InsertRow, rowVars
  <2>1. CASE Receive(t) \/ CreateSelect(t) \/ Refresh(t) \/ Select(t)
    BY <2>1 DEF Receive, CreateSelect, Refresh, Select
  <2>2. CASE CreateCommit(t)
    BY <2>2 DEF CreateCommit
  <2>3. CASE Commit(t)
    BY <2>3 DEF Commit
  <2>4. CASE Progress(t) \/ SetTotal(t) \/ Finish(t) \/ Raise(t) \/ SoftLimit(t)
    BY <2>4 DEF Progress, SetTotal, Finish, Raise, SoftLimit
  <2>5. CASE Announce(t) \/ Ack(t) \/ WorkerLost(t) \/ DeliverRevoke(t)
    BY <2>5 DEF Announce, Ack, WorkerLost, DeliverRevoke
  <2>6. QED
    BY <2>1, <2>2, <2>3, <2>4, <2>5 DEF HarnessStep
<1>3. /\ made'[t] = made[t] \/ made'[t] # 0
      /\ made[t] # 0 \/ (pc'[t] = "none" /\ row'[t] = row[t])
      /\ ReadIsCurrent(t)' /\ StaysFinal(t)
  <2> USE DEF TypeOK, ReadIsCurrent, Unraced, StaysFinal, GoTo, ReadRow, LeaveHarness,
              CallUpdate, SetRow, InsertRow, rowVars, TERMINAL_TASK_STATUSES
  <2>0. /\ ReadIsCurrent(t) /\ (pc[t] # "none" => made[t] # 0) /\ made[t] \in Nat
        /\ goal[t] \in Status \ {"pending"}
    BY DEF FinalInv, InsertedFirst
  <2>1. CASE Receive(t) \/ CreateSelect(t) \/ Refresh(t)
    BY <1>1, <2>0, <2>1 DEF Receive, CreateSelect, Refresh
  <2>2. CASE Select(t)
    BY <1>1, <2>0, <2>2 DEF Select, AfterUpdate, Refuses
  <2>3. CASE CreateCommit(t)
    BY <1>1, <2>0, <2>3 DEF CreateCommit
  <2>4. CASE Commit(t)
    BY <1>1, <2>0, <2>4 DEF Commit, AfterUpdate, Refuses
  <2>5. CASE Progress(t) \/ SetTotal(t) \/ Finish(t) \/ Raise(t)
    BY <1>1, <2>0, <2>5 DEF Progress, SetTotal, Finish, Raise
  <2>6. CASE SoftLimit(t)
    BY <1>1, <2>0, <2>6 DEF SoftLimit, Running, HarnessPoints
  <2>7. CASE Announce(t) \/ Ack(t) \/ DeliverRevoke(t)
    BY <1>1, <2>0, <2>7 DEF Announce, Ack, DeliverRevoke
  <2>8. CASE WorkerLost(t)
    BY <1>1, <2>0, <2>8 DEF WorkerLost, Running, HarnessPoints
  <2>9. QED
    BY <2>1, <2>2, <2>3, <2>4, <2>5, <2>6, <2>7, <2>8 DEF HarnessStep
<1>4. \A u \in Tasks \ {t} : ReadIsCurrent(u)' /\ StaysFinal(u)
  BY <1>1, <1>2 DEF FinalInv, ReadIsCurrent, Unraced, StaysFinal
<1>5. RacesAreKnown'
  BY <1>1 DEF FinalInv, RacesAreKnown
<1>6. InsertedFirst'
  <2>1. \A u \in Tasks : made'[u] = 0 => row'[u] = "absent" /\ pc'[u] = "none"
    BY <1>2, <1>3 DEF FinalInv, InsertedFirst
  <2>2. \A u \in Tasks : made[u] # 0 => made'[u] # 0
    BY <1>2, <1>3
  <2>3. ASSUME NEW d \in Dispatchers, disp[d].task # NoTask PROVE made'[disp[d].task] # 0
    <3>1. disp[d].task \in Tasks /\ made[disp[d].task] # 0
      BY <2>3, DispatcherTask DEF FinalInv, InsertedFirst
    <3> QED
      BY <2>2, <3>1
  <2> QED
    BY <1>1, <2>1, <2>3 DEF InsertedFirst
<1> QED
  BY <1>3, <1>4, <1>5, <1>6 DEF FinalInv

\* A dispatcher inserts a row that was never there, and ends only refused ones.
LEMMA DispatchFinal ==
  ASSUME TypeOK, FinalInv, NEW d \in Dispatchers,
         DispatchStep(d) \/ \E kind \in Kinds : Claim(d, kind)
  PROVE  FinalInv' /\ \A u \in Tasks : StaysFinal(u)
<1> DEFINE t == disp[d].task
           Rest == /\ \A e \in Dispatchers \ {d} : disp'[e] = disp[e]
                   /\ client' = client /\ revoked' = revoked
<1>1. /\ disp[d].pc \in {"idle", "claimed"} <=> t = NoTask
      /\ t # NoTask => t \in Tasks
      /\ \A e \in Dispatchers : disp[e].task # NoTask => disp[e].task \in Tasks
  BY DispatcherTask
<1>2. ASSUME Rest, UNCHANGED <<row, made>>, refused \subseteq refused',
             disp'[d].task \in {NoTask, t}, refused' \subseteq refused \cup {t},
             disp'[d].pc \in {"withdraw", "fail_select", "fail_commit"} => disp'[d].task \in refused',
             \A u \in Tasks : \/ pc'[u] = pc[u] /\ seen'[u] = seen[u] /\ goal'[u] = goal[u]
                              \/ pc'[u] = "queued" /\ u = t
      PROVE  FinalInv' /\ \A u \in Tasks : StaysFinal(u)
  <2>1. RacesAreKnown'
    BY <1>2 DEF FinalInv, RacesAreKnown
  <2>2. InsertedFirst'
    BY <1>1, <1>2, TaskConstants DEF FinalInv, InsertedFirst
  <2>3. \A u \in Tasks : ReadIsCurrent(u)' /\ StaysFinal(u)
    BY <1>2 DEF FinalInv, ReadIsCurrent, Unraced, StaysFinal
  <2> QED
    BY <2>1, <2>2, <2>3 DEF FinalInv
<1>3. ASSUME NEW kind \in Kinds, Claim(d, kind)
      PROVE  FinalInv' /\ \A u \in Tasks : StaysFinal(u)
  BY <1>2, <1>3 DEF Claim, rowVars, runVars, TypeOK
<1>4. CASE DispatchSent(d)
  BY <1>1, <1>2, <1>4 DEF DispatchSent, LeaveHarness, rowVars, IdleDispatcher, TypeOK
<1>5. CASE DispatchRefused(d)
  <2>1. disp'[d].task = t /\ Rest /\ UNCHANGED <<row, made>> /\ refused' = refused \cup {t}
    BY <1>5 DEF DispatchRefused, rowVars, TypeOK
  <2>2. \A u \in Tasks : \/ pc'[u] = pc[u] /\ seen'[u] = seen[u] /\ goal'[u] = goal[u]
                         \/ pc'[u] = "queued" /\ u = t
    BY <1>5 DEF DispatchRefused, LeaveHarness, runVars, TypeOK
  <2> QED
    BY <1>2, <2>1, <2>2
<1>6. CASE FailSelect(d)
  <2>1. disp'[d] = IdleDispatcher \/ disp'[d] = [disp[d] EXCEPT !.pc = "fail_commit"]
    BY <1>6 DEF FailSelect, TypeOK
  <2>2. disp'[d].task \in {NoTask, t} /\ t \in refused
        /\ (disp'[d].task = NoTask => disp'[d].pc = "idle" \/ t = NoTask)
    BY <1>6, <2>1 DEF FailSelect, IdleDispatcher, FinalInv, RacesAreKnown
  <2>3. t # NoTask
    BY <1>1, <1>6 DEF FailSelect
  <2> QED
    BY <1>2, <1>6, <2>2, <2>3 DEF FailSelect, rowVars, runVars, TypeOK
<1>7. ASSUME NEW u \in Tasks, Insert(d, u)
      PROVE  FinalInv' /\ \A v \in Tasks : StaysFinal(v)
  <2>1. /\ made[u] = 0 /\ row[u] = "absent" /\ pc[u] = "none"
        /\ row' = [row EXCEPT ![u] = "pending"] /\ made'[u] # 0 /\ Rest
        /\ \A v \in Tasks \ {u} : made'[v] = made[v] /\ row'[v] = row[v]
        /\ disp'[d].task = u /\ disp'[d].pc = "dispatch" /\ refused' = refused
        /\ UNCHANGED runVars
    BY <1>7 DEF Insert, InsertRow, FinalInv, InsertedFirst, TypeOK
  <2>2. RacesAreKnown'
    BY <2>1 DEF FinalInv, RacesAreKnown
  <2>3. InsertedFirst'
    BY <1>1, <2>1 DEF FinalInv, InsertedFirst, runVars
  <2>4. \A v \in Tasks : ReadIsCurrent(v)' /\ StaysFinal(v)
    BY <2>1 DEF FinalInv, ReadIsCurrent, Unraced, StaysFinal, runVars, TERMINAL_TASK_STATUSES
  <2> QED
    BY <2>2, <2>3, <2>4 DEF FinalInv
<1>8. CASE Withdraw(d) \/ FailCommit(d)
  <2>1. t \in Tasks /\ t \in refused
    BY <1>1, <1>8 DEF Withdraw, FailCommit, FinalInv, RacesAreKnown
  <2>2. /\ \A u \in Tasks \ {t} : row'[u] = row[u]
        /\ UNCHANGED made /\ UNCHANGED runVars /\ Rest /\ refused' = refused
        /\ disp'[d] = IdleDispatcher
    BY <1>8 DEF Withdraw, FailCommit, SetRow, rowVars, TypeOK
  <2>3. made[t] # 0
    BY <1>1, <1>8 DEF Withdraw, FailCommit, FinalInv, InsertedFirst
  <2>4. RacesAreKnown'
    BY <2>2 DEF FinalInv, RacesAreKnown, IdleDispatcher
  <2>5. InsertedFirst'
    BY <1>1, <2>2, <2>3 DEF FinalInv, InsertedFirst, runVars, IdleDispatcher
  <2>6. \A u \in Tasks : ReadIsCurrent(u)' /\ StaysFinal(u)
    BY <2>1, <2>2 DEF FinalInv, ReadIsCurrent, Unraced, StaysFinal, runVars
  <2> QED
    BY <2>4, <2>5, <2>6 DEF FinalInv
<1> QED
  BY <1>3, <1>4, <1>5, <1>6, <1>7, <1>8 DEF DispatchStep

\* A cancel revokes before it writes, and a delete leaves no row.
LEMMA ClientFinal ==
  ASSUME TypeOK, FinalInv, NEW c \in Clients,
         ClientStep(c) \/ \E t \in Tasks : CancelRead(c, t) \/ DeleteRead(c, t)
  PROVE  FinalInv' /\ \A u \in Tasks : StaysFinal(u)
<1>1. /\ UNCHANGED <<pc, seen, goal, disp, made, refused>> /\ revoked \subseteq revoked'
      /\ \A e \in Clients \ {c} : client'[e] = client[e]
  BY DEF ClientStep, CancelRead, DeleteRead, CancelCommit, CancelTell, DeleteCommit, runVars,
         rowVars, SetRow, TypeOK
<1>2. client'[c].op \in {"cancel", "tell"} => client'[c].task \in revoked'
  <2>1. ASSUME NEW t \in Tasks, CancelRead(c, t) \/ DeleteRead(c, t)
        PROVE  client'[c].op \in {"cancel", "tell"} => client'[c].task \in revoked'
    BY <2>1 DEF CancelRead, DeleteRead, TypeOK
  <2>2. CASE CancelCommit(c)
    <3>1. client'[c] = IdleClient \/ client'[c] = [client[c] EXCEPT !.op = "tell"]
      BY <2>2 DEF CancelCommit, TypeOK
    <3>2. client[c].task \in revoked /\ revoked' = revoked
      BY <2>2 DEF CancelCommit, FinalInv, RacesAreKnown
    <3>3. client[c] \in [op : {"cancel", "tell", "delete"}, task : Tasks, made : Nat]
      BY <2>2 DEF CancelCommit, TypeOK, ClientState, IdleClient
    <3> QED
      BY <3>1, <3>2, <3>3 DEF IdleClient
  <2>3. CASE CancelTell(c) \/ DeleteCommit(c)
    BY <2>3 DEF CancelTell, DeleteCommit, TypeOK, IdleClient
  <2> QED
    BY <2>1, <2>2, <2>3 DEF ClientStep
<1>3. \A u \in Tasks : row'[u] \in {row[u], "absent"} \/ u \in revoked
  <2>1. CASE CancelCommit(c)
    BY <2>1 DEF CancelCommit, SetRow, rowVars, TypeOK, FinalInv, RacesAreKnown
  <2>2. CASE ~CancelCommit(c)
    BY <2>2 DEF ClientStep, CancelRead, DeleteRead, CancelTell, DeleteCommit, SetRow, rowVars, TypeOK
  <2> QED
    BY <2>1, <2>2
<1>4. RacesAreKnown'
  BY <1>1, <1>2 DEF FinalInv, RacesAreKnown
<1>5. InsertedFirst'
  <2>1. \A u \in Tasks : made[u] = 0 => row'[u] = "absent"
    <3>1. CASE CancelCommit(c) \/ DeleteCommit(c)
      BY <3>1 DEF CancelCommit, DeleteCommit, StillThere, SetRow, rowVars, TypeOK, FinalInv,
                  InsertedFirst
    <3>2. CASE ~CancelCommit(c) /\ ~DeleteCommit(c)
      BY <3>2 DEF ClientStep, CancelRead, DeleteRead, CancelTell, rowVars, FinalInv, InsertedFirst
    <3> QED
      BY <3>1, <3>2
  <2> QED
    BY <1>1, <2>1 DEF FinalInv, InsertedFirst
<1>6. \A u \in Tasks : ReadIsCurrent(u)' /\ StaysFinal(u)
  BY <1>1, <1>3 DEF FinalInv, ReadIsCurrent, Unraced, StaysFinal
<1> QED
  BY <1>4, <1>5, <1>6 DEF FinalInv

\* Every step keeps the invariant and the endings.
LEMMA NextFinal ==
  TypeOK /\ FinalInv /\ [Next]_vars => FinalInv' /\ \A t \in Tasks : StaysFinal(t)
<1> SUFFICES ASSUME TypeOK, FinalInv, [Next]_vars
             PROVE  FinalInv' /\ \A t \in Tasks : StaysFinal(t)
  OBVIOUS
<1>1. CASE Next
  BY <1>1, DispatchFinal, HarnessFinal, ClientFinal DEF Next
<1>2. CASE UNCHANGED vars
  BY <1>2 DEF vars, FinalInv, RacesAreKnown, InsertedFirst, ReadIsCurrent, Unraced, StaysFinal
<1> QED
  BY <1>1, <1>2

\* For any number of tasks, users, dispatchers and lost workers: a COMPLETED, FAILED or
\* CANCELLED row keeps its status or is deleted, unless a cancel was requested for the
\* task or its dispatch was refused (services/progress.py update_task_status).
THEOREM EndingsAreFinal == Spec => FinalUnlessRaced
<1> DEFINE Final == \A t \in Tasks :
                      (row[t] \in TERMINAL_TASK_STATUSES /\ row'[t] \notin {row[t], "absent"})
                        => t \in revoked \cup refused
<1>1. TypeOK /\ FinalInv /\ [Next]_vars => [Final]_vars
  BY NextFinal DEF StaysFinal
<1>2. TypeOK /\ FinalInv /\ [Next]_vars => FinalInv'
  BY NextFinal
<1>3. [][Final]_vars => FinalUnlessRaced
  BY DEF FinalUnlessRaced
<1> QED
  BY <1>1, <1>2, <1>3, InitFinal, TypeCorrect, PTL DEF Spec

-----------------------------------------------------------------------------
(* Without user requests and lost broker replies the machinery implements the *)
(* board: endings are final, announced truthfully, and never reworked.        *)

\* No request of a user, and apply_async raises only when nothing was sent.
Undisturbed == Clients = {} /\ ~LostReplies

\* The single-execution invariant holds before any dispatch.
LEMMA InitUndisturbed == Init => UndisturbedInv
  BY TaskConstants
     DEF Init, UndisturbedInv, OneWriter, ReadsAreFresh, IdleDispatcher, Active,
         ACTIVE_TASK_STATUSES, TERMINAL_TASK_STATUSES

\* What UndisturbedInv says of one task.
TaskFresh(t) ==
  /\ row[t] # "cancelled" /\ goal[t] # "cancelled"
  /\ t \in settled <=> row[t] \in TERMINAL_TASK_STATUSES
  /\ pc[t] \in {"creating", "commit"} => seen[t] = row[t]
  /\ pc[t] \in {"creating", "refresh", "work"} => Active(t)
  /\ pc[t] \in {"select", "commit"} /\ goal[t] = "running" => Active(t)
  /\ pc[t] = "commit" => Active(t) \/ row[t] = goal[t]
  /\ pc[t] = "announce" => /\ row[t] \in TERMINAL_TASK_STATUSES
                           /\ goal[t] = "completed" => row[t] = "completed"
  /\ made[t] = 0 => row[t] = "absent" /\ pc[t] = "none"
  /\ pc[t] # "none" => row[t] # "absent"

\* A harness step with fresh reads keeps its task's part of the invariant.
LEMMA HarnessFresh ==
  ASSUME TypeOK, UndisturbedInv, NEW t \in Tasks,
         HarnessStep(t) \/ SoftLimit(t) \/ WorkerLost(t)
  PROVE  /\ TaskFresh(t)'
         /\ UNCHANGED <<disp, revoked>>
         /\ pc[t] # "none"
         /\ \A u \in Tasks \ {t} :
              /\ row'[u] = row[u] /\ made'[u] = made[u]
              /\ pc'[u] = pc[u] /\ seen'[u] = seen[u] /\ goal'[u] = goal[u]
              /\ u \in settled' <=> u \in settled
<1> USE DEF TypeOK, GoTo, ReadRow, LeaveHarness, CallUpdate, SetRow, InsertRow,
            rowVars, Active, ACTIVE_TASK_STATUSES, TERMINAL_TASK_STATUSES
<1>1. TaskFresh(t) /\ pc[t] \in HarnessPoints \cup {"none", "queued"}
  BY DEF UndisturbedInv, OneWriter, ReadsAreFresh, TaskFresh
<1> USE DEF TaskFresh
<1>2. CASE Receive(t)
  BY <1>1, <1>2 DEF Receive
<1>3. CASE CreateSelect(t)
  BY <1>1, <1>3 DEF CreateSelect, RowState, Status
<1>4. CASE CreateCommit(t)
  BY <1>1, <1>4 DEF CreateCommit
<1>5. CASE Refresh(t)
  BY <1>1, <1>5 DEF Refresh
<1>6. CASE Select(t)
  BY <1>1, <1>6 DEF Select, AfterUpdate, Refuses, RowState, Status
<1>7. CASE Commit(t)
  BY <1>1, <1>7 DEF Commit, AfterUpdate, Status
<1>8. CASE Progress(t) \/ SetTotal(t) \/ Finish(t) \/ Raise(t)
  BY <1>1, <1>8 DEF Progress, SetTotal, Finish, Raise
<1>9. CASE SoftLimit(t)
  BY <1>1, <1>9 DEF SoftLimit, Running, HarnessPoints
<1>10. CASE Announce(t) \/ Ack(t)
  BY <1>1, <1>10 DEF Announce, Ack
<1>11. CASE WorkerLost(t)
  BY <1>1, <1>11 DEF WorkerLost, Running, HarnessPoints
<1>12. QED
  BY <1>2, <1>3, <1>4, <1>5, <1>6, <1>7, <1>8, <1>9, <1>10, <1>11 DEF HarnessStep

\* The steps of a harness keep the single-execution invariant.
LEMMA HarnessUndisturbed ==
  ASSUME TypeOK, UndisturbedInv, NEW t \in Tasks,
         HarnessStep(t) \/ SoftLimit(t) \/ WorkerLost(t)
  PROVE  UndisturbedInv'
<1>1. TaskFresh(t)'
  BY HarnessFresh
<1>2. UNCHANGED <<disp, revoked>> /\ pc[t] # "none"
  BY HarnessFresh
<1>3. \A u \in Tasks \ {t} :
        /\ row'[u] = row[u] /\ made'[u] = made[u]
        /\ pc'[u] = pc[u] /\ seen'[u] = seen[u] /\ goal'[u] = goal[u]
        /\ u \in settled' <=> u \in settled
  BY HarnessFresh
<1>4. \A d \in Dispatchers : disp[d].task # t
  BY <1>2 DEF UndisturbedInv, OneWriter
<1>5. OneWriter'
  BY <1>1, <1>2, <1>3, <1>4 DEF UndisturbedInv, OneWriter, TaskFresh
<1>6. ReadsAreFresh'
  BY <1>1, <1>2, <1>3 DEF UndisturbedInv, ReadsAreFresh, TaskFresh, Active
<1>7. QED
  BY <1>5, <1>6 DEF UndisturbedInv

\* A dispatcher writes only the row it has inserted, before the job exists.
LEMMA DispatchUndisturbed ==
  ASSUME Undisturbed, TypeOK, UndisturbedInv, NEW d \in Dispatchers,
         DispatchStep(d) \/ \E kind \in Kinds : Claim(d, kind)
  PROVE  UndisturbedInv'
<1> USE DEF TypeOK, Active, OneWriter, ReadsAreFresh, UndisturbedInv, IdleDispatcher,
            ACTIVE_TASK_STATUSES, TERMINAL_TASK_STATUSES
<1>1. /\ disp[d].pc \in {"idle", "claimed"} <=> disp[d].task = NoTask
      /\ disp[d].task # NoTask => disp[d].task \in Tasks
      /\ NoTask \notin Tasks
  BY DispatcherTask, TaskConstants
<1>2. ASSUME NEW kind \in Kinds, Claim(d, kind)
      PROVE  UndisturbedInv'
  BY <1>1, <1>2 DEF Claim, rowVars, runVars
<1>3. ASSUME NEW t \in Tasks, Insert(d, t)
      PROVE  UndisturbedInv'
  <2>1. \A e \in Dispatchers : disp[e].task # t
    BY <1>3 DEF Insert
  <2>2. OneWriter'
    BY <1>1, <1>3, <2>1 DEF Insert, InsertRow, runVars
  <2>3. ReadsAreFresh'
    BY <1>1, <1>3 DEF Insert, InsertRow, runVars
  <2> QED
    BY <2>2, <2>3
<1>4. CASE DispatchSent(d)
  BY <1>1, <1>4 DEF DispatchSent, LeaveHarness, rowVars
<1>5. CASE DispatchRefused(d)
  <2>1. UNCHANGED <<row, made, settled, pc, seen, goal, revoked>>
    BY <1>5 DEF DispatchRefused, Undisturbed, rowVars, runVars
  <2>2. disp'[d].task = disp[d].task /\ \A e \in Dispatchers \ {d} : disp'[e] = disp[e]
    BY <1>5 DEF DispatchRefused
  <2> QED
    BY <2>1, <2>2
<1>6. CASE Withdraw(d)
  BY <1>1, <1>6 DEF Withdraw, SetRow, runVars
<1>7. CASE FailSelect(d)
  BY <1>1, <1>7 DEF FailSelect, rowVars, runVars
<1>8. CASE FailCommit(d)
  BY <1>1, <1>8 DEF FailCommit, SetRow, runVars
<1>9. QED
  BY <1>2, <1>3, <1>4, <1>5, <1>6, <1>7, <1>8 DEF DispatchStep

\* Every step keeps the single-execution invariant.
LEMMA NextUndisturbed ==
  ASSUME Undisturbed, TypeOK, UndisturbedInv, [Next]_vars
  PROVE  UndisturbedInv'
<1>1. CASE Next
  <2>1. Clients = {} /\ revoked = {}
    BY DEF Undisturbed, UndisturbedInv, ReadsAreFresh
  <2> QED
    BY <1>1, <2>1, DispatchUndisturbed, HarnessUndisturbed DEF Next, DeliverRevoke
<1>2. CASE UNCHANGED vars
  BY <1>2 DEF vars, UndisturbedInv, OneWriter, ReadsAreFresh, Active
<1>3. QED
  BY <1>1, <1>2

\* However often messages are redelivered, a task that has once ended is never
\* worked on again, when no user cancels or deletes it.
THEOREM SettledIsOver ==
  ASSUME Undisturbed
  PROVE  Spec => []SettledWorkIsOver
<1>1. UndisturbedInv => SettledWorkIsOver
  BY DEF UndisturbedInv, ReadsAreFresh, SettledWorkIsOver, Working, Active,
         ACTIVE_TASK_STATUSES, TERMINAL_TASK_STATUSES
<1>2. TypeOK /\ UndisturbedInv /\ [Next]_vars => UndisturbedInv'
  BY NextUndisturbed
<1>3. QED
  BY <1>1, <1>2, InitUndisturbed, TypeCorrect, PTL DEF Spec

-----------------------------------------------------------------------------
(* The refinement of the board. *)

Face(t) == IF Active(t) THEN "active" ELSE row[t]
boardVars == <<[t \in Tasks |-> Face(t)], told>>

\* A step that leaves one row different is a step of the board on that task.
LEMMA BoardMove ==
  ASSUME NEW t \in Tasks,
         \A u \in Tasks \ {t} : row'[u] = row[u],
         UNCHANGED told,
         \/ Face(t)' = Face(t)
         \/ Face(t) = "absent" /\ Face(t)' = "active"
         \/ Face(t) = "active" /\ Face(t)' \in {"absent", "completed", "failed"}
  PROVE  Board!Next \/ UNCHANGED boardVars
<1>1. \A u \in Tasks \ {t} : Face(u)' = Face(u)
  BY DEF Face, Active
<1>2. DEFINE b == [u \in Tasks |-> Face(u)]
<1>3. b' = [b EXCEPT ![t] = Face(t)']
  BY <1>1
<1>4. CASE Face(t)' = Face(t)
  BY <1>3, <1>4 DEF boardVars
<1>5. CASE Face(t) = "absent" /\ Face(t)' = "active"
  BY <1>3, <1>5 DEF Board!Next, Board!Accept, Face
<1>6. CASE Face(t) = "active" /\ Face(t)' = "absent"
  BY <1>3, <1>6 DEF Board!Next, Board!WithdrawTask, Face
<1>7. CASE Face(t) = "active" /\ Face(t)' \in {"completed", "failed"}
  BY <1>3, <1>7 DEF Board!Next, Board!Settle, Board!Endings, Face
<1>8. QED
  BY <1>4, <1>5, <1>6, <1>7

\* A harness step is the end of its task, the news of it, or nothing.
LEMMA HarnessBoard ==
  ASSUME TypeOK, UndisturbedInv, NEW t \in Tasks,
         HarnessStep(t) \/ SoftLimit(t) \/ WorkerLost(t)
  PROVE  Board!Next \/ UNCHANGED boardVars
<1>1. \A u \in Tasks \ {t} : row'[u] = row[u]
  BY HarnessFresh
<1>2. TaskFresh(t) /\ TaskFresh(t)' /\ pc[t] # "none"
  BY HarnessFresh DEF UndisturbedInv, OneWriter, ReadsAreFresh, TaskFresh
<1>3. CASE Announce(t)
  <2>1. UNCHANGED row /\ told' = [told EXCEPT ![t] = @ \cup
          {CASE goal[t] = "completed" -> "complete"
             [] goal[t] = "failed" -> "error"
             [] goal[t] = "cancelled" -> "cancelled"}]
    BY <1>3 DEF Announce, rowVars
  <2>2. goal[t] \in {"completed", "failed"}
    BY <1>2, <1>3
       DEF Announce, TypeOK, TaskFresh, Status, ACTIVE_TASK_STATUSES,
           TERMINAL_TASK_STATUSES
  <2>3. Face(t) \in {"completed", "failed"} /\ (goal[t] = "completed" => Face(t) = "completed")
    BY <1>2, <1>3
       DEF Announce, TaskFresh, Face, Active, ACTIVE_TASK_STATUSES,
           TERMINAL_TASK_STATUSES
  <2>4. PICK event \in {"complete", "error"} :
          /\ told' = [told EXCEPT ![t] = @ \cup {event}]
          /\ event = "complete" => Face(t) = "completed"
    BY <2>1, <2>2, <2>3
  <2> QED
    BY <2>1, <2>3, <2>4
       DEF Board!Next, Board!AnnounceEnd, Board!Endings, Face, Active
<1>4. ASSUME ~Announce(t)
      PROVE  UNCHANGED told
  BY <1>4 DEF HarnessStep, Receive, CreateSelect, CreateCommit, Refresh, Select, Commit,
              Progress, SetTotal, Finish, Raise, Ack, SoftLimit, WorkerLost
<1>5. ASSUME ~Announce(t)
      PROVE  \/ Face(t)' = Face(t)
             \/ Face(t) = "absent" /\ Face(t)' = "active"
             \/ Face(t) = "active" /\ Face(t)' \in {"absent", "completed", "failed"}
  <2> USE DEF TypeOK, Face, Active, SetRow, InsertRow, rowVars,
              ACTIVE_TASK_STATUSES, TERMINAL_TASK_STATUSES, TaskFresh
  <2>1. CASE CreateCommit(t)
    BY <1>2, <2>1 DEF CreateCommit
  <2>2. CASE Commit(t)
    BY <1>2, <2>2 DEF Commit, Status
  <2>3. CASE UNCHANGED row
    BY <2>3
  <2> QED
    BY <1>5, <2>1, <2>2, <2>3
       DEF HarnessStep, Receive, CreateSelect, Refresh, Select, Progress, SetTotal,
           Finish, Raise, Ack, SoftLimit, WorkerLost
<1>6. QED
  BY <1>1, <1>3, <1>4, <1>5, BoardMove

\* A dispatcher step accepts, withdraws or fails its task, or is not seen.
LEMMA DispatchBoard ==
  ASSUME TypeOK, UndisturbedInv, NEW d \in Dispatchers,
         DispatchStep(d) \/ \E kind \in Kinds : Claim(d, kind)
  PROVE  Board!Next \/ UNCHANGED boardVars
<1> USE DEF TypeOK, Face, Active, ACTIVE_TASK_STATUSES, TERMINAL_TASK_STATUSES
<1>1. /\ disp[d].pc \in {"idle", "claimed"} <=> disp[d].task = NoTask
      /\ disp[d].task # NoTask => disp[d].task \in Tasks
      /\ NoTask \notin Tasks
  BY DispatcherTask, TaskConstants
<1>2. \A t \in Tasks : disp[d].task = t => row[t] = "pending"
  BY DEF UndisturbedInv, OneWriter
<1>3. UNCHANGED told
  BY DEF DispatchStep, Insert, DispatchSent, DispatchRefused, Withdraw, FailSelect,
         FailCommit, Claim
<1>4. ASSUME NEW t \in Tasks, Insert(d, t)
      PROVE  Board!Next \/ UNCHANGED boardVars
  <2>1. row[t] = "absent"
    BY <1>4 DEF Insert, UndisturbedInv, OneWriter
  <2> QED
    BY <1>3, <1>4, <2>1, BoardMove DEF Insert, InsertRow
<1>5. CASE Withdraw(d)
  BY <1>1, <1>2, <1>3, <1>5, BoardMove DEF Withdraw, SetRow
<1>6. CASE FailCommit(d)
  BY <1>1, <1>2, <1>3, <1>6, BoardMove DEF FailCommit, SetRow, rowVars
<1>7. CASE UNCHANGED row
  BY <1>3, <1>7 DEF boardVars
<1>8. QED
  BY <1>4, <1>5, <1>6, <1>7
     DEF DispatchStep, DispatchSent, DispatchRefused, FailSelect, Claim, rowVars

\* Without user requests, and with a broker that never fails after it has taken
\* the message, the dispatchers and the harness implement the task board: a
\* task ends once, keeps its ending through every redelivery, and "complete" is
\* announced only of a completed task.
THEOREM ImplementsBoard ==
  ASSUME Undisturbed
  PROVE  Spec => BoardSpec
<1>1. Init => Board!Init
  BY DEF Init, Board!Init, Active, ACTIVE_TASK_STATUSES
<1>2. TypeOK /\ UndisturbedInv /\ [Next]_vars => [Board!Next]_boardVars
  <2> SUFFICES ASSUME TypeOK, UndisturbedInv, [Next]_vars
               PROVE  Board!Next \/ UNCHANGED boardVars
    OBVIOUS
  <2>1. CASE Next
    <3>1. Clients = {} /\ revoked = {}
      BY DEF Undisturbed, UndisturbedInv, ReadsAreFresh
    <3> QED
      BY <2>1, <3>1, DispatchBoard, HarnessBoard DEF Next, DeliverRevoke
  <2>2. CASE UNCHANGED vars
    BY <2>2 DEF vars, boardVars, Face, Active
  <2> QED
    BY <2>1, <2>2
<1>3. TypeOK /\ UndisturbedInv /\ [Next]_vars => UndisturbedInv'
  BY NextUndisturbed
<1>4. QED
  BY <1>1, <1>2, <1>3, InitUndisturbed, TypeCorrect, PTL
     DEF Spec, BoardSpec, Board!Spec, boardVars, Face

-----------------------------------------------------------------------------
(* The overlap guard, for a single dispatcher at a time. *)

OneDispatcher == \A d1, d2 \in Dispatchers : d1 = d2
Guarded == "trigger" \notin Kinds

\* The check of a claim still holds when its row is inserted.
OverlapInv ==
  /\ \A d \in Dispatchers : disp[d].pc = "claimed" => \A t \in Tasks : ~Active(t)
  /\ \A t1, t2 \in Tasks : Active(t1) /\ Active(t2) => t1 = t2

\* Every step keeps the runs of one task type apart.
LEMMA NextOverlap ==
  ASSUME Undisturbed, OneDispatcher, Guarded,
         TypeOK, UndisturbedInv, OverlapInv, [Next]_vars
  PROVE  OverlapInv'
<1> USE DEF TypeOK, OverlapInv, OneDispatcher
<1>1. ASSUME NEW t \in Tasks, HarnessStep(t) \/ SoftLimit(t) \/ WorkerLost(t)
      PROVE  OverlapInv'
  <2>1. UNCHANGED disp /\ \A u \in Tasks \ {t} : row'[u] = row[u]
    BY <1>1, HarnessFresh
  <2>2. Active(t)' => Active(t)
    <3>1. pc[t] # "none" /\ TaskFresh(t)
      BY <1>1, HarnessFresh DEF UndisturbedInv, OneWriter, ReadsAreFresh, TaskFresh
    <3> USE DEF SetRow, InsertRow, rowVars, Active, ACTIVE_TASK_STATUSES, TaskFresh
    <3>2. CASE CreateCommit(t)
      BY <3>1, <3>2 DEF CreateCommit
    <3>3. CASE Commit(t)
      BY <3>1, <3>3 DEF Commit
    <3>4. CASE UNCHANGED row
      BY <3>4
    <3> QED
      BY <1>1, <3>2, <3>3, <3>4
         DEF HarnessStep, Receive, CreateSelect, Refresh, Select, Progress, SetTotal,
             Finish, Raise, Announce, Ack, SoftLimit, WorkerLost
  <2>3. \A u \in Tasks : Active(u)' => Active(u)
    BY <2>1, <2>2 DEF Active
  <2> QED
    BY <2>1, <2>3
<1>2. ASSUME NEW d \in Dispatchers, NEW kind \in Kinds, Claim(d, kind)
      PROVE  OverlapInv'
  <2>1. kind \in {"reuse", "beat"}
    BY TaskConstants DEF Guarded
  <2> QED
    BY <1>2, <2>1 DEF Claim, ActiveTaskExists, rowVars, Active
<1>3. ASSUME NEW d \in Dispatchers, DispatchStep(d)
      PROVE  OverlapInv'
  <2> USE DEF Active, ACTIVE_TASK_STATUSES, IdleDispatcher
  <2>1. ASSUME NEW t \in Tasks, Insert(d, t)
        PROVE  OverlapInv'
    BY <2>1 DEF Insert, InsertRow
  <2>2. CASE DispatchSent(d)
    BY <2>2 DEF DispatchSent, rowVars
  <2>3. CASE DispatchRefused(d) \/ FailSelect(d)
    <3>1. CASE DispatchRefused(d)
      BY <3>1 DEF DispatchRefused, rowVars
    <3>2. CASE FailSelect(d)
      <4>1. CASE Active(disp[d].task)
        <5>1. UNCHANGED row /\ disp'[d].pc = "fail_commit"
          BY <3>2, <4>1, DispatcherTask DEF FailSelect, rowVars
        <5> QED
          BY <5>1
      <4>2. CASE ~Active(disp[d].task)
        BY <3>2, <4>2 DEF FailSelect, rowVars
      <4> QED
        BY <4>1, <4>2
    <3> QED
      BY <2>3, <3>1, <3>2
  <2>4. CASE Withdraw(d) \/ FailCommit(d)
    BY <2>4, DispatcherTask DEF Withdraw, FailCommit, SetRow, rowVars
  <2> QED
    BY <1>3, <2>1, <2>2, <2>3, <2>4 DEF DispatchStep
<1>4. CASE UNCHANGED vars
  BY <1>4 DEF vars, Active
<1>5. CASE Next
  <2>1. Clients = {} /\ revoked = {}
    BY DEF Undisturbed, UndisturbedInv, ReadsAreFresh
  <2> QED
    BY <1>1, <1>2, <1>3, <1>5, <2>1 DEF Next, DeliverRevoke
<1>6. QED
  BY <1>4, <1>5

\* With one dispatch at a time, through the overlap guard only, two runs of a
\* task type never work at the same time, however often they are redelivered.
THEOREM RunsDoNotOverlap ==
  ASSUME Undisturbed, OneDispatcher, Guarded
  PROVE  Spec => []AtMostOneRunWorking
<1>1. Init => OverlapInv
  BY DEF Init, OverlapInv, IdleDispatcher, Active, ACTIVE_TASK_STATUSES
<1>2. UndisturbedInv /\ OverlapInv => AtMostOneRunWorking
  BY DEF UndisturbedInv, ReadsAreFresh, OverlapInv, AtMostOneRunWorking, Working
<1>3. TypeOK /\ UndisturbedInv /\ OverlapInv /\ [Next]_vars => OverlapInv'
  BY NextOverlap
<1>4. TypeOK /\ UndisturbedInv /\ [Next]_vars => UndisturbedInv'
  BY NextUndisturbed
<1>5. QED
  BY <1>1, <1>2, <1>3, <1>4, InitUndisturbed, TypeCorrect, PTL DEF Spec

=============================================================================
