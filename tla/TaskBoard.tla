------------------------------ MODULE TaskBoard ------------------------------
(***************************************************************************)
(* What the task list promises its reader: a task appears, ends once, in   *)
(* one way, and keeps that ending; a task that could not be handed to the  *)
(* broker by beat disappears again; "complete" is announced only for a     *)
(* task that ended completed, "error" only for one that has ended.  How    *)
(* often the work behind a task is started is not visible here.            *)
(***************************************************************************)

CONSTANT Tasks

VARIABLES
  board,  \* what the list shows of each task
  news    \* the final events announced for it

Endings == {"completed", "failed"}
Faces == {"absent", "active"} \cup Endings

BoardTypeOK ==
  /\ board \in [Tasks -> Faces]
  /\ news \in [Tasks -> SUBSET {"complete", "error"}]

Init ==
  /\ board = [t \in Tasks |-> "absent"]
  /\ news = [t \in Tasks |-> {}]

Accept(t) ==
  /\ board[t] = "absent"
  /\ board' = [board EXCEPT ![t] = "active"]
  /\ UNCHANGED news

WithdrawTask(t) ==
  /\ board[t] = "active"
  /\ board' = [board EXCEPT ![t] = "absent"]
  /\ UNCHANGED news

Settle(t, ending) ==
  /\ board[t] = "active"
  /\ board' = [board EXCEPT ![t] = ending]
  /\ UNCHANGED news

AnnounceEnd(t, event) ==
  /\ board[t] \in Endings
  /\ event = "complete" => board[t] = "completed"
  /\ news' = [news EXCEPT ![t] = @ \cup {event}]
  /\ UNCHANGED board

Next ==
  \E t \in Tasks :
    \/ Accept(t)
    \/ WithdrawTask(t)
    \/ \E ending \in Endings : Settle(t, ending)
    \/ \E event \in {"complete", "error"} : AnnounceEnd(t, event)

Spec == Init /\ [][Next]_<<board, news>>

=============================================================================
