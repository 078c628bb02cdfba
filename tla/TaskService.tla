---------------------------- MODULE TaskService ----------------------------
(***************************************************************************)
(* What an executor service promises to the owner of a task                *)
(* (include/core/ipc/IExecutor.h, ITask.h): a submitted task is run once,  *)
(* tasks run one at a time in the order of submission, the exit code of a  *)
(* completed task stays put until its owner resets the task, and the       *)
(* service is down only when nothing is submitted or running.              *)
(***************************************************************************)
EXTENDS Naturals, Sequences

CONSTANTS
  Tasks,      (* the tasks that may be submitted                           *)
  Codes,      (* what run() may return                                     *)
  NoCode      (* the code of a task that is not completed                  *)

VARIABLES
  state,      (* state[t]: "idle", "submitted", "running", "completed"     *)
  code,       (* code[t]: what the last run returned, while completed      *)
  order,      (* accepted tasks that did not start, oldest first           *)
  phase       (* "open", "closed" (nothing is accepted), "down"            *)

vars == <<state, code, order, phase>>

Init ==
  /\ state = [t \in Tasks |-> "idle"]
  /\ code  = [t \in Tasks |-> NoCode]
  /\ order = <<>>
  /\ phase = "open"

Accept(t) ==
  /\ phase = "open"
  /\ state[t] = "idle"
  /\ state' = [state EXCEPT ![t] = "submitted"]
  /\ order' = Append(order, t)
  /\ UNCHANGED <<code, phase>>

Start(t) ==
  /\ order # <<>>
  /\ t = Head(order)
  /\ \A u \in Tasks : state[u] # "running"
  /\ state' = [state EXCEPT ![t] = "running"]
  /\ order' = Tail(order)
  /\ UNCHANGED <<code, phase>>

Complete(t) ==
  /\ state[t] = "running"
  /\ state' = [state EXCEPT ![t] = "completed"]
  /\ \E c \in Codes : code' = [code EXCEPT ![t] = c]
  /\ UNCHANGED <<order, phase>>

Reset(t) ==
  /\ state[t] = "completed"
  /\ state' = [state EXCEPT ![t] = "idle"]
  /\ code'  = [code EXCEPT ![t] = NoCode]
  /\ UNCHANGED <<order, phase>>

Close ==
  /\ phase = "open"
  /\ phase' = "closed"
  /\ UNCHANGED <<state, code, order>>

Down ==
  /\ phase = "closed"
  /\ order = <<>>
  /\ \A t \in Tasks : state[t] \notin {"submitted", "running"}
  /\ phase' = "down"
  /\ UNCHANGED <<state, code, order>>

Next ==
  \/ \E t \in Tasks : Accept(t) \/ Start(t) \/ Complete(t) \/ Reset(t)
  \/ Close
  \/ Down

Spec == Init /\ [][Next]_vars
=============================================================================
