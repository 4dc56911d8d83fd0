------------------------------ MODULE TaskGraph ------------------------------
(***************************************************************************)
(* What the worker's DAG engine promises of one run, whatever it does      *)
(* inside: a task starts only when every task it depends on has finished,  *)
(* a run is reported complete only when all its tasks have finished, and a *)
(* run that has been closed starts nothing more.  Tasks that were already  *)
(* under way when a run is stopped may still end on their own.             *)
(***************************************************************************)
CONSTANTS
  Task,     \* the tasks of the graph
  Deps      \* Deps[t]: the tasks that t depends on

VARIABLES
  state,    \* state[t]: how far task t is
  outcome   \* how the run ended, "open" while it has not

vars == <<state, outcome>>

TaskState == {"waiting", "running", "finished", "broken"}

Init ==
  /\ state = [t \in Task |-> "waiting"]
  /\ outcome = "open"

Ready(t) ==
  /\ state[t] = "waiting"
  /\ \A d \in Deps[t] : state[d] = "finished"

\* Some tasks that are ready start, together.
Start ==
  /\ outcome = "open"
  /\ state' \in [Task -> TaskState]
  /\ \A t \in Task : \/ state'[t] = state[t]
                     \/ Ready(t) /\ state'[t] = "running"
  /\ UNCHANGED outcome

\* Some running tasks end, whether the run is still open or not.
End ==
  /\ state' \in [Task -> TaskState]
  /\ \A t \in Task : \/ state'[t] = state[t]
                     \/ state[t] = "running" /\ state'[t] \in {"finished", "broken"}
  /\ UNCHANGED outcome

Complete ==
  /\ outcome = "open"
  /\ \A t \in Task : state[t] = "finished"
  /\ outcome' = "complete"
  /\ UNCHANGED state

\* The run is given up; some of the running tasks are dropped with it.
Stop ==
  /\ outcome = "open"
  /\ outcome' = "stopped"
  /\ state' \in [Task -> TaskState]
  /\ \A t \in Task : \/ state'[t] = state[t]
                     \/ state[t] = "running" /\ state'[t] = "broken"

Next == Start \/ End \/ Complete \/ Stop

Spec == Init /\ [][Next]_vars
===============================================================================
