------------------------------ MODULE TaskQueue ------------------------------
(***************************************************************************)
(* What the thread pool of the Cloudisk server promises its caller, with   *)
(* no mutex, condition variable or ring: a bounded FIFO queue of tasks, a  *)
(* fixed number of runners, and a switch that stops new starts for good.   *)
(***************************************************************************)
EXTENDS Naturals, Sequences

CONSTANTS Tasks,     \* the arguments a task can be submitted with
          NoTask,    \* not one of Tasks
          Capacity,  \* how many tasks can wait, a natural number
          Runners    \* who runs tasks, one at a time

VARIABLES pending,   \* accepted and not started, oldest first
          running,   \* the task of each runner
          closed     \* no task starts any more

vars == <<pending, running, closed>>

Pending == {pending[i] : i \in DOMAIN pending}

Init == pending = <<>> /\ running = [r \in Runners |-> NoTask] /\ closed = FALSE

Accept(t) ==
  /\ ~closed
  /\ t \notin Pending /\ \A r \in Runners : running[r] # t
  /\ Len(pending) < Capacity
  /\ pending' = Append(pending, t)
  /\ UNCHANGED <<running, closed>>

Start(r) ==
  /\ ~closed
  /\ pending # <<>>
  /\ running[r] = NoTask
  /\ running' = [running EXCEPT ![r] = Head(pending)]
  /\ pending' = Tail(pending)
  /\ UNCHANGED closed

Finish(r) ==
  /\ running[r] # NoTask
  /\ running' = [running EXCEPT ![r] = NoTask]
  /\ UNCHANGED <<pending, closed>>

Close ==
  /\ ~closed
  /\ closed' = TRUE
  /\ UNCHANGED <<pending, running>>

Next ==
  \/ Close
  \/ \E t \in Tasks : Accept(t)
  \/ \E r \in Runners : Start(r) \/ Finish(r)

SafeSpec == Init /\ [][Next]_vars

\* Some runner starts the oldest task if one stays free, and every task ends.
Fairness == WF_vars(\E r \in Runners : Start(r)) /\ \A r \in Runners : WF_vars(Finish(r))

Spec == SafeSpec /\ Fairness
==============================================================================
