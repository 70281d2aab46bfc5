----------------------------- MODULE ThreadPool -----------------------------
(***************************************************************************)
(* The worker pool of the Cloudisk server (src/server/thread_pool.c): one  *)
(* event-loop thread, Main, that submits downloads and uploads to a ring   *)
(* of tasks, worker threads that run them, a mutex, a condition variable   *)
(* and a stop flag.  A task is named by the FileTransferArg heap block it  *)
(* was submitted with (cmd_parse.c), so the model also follows who owns    *)
(* that block and when it is freed.                                        *)
(*                                                                         *)
(* Inside the mutex a test, a copy of a slot and a move of an index are    *)
(* steps of their own, so the properties rest on the mutex and not on the  *)
(* grain of the model.                                                     *)
(*                                                                         *)
(* Behaviours start where thread_pool_init has returned and no worker has  *)
(* passed its first pthread_mutex_lock; ThreadPoolInit drops that          *)
(* assumption.                                                             *)
(***************************************************************************)
EXTENDS Integers, FiniteSets

CONSTANTS Workers,    \* the threads of thread_pool.threads
          Main,       \* the event loop of server.c
          Args,       \* FileTransferArg blocks the heap can hold
          QueueSize,  \* config.task_queue_size
          NoArg,      \* the NULL pointer
          NoOne       \* the mutex is free

ASSUME ThreadsAssumption == IsFiniteSet(Workers) /\ Main \notin Workers
ASSUME QueueSizeAssumption == QueueSize \in Nat /\ QueueSize >= 1
ASSUME NullAssumption == NoArg \notin Args /\ NoOne \notin Workers \cup {Main}

VARIABLES owner,      \* the thread that holds thread_pool.mutex
          slots,      \* task_queue[i].arg
          front, rear, stop,
          pc,         \* where each thread is
          task,       \* the worker's local ThreadTask
          arg,        \* the event loop's FileTransferArg
          live        \* allocated blocks

vars == <<owner, slots, front, rear, stop, pc, task, arg, live>>

Threads == Workers \cup {Main}
Indices == 0 .. QueueSize - 1

NextIndex_Mut(i) == i + 1   \* mutant: rear runs past the end of the array
NextIndex(i) == (i + 1) % QueueSize

\* Tasks waiting in the ring, and the slots that hold them.  A slot keeps its
\* old contents after it is taken, so only these slots mean anything.
Count == IF front <= rear THEN rear - front ELSE rear - front + QueueSize
Queued == IF front <= rear THEN front .. rear - 1
                           ELSE Indices \ (rear .. front - 1)

WorkerPCs == {"lock", "check", "empty", "wait", "relock", "picked", "run", "exited"}
MainPCs   == {"loop", "add", "full?", "put", "shutdown", "stop", "join", "done"}

-----------------------------------------------------------------------------
Init ==
  /\ owner = NoOne
  /\ slots = [i \in Indices |-> NoArg]
  /\ front = 0 /\ rear = 0 /\ stop = FALSE
  /\ pc = [t \in Threads |-> IF t = Main THEN "loop" ELSE "lock"]
  /\ task = [w \in Workers |-> NoArg]
  /\ arg = NoArg
  /\ live = {}

Goto(t, l) == pc' = [pc EXCEPT ![t] = l]

(* pthread_mutex_lock, and the reacquisition inside pthread_cond_wait. *)
Locking == [l \in {"lock", "relock", "add", "shutdown"} |->
              IF l = "add" THEN "full?" ELSE IF l = "shutdown" THEN "stop" ELSE "check"]

Acquire_Mut(t) ==   \* mutant: the pool is used without its mutex
  /\ pc[t] \in DOMAIN Locking
  /\ owner' = t
  /\ Goto(t, Locking[pc[t]])
  /\ UNCHANGED <<slots, front, rear, stop, task, arg, live>>

Acquire(t) ==
  /\ pc[t] \in DOMAIN Locking
  /\ owner = NoOne
  /\ owner' = t
  /\ Goto(t, Locking[pc[t]])
  /\ UNCHANGED <<slots, front, rear, stop, task, arg, live>>

-----------------------------------------------------------------------------
(* thread_worker *)

\* The test of the while loop, then pthread_cond_wait releases the mutex.
FindEmpty(w) ==
  /\ pc[w] = "check" /\ front = rear /\ ~stop
  /\ Goto(w, "empty")
  /\ UNCHANGED <<owner, slots, front, rear, stop, task, arg, live>>

Wait(w) ==
  /\ pc[w] = "empty"
  /\ owner' = NoOne
  /\ Goto(w, "wait")
  /\ UNCHANGED <<slots, front, rear, stop, task, arg, live>>

\* POSIX lets pthread_cond_wait return although nobody signalled.
SpuriousWake(w) ==
  /\ pc[w] = "wait"
  /\ Goto(w, "relock")
  /\ UNCHANGED <<owner, slots, front, rear, stop, task, arg, live>>

Quit(w) ==
  /\ pc[w] = "check" /\ stop
  /\ owner' = NoOne
  /\ Goto(w, "exited")
  /\ UNCHANGED <<slots, front, rear, stop, task, arg, live>>

Pick_Mut(w) ==   \* mutant: the mutex is released before front is advanced
  /\ pc[w] = "check" /\ front # rear /\ ~stop
  /\ task' = [task EXCEPT ![w] = slots[front]]
  /\ owner' = NoOne
  /\ Goto(w, "picked")
  /\ UNCHANGED <<slots, front, rear, stop, arg, live>>

\* Copy the slot at front, then advance front and unlock.
Pick(w) ==
  /\ pc[w] = "check" /\ front # rear /\ ~stop
  /\ task' = [task EXCEPT ![w] = slots[front]]
  /\ Goto(w, "picked")
  /\ UNCHANGED <<owner, slots, front, rear, stop, arg, live>>

Take(w) ==
  /\ pc[w] = "picked"
  /\ front' = NextIndex(front)
  /\ owner' = NoOne
  /\ Goto(w, "run")
  /\ UNCHANGED <<slots, rear, stop, task, arg, live>>

\* task.func returns.  handle_gets and handle_puts free their argument on
\* every path but two: the upload directory cannot be made or examined.
Finish(w) ==
  /\ pc[w] = "run"
  /\ live' \in {live, live \ {task[w]}}
  /\ task' = [task EXCEPT ![w] = NoArg]
  /\ Goto(w, "lock")
  /\ UNCHANGED <<owner, slots, front, rear, stop, arg>>

-----------------------------------------------------------------------------
(* The event loop: cmd_parse and thread_pool_add_task *)

\* calloc of the argument; without memory the command is refused.
Submit ==
  /\ pc[Main] = "loop"
  /\ \E a \in Args \ live :
       /\ arg' = a
       /\ live' = live \cup {a}
  /\ Goto(Main, "add")
  /\ UNCHANGED <<owner, slots, front, rear, stop, task>>

AddFull ==
  /\ pc[Main] = "full?" /\ NextIndex(rear) = front
  /\ live' = live \ {arg}
  /\ arg' = NoArg
  /\ owner' = NoOne
  /\ Goto(Main, "loop")
  /\ UNCHANGED <<slots, front, rear, stop, task>>

Sleepers == {w \in Workers : pc[w] = "wait"}

Put_Mut ==   \* mutant: no test for a full ring
  /\ pc[Main] = "full?"
  /\ slots' = [slots EXCEPT ![rear] = arg]
  /\ Goto(Main, "put")
  /\ UNCHANGED <<owner, front, rear, stop, task, arg, live>>

Put ==
  /\ pc[Main] = "full?" /\ NextIndex(rear) # front
  /\ slots' = [slots EXCEPT ![rear] = arg]
  /\ Goto(Main, "put")
  /\ UNCHANGED <<owner, front, rear, stop, task, arg, live>>

AddTask_Mut ==   \* mutant: no pthread_cond_signal
  /\ pc[Main] = "put"
  /\ rear' = NextIndex(rear)
  /\ arg' = NoArg
  /\ owner' = NoOne
  /\ Goto(Main, "loop")
  /\ UNCHANGED <<slots, front, stop, task, live>>

\* Advance rear; pthread_cond_signal wakes one sleeper if there is any; unlock.
AddTask ==
  /\ pc[Main] = "put"
  /\ rear' = NextIndex(rear)
  /\ arg' = NoArg
  /\ owner' = NoOne
  /\ \/ /\ Sleepers = {}
        /\ Goto(Main, "loop")
     \/ \E w \in Sleepers : pc' = [pc EXCEPT ![Main] = "loop", ![w] = "relock"]
  /\ UNCHANGED <<slots, front, stop, task, live>>

-----------------------------------------------------------------------------
(* The event loop: exit request and thread_pool_destroy *)

ExitRequest ==
  /\ pc[Main] = "loop"
  /\ Goto(Main, "shutdown")
  /\ UNCHANGED <<owner, slots, front, rear, stop, task, arg, live>>

Stop_Mut ==   \* mutant: pthread_cond_signal instead of broadcast
  /\ pc[Main] = "stop"
  /\ stop' = TRUE
  /\ owner' = NoOne
  /\ \/ Sleepers = {} /\ Goto(Main, "join")
     \/ \E w \in Sleepers : pc' = [pc EXCEPT ![Main] = "join", ![w] = "relock"]
  /\ UNCHANGED <<slots, front, rear, task, arg, live>>

\* stop = 1, pthread_cond_broadcast, unlock.
Stop ==
  /\ pc[Main] = "stop"
  /\ stop' = TRUE
  /\ owner' = NoOne
  /\ pc' = [t \in Threads |-> IF t = Main THEN "join"
                              ELSE IF pc[t] = "wait" THEN "relock" ELSE pc[t]]
  /\ UNCHANGED <<slots, front, rear, task, arg, live>>

\* Every pthread_join returned; the ring, the mutex and the condition
\* variable are freed and the process exits.
Join ==
  /\ pc[Main] = "join"
  /\ \A w \in Workers : pc[w] = "exited"
  /\ Goto(Main, "done")
  /\ UNCHANGED <<owner, slots, front, rear, stop, task, arg, live>>

Terminated ==
  /\ pc[Main] = "done"
  /\ UNCHANGED vars

-----------------------------------------------------------------------------
InMutex(w) == FindEmpty(w) \/ Wait(w) \/ Quit(w) \/ Pick(w) \/ Take(w)
WorkerStep(w) == Acquire(w) \/ InMutex(w) \/ Finish(w)
MainInMutex == AddFull \/ Put \/ AddTask \/ Stop
MainStep == Acquire(Main) \/ MainInMutex \/ Join

Next ==
  \/ MainStep \/ Submit \/ ExitRequest \/ Terminated
  \/ \E w \in Workers : WorkerStep(w) \/ SpuriousWake(w)

\* A thread that can run does; the mutex starves nobody; a task returns, that
\* is, no client stalls for ever on its data connection.  Nobody has to submit
\* a task or ask for the exit, and no wakeup is spurious by obligation.
Fairness ==
  /\ \A w \in Workers : SF_vars(Acquire(w)) /\ WF_vars(InMutex(w)) /\ WF_vars(Finish(w))
  /\ SF_vars(Acquire(Main)) /\ WF_vars(MainInMutex) /\ WF_vars(Join)

Spec == Init /\ [][Next]_vars
FairSpec == Spec /\ Fairness

-----------------------------------------------------------------------------
(* Properties *)

\* Types of the pool's fields, the locals and the heap (thread_pool.h).
TypeOK ==
  /\ owner \in Threads \cup {NoOne}
  /\ slots \in [Indices -> Args \cup {NoArg}]
  /\ front \in Indices /\ rear \in Indices /\ stop \in BOOLEAN
  /\ pc \in [Threads -> WorkerPCs \cup MainPCs]
  /\ \A w \in Workers : pc[w] \in WorkerPCs
  /\ pc[Main] \in MainPCs
  /\ task \in [Workers -> Args \cup {NoArg}]
  /\ arg \in Args \cup {NoArg}
  /\ live \subseteq Args

\* Ownership of a FileTransferArg passes from the event loop to one slot of
\* the ring to one worker: whoever can still use a block finds it allocated,
\* and nobody else can use or free it (cmd_parse.c:61-80, the frees of
\* file_transfer.c).
Runners == {w \in Workers : pc[w] = "run"}
Submitting == pc[Main] \in {"add", "full?", "put"}

SingleOwner ==
  /\ \A i \in Queued : slots[i] \in live
  /\ \A w \in Runners : task[w] \in live
  /\ Submitting => arg \in live
  /\ \A i, j \in Queued : slots[i] = slots[j] => i = j
  /\ \A v, w \in Runners : task[v] = task[w] => v = w
  /\ \A i \in Queued, w \in Runners : slots[i] # task[w]
  /\ Submitting => (\A i \in Queued : slots[i] # arg) /\ (\A w \in Runners : task[w] # arg)

\* Workers that will look at the ring before they sleep.
Coming == {w \in Workers : pc[w] \in {"lock", "relock", "check", "picked"}}

\* No lost wakeup: while a worker sleeps, every waiting task has an awake
\* worker of its own on the way to it, and nobody sleeps once the pool is
\* stopping (cond_wait, signal and broadcast of thread_pool.c:13-17, 87, 102).
NoLostWakeup ==
  Sleepers # {} => ~stop /\ Count <= Cardinality(Coming)

\* A block in the ring leaves it only into a worker that starts its task, and the
\* event loop's own goes into the ring or is freed: nothing is lost or leaked
\* between them, by a full ring, two workers or a shutdown, after which the ring
\* still has what it had (thread_pool.c:19-33, 75-84, cmd_parse.c:75-78).
Waiting(a) == \E i \in Queued : slots[i] = a
Started(a) == \E w \in Runners : task[w] = a
Passes(a) ==
  /\ Waiting(a) => Waiting(a)' \/ Started(a)'
  /\ Submitting /\ arg = a => (Submitting /\ arg = a)' \/ Waiting(a)' \/ a \notin live'
NoneLost == [][\A a \in live : Passes(a)]_vars

\* What makes the safety properties inductive: only the holder of the mutex is
\* inside it, what a thread has tested there stays true until it leaves, and
\* the stop flag goes with the event loop's place in thread_pool_destroy.
Critical == {"check", "empty", "picked", "full?", "put", "stop"}
Locked == \A t \in Threads : pc[t] \in Critical <=> owner = t
Tested ==
  /\ \A w \in Workers :
       /\ pc[w] = "empty" => front = rear /\ ~stop
       /\ pc[w] = "picked" => front # rear /\ task[w] = slots[front] /\ ~stop
       /\ pc[w] \notin {"picked", "run"} => task[w] = NoArg
  /\ pc[Main] = "put" => NextIndex(rear) # front /\ slots[rear] = arg
  /\ stop <=> pc[Main] \in {"join", "done"}
Inv == TypeOK /\ Locked /\ Tested /\ SingleOwner /\ NoLostWakeup

\* The ring read from front to rear, and the task each worker runs.
Position(k) == IF front + k - 1 < QueueSize THEN front + k - 1 ELSE front + k - 1 - QueueSize
WaitingTasks == [k \in 1 .. Count |-> slots[Position(k)]]
RunningTask == [w \in Workers |-> IF pc[w] = "run" THEN task[w] ELSE NoArg]

Abstract == INSTANCE TaskQueue WITH
  Tasks <- Args, NoTask <- NoArg, Capacity <- QueueSize - 1, Runners <- Workers,
  pending <- WaitingTasks, running <- RunningTask, closed <- stop

\* The pool implements the abstract queue: first in first out, at most
\* QueueSize - 1 tasks waiting, each accepted task started at most once and
\* none after stop.
ImplementsSafeQueue == Abstract!SafeSpec

\* It also keeps the queue's promise that waiting tasks are started.
ImplementsTaskQueue == Abstract!Spec

\* A task that thread_pool_add_task accepted is run, unless the pool is
\* stopped first; then it is dropped (thread_pool.c:19-23), and this says no more of it.
AcceptedIsRun == \A a \in Args : Waiting(a) ~> (Started(a) \/ stop)

\* Once the exit is requested, thread_pool_destroy joins every worker and
\* the server ends, provided no task runs for ever.
ShutdownCompletes == (pc[Main] = "shutdown") ~> (pc[Main] = "done")
=============================================================================
