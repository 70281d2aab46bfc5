--------------------------- MODULE ThreadPoolInit ---------------------------
(***************************************************************************)
(* thread_pool_init beside the workers it creates: ThreadPool with the     *)
(* initialization it takes for granted.  The pool is a global, so it       *)
(* starts all zero; the code creates the threads first and initializes the *)
(* mutex and the condition variable last, while workers may be using them. *)
(* POSIX leaves that undefined.  What glibc does: a zero mutex is free and *)
(* a zero condition variable has no waiters, so initializing the mutex     *)
(* frees it whoever holds it, and initializing the condition variable      *)
(* forgets its sleepers.                                                   *)
(***************************************************************************)
EXTENDS ThreadPool

BootInit ==
  /\ owner = NoOne
  /\ slots = [i \in Indices |-> NoArg]
  /\ front = 0 /\ rear = 0 /\ stop = FALSE
  /\ pc = [t \in Threads |-> IF t = Main THEN "create" ELSE "none"]
  /\ task = [w \in Workers |-> NoArg]
  /\ arg = NoArg
  /\ live = {}

Create(w) ==
  /\ pc[Main] = "create" /\ pc[w] = "none"
  /\ Goto(w, "lock")
  /\ UNCHANGED <<owner, slots, front, rear, stop, task, arg, live>>

\* All threads exist: clear the slots, the indices and the flag.
InitFields ==
  /\ pc[Main] = "create" /\ \A w \in Workers : pc[w] # "none"
  /\ slots' = [i \in Indices |-> NoArg]
  /\ front' = 0 /\ rear' = 0 /\ stop' = FALSE
  /\ Goto(Main, "init mutex")
  /\ UNCHANGED <<owner, task, arg, live>>

InitMutex ==
  /\ pc[Main] = "init mutex"
  /\ owner' = NoOne
  /\ Goto(Main, "init cond")
  /\ UNCHANGED <<slots, front, rear, stop, task, arg, live>>

InitCond ==
  /\ pc[Main] = "init cond"
  /\ pc' = [t \in Threads |-> IF t = Main THEN "loop"
                              ELSE IF pc[t] = "wait" THEN "forgotten" ELSE pc[t]]
  /\ UNCHANGED <<owner, slots, front, rear, stop, task, arg, live>>

\* A forgotten sleeper may still return from its futex by chance.
StrayWake(w) ==
  /\ pc[w] = "forgotten"
  /\ Goto(w, "relock")
  /\ UNCHANGED <<owner, slots, front, rear, stop, task, arg, live>>

BootNext ==
  \/ Next \/ InitFields \/ InitMutex \/ InitCond
  \/ \E w \in Workers : Create(w) \/ StrayWake(w)

BootSpec == BootInit /\ [][BootNext]_vars

\* thread_pool_destroy says its broadcast wakes all threads
\* (thread_pool.c:101-102): once the pool is stopping nobody sleeps.
StopWakesAll ==
  stop => \A w \in Workers : pc[w] \notin {"wait", "forgotten"}
=============================================================================
