--------------------------- MODULE ThreadPool_proofs ---------------------------
(***************************************************************************)
(* Proofs about ThreadPool for any number of workers and blocks and any    *)
(* ring size.                                                              *)
(***************************************************************************)
EXTENDS ThreadPool, FiniteSetTheorems, SequenceTheorems, TLAPS

-----------------------------------------------------------------------------
(* The ring *)

\* NextIndex is the successor that wraps at the end of the ring.
LEMMA NextIndexWraps ==
  ASSUME NEW i \in Indices
  PROVE  /\ NextIndex(i) = IF i = QueueSize - 1 THEN 0 ELSE i + 1
         /\ NextIndex(i) \in Indices
<1>1. CASE i = QueueSize - 1
  BY <1>1, QueueSizeAssumption DEF NextIndex, Indices
<1>2. CASE i # QueueSize - 1
  BY <1>2, QueueSizeAssumption DEF NextIndex, Indices
<1> QED
  BY <1>1, <1>2

\* Taking the oldest task removes its slot, the first one, from the ring
\* (thread_pool.c:27-28).
LEMMA RingTake ==
  ASSUME front \in Indices, rear \in Indices, front # rear,
         front' = NextIndex(front), rear' = rear
  PROVE  /\ front \in Queued /\ Queued' = Queued \ {front}
         /\ Count \in Nat /\ Count' = Count - 1
<1>1. front' = IF front = QueueSize - 1 THEN 0 ELSE front + 1
  BY NextIndexWraps
<1>2. front \in Queued
  BY QueueSizeAssumption DEF Queued, Indices
<1>3. Queued' = Queued \ {front}
  BY <1>1, QueueSizeAssumption DEF Queued, Indices
<1>4. Count \in Nat /\ Count' = Count - 1
  BY <1>1, QueueSizeAssumption DEF Count, Indices
<1> QED
  BY <1>2, <1>3, <1>4

\* Adding a task to a ring that is not full extends it by the slot at rear
\* (thread_pool.c:75, 82-84).
LEMMA RingAdd ==
  ASSUME front \in Indices, rear \in Indices, NextIndex(rear) # front,
         rear' = NextIndex(rear), front' = front
  PROVE  /\ rear \notin Queued /\ Queued' = Queued \cup {rear}
         /\ Count \in Nat /\ Count' = Count + 1
<1>1. rear' = IF rear = QueueSize - 1 THEN 0 ELSE rear + 1
  BY NextIndexWraps
<1>2. rear \notin Queued
  BY QueueSizeAssumption DEF Queued, Indices
<1>3. Queued' = Queued \cup {rear}
  BY <1>1, QueueSizeAssumption DEF Queued, Indices
<1>4. Count \in Nat /\ Count' = Count + 1
  BY <1>1, QueueSizeAssumption DEF Count, Indices
<1> QED
  BY <1>2, <1>3, <1>4

\* An empty ring holds no task.
LEMMA RingEmpty ==
  ASSUME front \in Indices, rear = front
  PROVE  Queued = {} /\ Count = 0
BY QueueSizeAssumption DEF Queued, Count, Indices

-----------------------------------------------------------------------------
(* Types *)

LEMMA TypeInit == Init => TypeOK
<1> SUFFICES ASSUME Init PROVE TypeOK
  OBVIOUS
<1>1. front \in Indices /\ rear \in Indices /\ stop \in BOOLEAN
  <2>1. 0 \in Indices
    BY QueueSizeAssumption DEF Indices
  <2> QED
    BY <2>1 DEF Init
<1>2. /\ pc \in [Threads -> WorkerPCs \cup MainPCs]
      /\ \A w \in Workers : pc[w] \in WorkerPCs
      /\ pc[Main] \in MainPCs
  BY ThreadsAssumption DEF Init, Threads, WorkerPCs, MainPCs
<1>3. /\ slots \in [Indices -> Args \cup {NoArg}]
      /\ task \in [Workers -> Args \cup {NoArg}]
  BY DEF Init
<1> QED
  BY <1>1, <1>2, <1>3 DEF Init, TypeOK

LEMMA TypeStep == TypeOK /\ [Next]_vars => TypeOK'
<1> SUFFICES ASSUME TypeOK, [Next]_vars PROVE TypeOK'
  OBVIOUS
<1> USE ThreadsAssumption, NullAssumption DEF TypeOK, Threads, Goto, WorkerPCs, MainPCs
<1>1. CASE \E t \in Threads : Acquire(t)
  BY <1>1 DEF Acquire, Locking
<1>2. ASSUME NEW w \in Workers, FindEmpty(w) \/ Wait(w) \/ Quit(w) \/ SpuriousWake(w)
      PROVE  TypeOK'
  BY <1>2 DEF FindEmpty, Wait, Quit, SpuriousWake
<1>3. ASSUME NEW w \in Workers, Pick(w) PROVE TypeOK'
  BY <1>3 DEF Pick
<1>4. ASSUME NEW w \in Workers, Take(w) PROVE TypeOK'
  BY <1>4, NextIndexWraps DEF Take
<1>5. ASSUME NEW w \in Workers, Finish(w) PROVE TypeOK'
  BY <1>5 DEF Finish
<1>6. CASE Submit \/ ExitRequest
  BY <1>6 DEF Submit, ExitRequest
<1>7. CASE AddFull \/ Put \/ Join
  BY <1>7 DEF AddFull, Put, Join
<1>8. CASE AddTask
  BY <1>8, NextIndexWraps DEF AddTask, Sleepers
<1>9. CASE Stop
  BY <1>9 DEF Stop
<1>10. CASE UNCHANGED vars
  BY <1>10 DEF vars
<1> QED
  BY <1>1, <1>2, <1>3, <1>4, <1>5, <1>6, <1>7, <1>8, <1>9, <1>10
     DEF Next, MainStep, MainInMutex, WorkerStep, InMutex, Terminated

\* Every field, local and heap block keeps its type (thread_pool.h:10-26).
THEOREM TypeCorrect == Spec => []TypeOK
<1>1. Init => TypeOK
  BY TypeInit
<1>2. TypeOK /\ [Next]_vars => TypeOK'
  BY TypeStep
<1> QED
  BY <1>1, <1>2, PTL DEF Spec

-----------------------------------------------------------------------------
(* The mutex *)

LEMMA LockedStep == TypeOK /\ Locked /\ [Next]_vars => Locked'
<1> SUFFICES ASSUME TypeOK, Locked, [Next]_vars PROVE Locked'
  OBVIOUS
<1> USE ThreadsAssumption, NullAssumption
    DEF TypeOK, Locked, Critical, Threads, Goto, WorkerPCs, MainPCs
<1>1. CASE \E t \in Threads : Acquire(t)
  BY <1>1 DEF Acquire, Locking
<1>2. ASSUME NEW w \in Workers, FindEmpty(w) \/ Wait(w) \/ Quit(w) \/ SpuriousWake(w)
      PROVE  Locked'
  BY <1>2 DEF FindEmpty, Wait, Quit, SpuriousWake
<1>3. ASSUME NEW w \in Workers, Pick(w) \/ Take(w) \/ Finish(w) PROVE Locked'
  BY <1>3 DEF Pick, Take, Finish
<1>4. CASE Submit \/ ExitRequest \/ Join
  BY <1>4 DEF Submit, ExitRequest, Join
<1>5. CASE AddFull \/ Put
  BY <1>5 DEF AddFull, Put
<1>6. CASE AddTask
  BY <1>6 DEF AddTask, Sleepers
<1>7. CASE Stop
  BY <1>7 DEF Stop
<1>8. CASE UNCHANGED vars
  BY <1>8 DEF vars
<1> QED
  BY <1>1, <1>2, <1>3, <1>4, <1>5, <1>6, <1>7, <1>8
     DEF Next, MainStep, MainInMutex, WorkerStep, InMutex, Terminated

LEMMA TestedStep == TypeOK /\ Locked /\ Tested /\ [Next]_vars => Tested'
<1> SUFFICES ASSUME TypeOK, Locked, Tested, [Next]_vars PROVE Tested'
  OBVIOUS
<1> USE ThreadsAssumption, NullAssumption
    DEF TypeOK, Locked, Tested, Critical, Threads, Goto, WorkerPCs, MainPCs
<1>1. CASE \E t \in Threads : Acquire(t)
  BY <1>1 DEF Acquire, Locking
<1>2. ASSUME NEW w \in Workers, FindEmpty(w) \/ Wait(w) \/ Quit(w) \/ SpuriousWake(w)
      PROVE  Tested'
  BY <1>2 DEF FindEmpty, Wait, Quit, SpuriousWake
<1>3. ASSUME NEW w \in Workers, Pick(w) PROVE Tested'
  BY <1>3 DEF Pick
<1>4. ASSUME NEW w \in Workers, Take(w) PROVE Tested'
  BY <1>4, NextIndexWraps DEF Take
<1>5. ASSUME NEW w \in Workers, Finish(w) PROVE Tested'
  BY <1>5 DEF Finish
<1>6. CASE Submit \/ ExitRequest \/ Join
  BY <1>6 DEF Submit, ExitRequest, Join
<1>7. CASE AddFull \/ Put
  BY <1>7 DEF AddFull, Put
<1>8. CASE AddTask
  BY <1>8 DEF AddTask, Sleepers
<1>9. CASE Stop
  BY <1>9 DEF Stop
<1>10. CASE UNCHANGED vars
  BY <1>10 DEF vars
<1> QED
  BY <1>1, <1>2, <1>3, <1>4, <1>5, <1>6, <1>7, <1>8, <1>9, <1>10
     DEF Next, MainStep, MainInMutex, WorkerStep, InMutex, Terminated

-----------------------------------------------------------------------------
(* Ownership of the arguments *)

LEMMA OwnerStep ==
  TypeOK /\ Tested /\ SingleOwner /\ [Next]_vars => SingleOwner'
<1> SUFFICES ASSUME TypeOK, Tested, SingleOwner, [Next]_vars PROVE SingleOwner'
  OBVIOUS
<1> USE ThreadsAssumption, NullAssumption DEF TypeOK, Threads, Goto, WorkerPCs, MainPCs
<1>0. ASSUME UNCHANGED <<front, rear>> PROVE Queued' = Queued
  BY <1>0 DEF Queued
\* Steps that move no argument.
<1>1. ASSUME Queued' = Queued, UNCHANGED <<slots, arg, live>>, Runners' = Runners,
             \A w \in Runners : task'[w] = task[w], Submitting' => Submitting
      PROVE  SingleOwner'
  BY <1>1 DEF SingleOwner
<1>2. CASE \E t \in Threads : Acquire(t)
  BY <1>0, <1>1, <1>2 DEF Acquire, Locking, Runners, Submitting
<1>3. ASSUME NEW w \in Workers, FindEmpty(w) \/ Wait(w) \/ Quit(w) \/ SpuriousWake(w)
      PROVE  SingleOwner'
  BY <1>0, <1>1, <1>3 DEF FindEmpty, Wait, Quit, SpuriousWake, Runners, Submitting
<1>4. ASSUME NEW w \in Workers, Pick(w) PROVE SingleOwner'
  BY <1>0, <1>1, <1>4 DEF Pick, Runners, Submitting
<1>5. ASSUME NEW w \in Workers, Take(w) PROVE SingleOwner'
  <2>1. front \in Queued /\ Queued' = Queued \ {front}
    BY <1>5, RingTake DEF Take, Tested
  <2>2. Runners' = Runners \cup {w} /\ task[w] = slots[front] /\ (Submitting' <=> Submitting)
    BY <1>5 DEF Take, Tested, Runners, Submitting
  <2> QED
    BY <1>5, <2>1, <2>2 DEF Take, SingleOwner
<1>6. ASSUME NEW w \in Workers, Finish(w) PROVE SingleOwner'
  <2>1. w \in Runners /\ Runners' = Runners \ {w} /\ (Submitting' <=> Submitting)
    BY <1>6 DEF Finish, Runners, Submitting
  <2>2. \A v \in Runners' : task'[v] = task[v] /\ task[v] # task[w]
    BY <1>6, <2>1 DEF Finish, SingleOwner, Runners
  <2> QED
    BY <1>0, <1>6, <2>1, <2>2 DEF Finish, SingleOwner
<1>7. CASE Submit
  <2>1. Runners' = Runners /\ Queued' = Queued
    BY <1>0, <1>7 DEF Submit, Runners
  <2> QED
    BY <1>7, <2>1 DEF Submit, SingleOwner
<1>8. CASE ExitRequest \/ Join
  BY <1>0, <1>1, <1>8 DEF ExitRequest, Join, Runners, Submitting
<1>9. CASE AddFull
  <2>1. Runners' = Runners /\ Queued' = Queued /\ ~Submitting' /\ Submitting
    BY <1>0, <1>9 DEF AddFull, Runners, Submitting
  <2> QED
    BY <1>9, <2>1 DEF AddFull, SingleOwner
<1>10. CASE Put
  <2>1. rear \notin Queued
    BY <1>10, QueueSizeAssumption DEF Put, Queued, Indices
  <2>2. Runners' = Runners /\ Queued' = Queued /\ Submitting
    BY <1>0, <1>10 DEF Put, Runners, Submitting
  <2>3. \A i \in Queued : slots'[i] = slots[i]
    BY <1>10, <2>1, QueueSizeAssumption DEF Put, Queued, Indices
  <2> QED
    BY <1>10, <2>2, <2>3 DEF Put, SingleOwner
<1>11. CASE AddTask
  <2>1. rear \notin Queued /\ Queued' = Queued \cup {rear}
    BY <1>11, RingAdd DEF AddTask, Tested
  <2>2. Runners' = Runners /\ Submitting /\ ~Submitting' /\ slots[rear] = arg
    BY <1>11 DEF AddTask, Tested, Runners, Submitting, Sleepers
  <2> QED
    BY <1>11, <2>1, <2>2 DEF AddTask, SingleOwner
<1>12. CASE Stop
  BY <1>0, <1>1, <1>12 DEF Stop, Runners, Submitting
<1>13. CASE UNCHANGED vars
  BY <1>0, <1>1, <1>13 DEF vars, Runners, Submitting
<1> QED
  BY <1>2, <1>3, <1>4, <1>5, <1>6, <1>7, <1>8, <1>9, <1>10, <1>11, <1>12, <1>13
     DEF Next, MainStep, MainInMutex, WorkerStep, InMutex, Terminated

-----------------------------------------------------------------------------
(* Wakeups *)

LEMMA ComingFinite == IsFiniteSet(Coming) /\ Cardinality(Coming) \in Nat
<1>1. Coming \subseteq Workers
  BY DEF Coming
<1>2. IsFiniteSet(Coming)
  BY <1>1, ThreadsAssumption, FS_Subset
<1> QED
  BY <1>2, FS_CardinalityType

LEMMA WakeStep ==
  TypeOK /\ Tested /\ NoLostWakeup /\ [Next]_vars => NoLostWakeup'
<1> SUFFICES ASSUME TypeOK, Tested, NoLostWakeup, [Next]_vars PROVE NoLostWakeup'
  OBVIOUS
<1> USE ThreadsAssumption, NullAssumption DEF TypeOK, Threads, Goto, WorkerPCs, MainPCs
<1>0. ASSUME UNCHANGED <<front, rear>> PROVE Count' = Count
  BY <1>0 DEF Count
<1>f. IsFiniteSet(Coming) /\ Cardinality(Coming) \in Nat /\ Count \in Nat
  BY ComingFinite, QueueSizeAssumption DEF Count, Indices
<1>g. IsFiniteSet(Coming') /\ Cardinality(Coming') \in Nat
  <2>1. Coming' \subseteq Workers
    BY DEF Coming
  <2>2. IsFiniteSet(Coming')
    BY <2>1, FS_Subset
  <2> QED
    BY <2>2, FS_CardinalityType
\* Steps that neither put a worker to sleep nor call one off.
<1>1. ASSUME Count' = Count, stop' = stop, Coming' = Coming, Sleepers' = Sleepers
      PROVE  NoLostWakeup'
  BY <1>1 DEF NoLostWakeup
<1>2. CASE \E t \in Threads : Acquire(t)
  BY <1>0, <1>1, <1>2 DEF Acquire, Locking, Coming, Sleepers
<1>3. ASSUME NEW w \in Workers, FindEmpty(w) PROVE NoLostWakeup'
  <2>1. Count' = 0
    BY <1>0, <1>3, RingEmpty DEF FindEmpty
  <2> QED
    BY <1>3, <1>g, <2>1 DEF FindEmpty, NoLostWakeup
<1>4. ASSUME NEW w \in Workers, Wait(w) PROVE NoLostWakeup'
  <2>1. Count' = 0
    BY <1>0, <1>4, RingEmpty DEF Wait, Tested
  <2> QED
    BY <1>4, <1>g, <2>1 DEF Wait, Tested, NoLostWakeup
<1>5. ASSUME NEW w \in Workers, SpuriousWake(w) \/ Finish(w) PROVE NoLostWakeup'
  <2>1. w \notin Coming /\ Coming' = Coming \cup {w}
    BY <1>5 DEF SpuriousWake, Finish, Coming
  <2>2. Cardinality(Coming') = Cardinality(Coming) + 1
    BY <2>1, <1>f, FS_AddElement
  <2>3. Count' = Count /\ stop' = stop /\ (Sleepers' # {} => Sleepers # {})
    BY <1>0, <1>5 DEF SpuriousWake, Finish, Sleepers
  <2> QED
    BY <2>2, <2>3, <1>f DEF NoLostWakeup
<1>6. ASSUME NEW w \in Workers, Quit(w) PROVE NoLostWakeup'
  BY <1>6 DEF Quit, NoLostWakeup, Sleepers
<1>7. ASSUME NEW w \in Workers, Pick(w) PROVE NoLostWakeup'
  BY <1>0, <1>1, <1>7 DEF Pick, Coming, Sleepers
<1>8. ASSUME NEW w \in Workers, Take(w) PROVE NoLostWakeup'
  <2>1. w \in Coming /\ Coming' = Coming \ {w}
    BY <1>8 DEF Take, Coming
  <2>2. Cardinality(Coming') = Cardinality(Coming) - 1
    BY <2>1, <1>f, FS_RemoveElement
  <2>3. Count' = Count - 1
    BY <1>8, RingTake DEF Take, Tested
  <2>4. stop' = stop /\ Sleepers' = Sleepers
    BY <1>8 DEF Take, Sleepers
  <2> QED
    BY <2>2, <2>3, <2>4, <1>f DEF NoLostWakeup
<1>9. CASE Submit \/ ExitRequest \/ AddFull \/ Put \/ Join
  BY <1>0, <1>1, <1>9 DEF Submit, ExitRequest, AddFull, Put, Join, Coming, Sleepers
<1>10. CASE AddTask
  <2>1. Count' = Count + 1 /\ stop' = stop
    BY <1>10, RingAdd DEF AddTask, Tested
  <2>2. CASE Sleepers = {} /\ Goto(Main, "loop")
    BY <2>2 DEF NoLostWakeup, Sleepers
  <2>3. ASSUME NEW w \in Sleepers, pc' = [pc EXCEPT ![Main] = "loop", ![w] = "relock"]
        PROVE  NoLostWakeup'
    <3>1. w \notin Coming /\ Coming' = Coming \cup {w}
      BY <2>3 DEF Coming, Sleepers
    <3>2. Cardinality(Coming') = Cardinality(Coming) + 1
      BY <3>1, <1>f, FS_AddElement
    <3> QED
      BY <2>1, <2>3, <3>2, <1>f DEF NoLostWakeup
  <2> QED
    BY <1>10, <2>2, <2>3 DEF AddTask
<1>11. CASE Stop
  BY <1>11 DEF Stop, NoLostWakeup, Sleepers
<1>12. CASE UNCHANGED vars
  BY <1>0, <1>1, <1>12 DEF vars, Coming, Sleepers
<1> QED
  BY <1>2, <1>3, <1>4, <1>5, <1>6, <1>7, <1>8, <1>9, <1>10, <1>11, <1>12
     DEF Next, MainStep, MainInMutex, WorkerStep, InMutex, Terminated

-----------------------------------------------------------------------------
(* The inductive invariant and what follows from it *)

LEMMA InvInit == Init => Inv
<1> SUFFICES ASSUME Init PROVE Inv
  OBVIOUS
<1>1. TypeOK
  BY TypeInit
<1>2. front = 0 /\ rear = 0 /\ Queued = {} /\ Runners = {} /\ Sleepers = {} /\ ~Submitting
  <2>1. front = 0 /\ rear = 0
    BY DEF Init
  <2>2. Queued = {}
    BY <1>1, <2>1, RingEmpty DEF TypeOK
  <2> QED
    BY <2>1, <2>2, ThreadsAssumption DEF Init, Runners, Sleepers, Submitting, Threads
<1>3. Locked
  BY NullAssumption, ThreadsAssumption DEF Init, Locked, Critical, Threads
<1>4. Tested
  BY ThreadsAssumption DEF Init, Tested, Threads
<1>5. SingleOwner /\ NoLostWakeup
  BY <1>2 DEF SingleOwner, NoLostWakeup
<1> QED
  BY <1>1, <1>3, <1>4, <1>5 DEF Inv

\* Inv is inductive.
THEOREM Invariance == Spec => []Inv
<1>1. Init => Inv
  BY InvInit
<1>2. Inv /\ [Next]_vars => Inv'
  BY TypeStep, LockedStep, TestedStep, OwnerStep, WakeStep DEF Inv
<1> QED
  BY <1>1, <1>2, PTL DEF Spec

\* No FileTransferArg is used after its free, freed twice or run twice
\* (cmd_parse.c:61-80, thread_pool.c:25-33, the frees of file_transfer.c).
THEOREM Ownership == Spec => []SingleOwner
<1>1. Inv => SingleOwner
  BY DEF Inv
<1> QED
  BY <1>1, Invariance, PTL

\* pthread_cond_signal and pthread_cond_broadcast reach every worker that
\* should not sleep (thread_pool.c:13-17, 87, 102).
THEOREM Wakeups == Spec => []NoLostWakeup
<1>1. Inv => NoLostWakeup
  BY DEF Inv
<1> QED
  BY <1>1, Invariance, PTL

-----------------------------------------------------------------------------
(* Nothing is lost on the way *)

LEMMA PassesStep ==
  ASSUME Inv, [Next]_vars, NEW a \in live
  PROVE  Passes(a)
<1> USE ThreadsAssumption, NullAssumption DEF Goto
<1>t. TypeOK /\ Tested
  BY DEF Inv
<1>p. /\ pc \in [Threads -> WorkerPCs \cup MainPCs] /\ task \in [Workers -> Args \cup {NoArg}]
      /\ slots \in [Indices -> Args \cup {NoArg}]
      /\ Main \in Threads /\ Workers \subseteq Threads
  BY <1>t DEF TypeOK, Threads
<1>0. ASSUME UNCHANGED <<front, rear>> PROVE Queued' = Queued
  BY <1>0 DEF Queued
\* Steps that move no block of the ring or of the event loop.
<1>1. ASSUME UNCHANGED <<front, rear, slots, arg>>, Submitting' <=> Submitting PROVE Passes(a)
  BY <1>0, <1>1 DEF Passes, Waiting
<1>2. CASE \E t \in Threads : Acquire(t)
  BY <1>p, <1>1, <1>2 DEF Acquire, Locking, Submitting
<1>3. ASSUME NEW w \in Workers,
             FindEmpty(w) \/ Wait(w) \/ Quit(w) \/ SpuriousWake(w) \/ Pick(w) \/ Finish(w)
      PROVE  Passes(a)
  BY <1>p, <1>1, <1>3 DEF FindEmpty, Wait, Quit, SpuriousWake, Pick, Finish, Submitting
<1>4. ASSUME NEW w \in Workers, Take(w) PROVE Passes(a)
  <2>1. Queued' = Queued \ {front}
    BY <1>t, <1>4, RingTake DEF Take, Tested, TypeOK
  <2>2. w \in Runners' /\ task'[w] = slots[front] /\ (Submitting' <=> Submitting)
    BY <1>t, <1>p, <1>4 DEF Take, Tested, Runners, Submitting
  <2>3. UNCHANGED <<slots, arg>>
    BY <1>4 DEF Take
  <2> QED
    BY <2>1, <2>2, <2>3 DEF Passes, Waiting, Started
<1>5. CASE Submit
  <2>1. ~ Submitting /\ Queued' = Queued /\ slots' = slots
    BY <1>0, <1>5 DEF Submit, Submitting
  <2> QED
    BY <2>1 DEF Passes, Waiting
<1>6. CASE ExitRequest \/ Join \/ Stop
  BY <1>p, <1>1, <1>6 DEF ExitRequest, Join, Stop, Submitting
<1>7. CASE AddFull
  <2>1. Queued' = Queued /\ slots' = slots /\ live' = live \ {arg}
    BY <1>0, <1>7 DEF AddFull
  <2> QED
    BY <2>1 DEF Passes, Waiting
<1>8. CASE Put
  <2>1. rear \notin Queued /\ Queued \subseteq Indices
    BY <1>t, QueueSizeAssumption DEF Queued, Indices, TypeOK
  <2>2. Queued' = Queued /\ \A i \in Queued : slots'[i] = slots[i]
    BY <1>0, <1>p, <1>8, <2>1 DEF Put
  <2>3. Submitting' /\ arg' = arg
    BY <1>p, <1>8 DEF Put, Submitting
  <2> QED
    BY <2>2, <2>3 DEF Passes, Waiting
<1>9. CASE AddTask
  <2>1. Queued' = Queued \cup {rear} /\ slots[rear] = arg /\ slots' = slots
    BY <1>t, <1>9, RingAdd DEF AddTask, Tested, TypeOK
  <2> QED
    BY <2>1 DEF Passes, Waiting
<1>10. CASE UNCHANGED vars
  BY <1>1, <1>10 DEF vars, Submitting
<1> QED
  BY <1>p, <1>2, <1>3, <1>4, <1>5, <1>6, <1>7, <1>8, <1>9, <1>10
     DEF Next, MainStep, MainInMutex, WorkerStep, InMutex, Terminated

\* A block goes from the event loop to the ring to a worker without being lost
\* or leaked (thread_pool.c:19-33, 75-84, cmd_parse.c:75-78).
THEOREM BlocksArePassedOn == Spec => NoneLost
<1>1. Inv /\ [Next]_vars => [\A a \in live : Passes(a)]_vars
  BY PassesStep
<1> QED
  BY <1>1, Invariance, PTL DEF Spec, NoneLost

-----------------------------------------------------------------------------
(* The pool implements the abstract queue *)

\* The waiting tasks are those of the ring's slots.
LEMMA Positions ==
  ASSUME front \in Indices, rear \in Indices
  PROVE  /\ Count \in Nat /\ Count <= QueueSize - 1
         /\ \A k \in 1 .. Count : Position(k) \in Queued
BY QueueSizeAssumption DEF Position, Queued, Count, Indices

LEMMA WaitingIsSeq ==
  ASSUME TypeOK, SingleOwner
  PROVE  /\ WaitingTasks \in Seq(Args) /\ Len(WaitingTasks) = Count
         /\ \A k \in 1 .. Count : WaitingTasks[k] = slots[Position(k)]
<1>1. Count \in Nat /\ \A k \in 1 .. Count : Position(k) \in Queued
  BY Positions DEF TypeOK
<1>2. \A k \in 1 .. Count : slots[Position(k)] \in Args
  BY <1>1 DEF TypeOK, SingleOwner
<1> QED
  BY <1>1, <1>2 DEF WaitingTasks

\* Steps that touch neither the ring nor the runners are stuttering steps.
LEMMA AbstractStutter ==
  ASSUME TypeOK, Runners' = Runners, stop' = stop, UNCHANGED <<front, rear>>,
         \A i \in Queued : slots'[i] = slots[i],
         \A w \in Runners : task'[w] = task[w]
  PROVE  UNCHANGED Abstract!vars
<1>1. Count' = Count /\ \A k \in 1 .. Count : Position(k)' = Position(k) /\ Position(k) \in Queued
  BY Positions DEF TypeOK, Count, Position
<1>2. WaitingTasks' = WaitingTasks
  BY <1>1 DEF WaitingTasks
<1>3. RunningTask' = RunningTask
  BY DEF RunningTask, Runners
<1> QED
  BY <1>2, <1>3 DEF Abstract!vars

LEMMA AddTaskAccepts ==
  ASSUME Inv, Inv', AddTask
  PROVE  Abstract!Accept(arg)
<1> USE ThreadsAssumption, NullAssumption DEF Threads, Goto
<1>0. TypeOK /\ TypeOK' /\ SingleOwner /\ SingleOwner' /\ Tested
  BY DEF Inv
<1>1. Submitting /\ Runners' = Runners /\ ~stop /\ arg \in Args
  BY <1>0 DEF AddTask, Submitting, Runners, Sleepers, TypeOK, Tested, SingleOwner
<1>2. Count \in Nat /\ Count' = Count + 1 /\ Count < QueueSize - 1
  <2>1. front \in Indices /\ rear \in Indices /\ NextIndex(rear) # front
    BY <1>0 DEF AddTask, Tested, TypeOK
  <2>2. Count \in Nat /\ Count' = Count + 1
    BY <2>1, RingAdd DEF AddTask
  <2>3. Count < QueueSize - 1
    BY <2>1, NextIndexWraps, QueueSizeAssumption DEF Count, Indices
  <2> QED
    BY <2>2, <2>3
<1>3. WaitingTasks' = Append(WaitingTasks, arg)
  <2>1. /\ WaitingTasks \in Seq(Args) /\ Len(WaitingTasks) = Count
        /\ \A k \in 1 .. Count : WaitingTasks[k] = slots[Position(k)]
    BY <1>0, WaitingIsSeq
  <2>2. slots[Position(Count + 1)] = arg
    <3>1. Position(Count + 1) = rear
      BY <1>0, <1>2, QueueSizeAssumption DEF Position, Count, TypeOK, Indices
    <3> QED
      BY <1>0, <3>1 DEF AddTask, Tested
  <2>3. /\ WaitingTasks' \in Seq(Args) /\ Len(WaitingTasks') = Count + 1
        /\ \A k \in 1 .. Count + 1 : WaitingTasks'[k] = slots[Position(k)]
    <3>1. WaitingTasks' = [k \in 1 .. Count + 1 |-> slots[Position(k)]]
      BY <1>2 DEF WaitingTasks, Position, AddTask
    <3>2. \A k \in 1 .. Count + 1 : slots[Position(k)] \in Args
      BY <1>1, <1>2, <2>1, <2>2
    <3> QED
      BY <1>2, <3>1, <3>2
  <2>4. /\ Append(WaitingTasks, arg) \in Seq(Args)
        /\ Len(Append(WaitingTasks, arg)) = Count + 1
        /\ \A k \in 1 .. Count : Append(WaitingTasks, arg)[k] = slots[Position(k)]
        /\ Append(WaitingTasks, arg)[Count + 1] = arg
    BY <1>1, <1>2, <2>1, AppendProperties
  <2>5. \A k \in 1 .. Count + 1 : WaitingTasks'[k] = Append(WaitingTasks, arg)[k]
    BY <1>2, <2>2, <2>3, <2>4
  <2> QED
    BY <2>3, <2>4, <2>5, SeqEqual
<1>4. arg \notin Abstract!Pending
  <2>1. \A k \in 1 .. Count : WaitingTasks[k] # arg
    BY <1>0, <1>1, WaitingIsSeq, Positions DEF SingleOwner, TypeOK
  <2>2. DOMAIN WaitingTasks = 1 .. Count
    BY DEF WaitingTasks
  <2> QED
    BY <2>1, <2>2 DEF Abstract!Pending
<1>5. (\A w \in Workers : RunningTask[w] # arg) /\ RunningTask' = RunningTask
  BY <1>0, <1>1 DEF RunningTask, Runners, SingleOwner, AddTask
<1>6. Len(WaitingTasks) < QueueSize - 1
  BY <1>0, <1>2, WaitingIsSeq
<1> QED
  BY <1>1, <1>3, <1>4, <1>5, <1>6 DEF Abstract!Accept, AddTask

LEMMA TakeStarts ==
  ASSUME Inv, NEW w \in Workers, Take(w)
  PROVE  Abstract!Start(w)
<1> USE ThreadsAssumption, NullAssumption DEF Threads, Goto
<1>0. TypeOK /\ SingleOwner /\ Tested
  BY DEF Inv
<1>1. /\ Runners' = Runners \cup {w} /\ w \notin Runners /\ ~stop /\ stop' = stop
      /\ task' = task /\ task[w] = slots[front]
  BY <1>0 DEF Take, Tested, TypeOK, Runners
<1>2. Count \in Nat /\ Count' = Count - 1 /\ Count # 0
  BY <1>0, RingTake, QueueSizeAssumption DEF Take, Tested, TypeOK, Count, Indices
<1>3. /\ WaitingTasks \in Seq(Args) /\ Len(WaitingTasks) = Count
      /\ \A k \in 1 .. Count : WaitingTasks[k] = slots[Position(k)]
  BY <1>0, WaitingIsSeq
<1>4. WaitingTasks # <<>> /\ Head(WaitingTasks) = slots[front]
  <2>1. Position(1) = front
    BY <1>0, QueueSizeAssumption DEF Position, TypeOK, Indices
  <2> QED
    BY <1>2, <1>3, <2>1
<1>5. WaitingTasks' = Tail(WaitingTasks)
  <2>1. /\ Tail(WaitingTasks) \in Seq(Args) /\ Len(Tail(WaitingTasks)) = Count - 1
        /\ \A k \in 1 .. Count - 1 : Tail(WaitingTasks)[k] = WaitingTasks[k + 1]
    BY <1>2, <1>3, <1>4, HeadTailProperties
  <2>2. \A k \in 1 .. Count - 1 : Position(k)' = Position(k + 1)
    <3>1. front' = IF front = QueueSize - 1 THEN 0 ELSE front + 1
      BY <1>0, NextIndexWraps DEF Take, TypeOK
    <3>2. Count <= QueueSize - 1
      BY <1>0, Positions DEF TypeOK
    <3> QED
      BY <1>0, <1>2, <3>1, <3>2, QueueSizeAssumption DEF Position, TypeOK, Indices
  <2>3. WaitingTasks' = [k \in 1 .. Count - 1 |-> slots[Position(k + 1)]]
    BY <1>2, <2>2 DEF WaitingTasks, Take
  <2>4. \A k \in 1 .. Count - 1 : slots[Position(k + 1)] = WaitingTasks[k + 1] /\ WaitingTasks[k + 1] \in Args
    BY <1>2, <1>3
  <2>5. WaitingTasks' \in Seq(Args) /\ Len(WaitingTasks') = Count - 1
    BY <1>2, <2>3, <2>4
  <2>6. \A k \in 1 .. Count - 1 : WaitingTasks'[k] = Tail(WaitingTasks)[k]
    BY <2>1, <2>3, <2>4
  <2> QED
    BY <2>1, <2>5, <2>6, SeqEqual
<1>6. RunningTask' = [RunningTask EXCEPT ![w] = Head(WaitingTasks)]
  BY <1>0, <1>4 DEF RunningTask, Take, Tested, TypeOK
<1>7. RunningTask[w] = NoArg
  BY DEF RunningTask, Take
<1> QED
  BY <1>1, <1>4, <1>5, <1>6, <1>7 DEF Abstract!Start

LEMMA FinishFinishes ==
  ASSUME Inv, NEW w \in Workers, Finish(w)
  PROVE  Abstract!Finish(w)
<1> USE ThreadsAssumption, NullAssumption DEF Threads, Goto
<1>0. TypeOK /\ SingleOwner
  BY DEF Inv
<1>1. RunningTask[w] # NoArg
  BY <1>0 DEF RunningTask, Finish, SingleOwner, Runners, TypeOK
<1>2. RunningTask' = [RunningTask EXCEPT ![w] = NoArg]
  BY <1>0 DEF RunningTask, Finish, TypeOK
<1>3. WaitingTasks' = WaitingTasks
  BY DEF WaitingTasks, Count, Position, Finish
<1> QED
  BY <1>1, <1>2, <1>3 DEF Abstract!Finish, Finish

LEMMA StopCloses ==
  ASSUME Inv, Stop
  PROVE  Abstract!Close
<1> USE ThreadsAssumption, NullAssumption DEF Threads
<1>0. TypeOK /\ Tested
  BY DEF Inv
<1>1. Runners' = Runners
  BY <1>0 DEF Stop, Runners, TypeOK
<1>2. WaitingTasks' = WaitingTasks /\ RunningTask' = RunningTask
  BY <1>1 DEF WaitingTasks, RunningTask, Runners, Count, Position, Stop
<1> QED
  BY <1>0, <1>2 DEF Abstract!Close, Stop, Tested

LEMMA StepRefines ==
  Inv /\ Inv' /\ [Next]_vars => [Abstract!Next]_(Abstract!vars)
<1> SUFFICES ASSUME Inv, Inv', [Next]_vars PROVE [Abstract!Next]_(Abstract!vars)
  OBVIOUS
<1> USE ThreadsAssumption, NullAssumption DEF Threads, Goto, WorkerPCs, MainPCs
<1>0. TypeOK /\ Tested /\ SingleOwner
  BY DEF Inv
<1>1. CASE \E t \in Threads : Acquire(t)
  BY <1>0, <1>1, AbstractStutter DEF Acquire, Locking, Runners, TypeOK
<1>2. ASSUME NEW w \in Workers, FindEmpty(w) \/ Wait(w) \/ Quit(w) \/ SpuriousWake(w)
      PROVE  UNCHANGED Abstract!vars
  BY <1>0, <1>2, AbstractStutter DEF FindEmpty, Wait, Quit, SpuriousWake, Runners, TypeOK
<1>3. ASSUME NEW w \in Workers, Pick(w) PROVE UNCHANGED Abstract!vars
  BY <1>0, <1>3, AbstractStutter DEF Pick, Runners, TypeOK
<1>4. ASSUME NEW w \in Workers, Take(w) PROVE Abstract!Next
  BY <1>4, TakeStarts DEF Abstract!Next
<1>5. ASSUME NEW w \in Workers, Finish(w) PROVE Abstract!Next
  BY <1>5, FinishFinishes DEF Abstract!Next
<1>6. CASE Submit \/ ExitRequest \/ AddFull \/ Join
  BY <1>0, <1>6, AbstractStutter DEF Submit, ExitRequest, AddFull, Join, Runners, TypeOK
<1>7. CASE Put
  <2>1. rear \notin Queued /\ Queued \subseteq Indices
    BY <1>0, QueueSizeAssumption DEF Queued, Indices, TypeOK
  <2> QED
    BY <1>0, <1>7, <2>1, AbstractStutter DEF Put, Runners, TypeOK
<1>8. CASE AddTask
  <2>1. arg \in Args
    BY <1>0, <1>8 DEF AddTask, SingleOwner, Submitting, TypeOK
  <2> QED
    BY <1>8, <2>1, AddTaskAccepts DEF Abstract!Next
<1>9. CASE Stop
  BY <1>9, StopCloses DEF Abstract!Next
<1>10. CASE UNCHANGED vars
  BY <1>0, <1>10, AbstractStutter DEF vars, Runners
<1> QED
  BY <1>1, <1>2, <1>3, <1>4, <1>5, <1>6, <1>7, <1>8, <1>9, <1>10
     DEF Next, MainStep, MainInMutex, WorkerStep, InMutex, Terminated

LEMMA InitRefines == Init => Abstract!Init
<1> SUFFICES ASSUME Init PROVE Abstract!Init
  OBVIOUS
<1>1. Runners = {} /\ ~stop
  BY ThreadsAssumption DEF Init, Runners, Threads
<1>2. Count = 0
  BY DEF Init, Count
<1>3. WaitingTasks = <<>>
  BY <1>2 DEF WaitingTasks
<1>4. RunningTask = [w \in Workers |-> NoArg]
  BY <1>1 DEF RunningTask, Runners
<1> QED
  BY <1>1, <1>3, <1>4 DEF Abstract!Init

\* The ring, the mutex and the condition variable implement a bounded FIFO
\* queue that starts each accepted task at most once, in order, and none
\* after stop (thread_pool.c:6-39, 70-109).
THEOREM PoolImplementsQueue == Spec => ImplementsSafeQueue
<1>1. Inv /\ Inv' /\ [Next]_vars => [Abstract!Next]_(Abstract!vars)
  BY StepRefines
<1>2. Init => Abstract!Init
  BY InitRefines
<1> QED
  BY <1>1, <1>2, Invariance, PTL DEF Spec, ImplementsSafeQueue, Abstract!SafeSpec
=============================================================================
