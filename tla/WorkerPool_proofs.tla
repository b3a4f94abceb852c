------------------------- MODULE WorkerPool_proofs -------------------------
(***************************************************************************)
(* Theorems about WorkerPool, for any number of workers, producers and     *)
(* tasks and any queue limit.                                              *)
(*                                                                         *)
(* TypeOK is inductive.  With it, so are the count of tasks in flight, the *)
(* announcement of room, and, once the destructor's part is said (Stopped: *)
(* nobody sleeps in a stopped pool and a worker leaves it only with the    *)
(* queue empty), the count of workers on their way to the queue.           *)
(***************************************************************************)
EXTENDS WorkerPool, FiniteSetTheorems, SequenceTheorems, TLAPS

Labels == {"loop", "cwait", "notify", "run", "finish", "exited", "idle",
           "enqueue", "pwait", "threw"}
BusyWorkers == {w \in Workers : Busy(w)}

(* Waking threads that wait moves consumers to "loop" and producers to     *)
(* "enqueue", and moves nobody else.                                       *)
LEMMA WakeMoves ==
  ASSUME TypeOK,
         NEW set \in SUBSET (condition_consumers \union condition_producers)
  PROVE  /\ Wake(set, pc) \in [Threads -> Labels]
         /\ \A th \in Threads :
              /\ th \notin set => Wake(set, pc)[th] = pc[th]
              /\ th \in set => \/ pc[th] = "cwait" /\ Wake(set, pc)[th] = "loop"
                               \/ pc[th] = "pwait" /\ Wake(set, pc)[th] = "enqueue"
<1>1. \A th \in set : pc[th] \in {"cwait", "pwait"}
  BY DEF condition_consumers, condition_producers, At
<1> QED
  BY <1>1 DEF Wake, Retest, Labels, TypeOK

(* Enqueue moves its caller, and at most one sleeping worker. *)
LEMMA EnqueueMoves ==
  ASSUME TypeOK, NEW th \in Threads, Enqueue(th)
  PROVE  /\ pc' \in [Threads -> Labels] /\ pc'[th] = AfterEnqueue(th)
         /\ \A v \in Threads \ {th} :
              pc'[v] = pc[v] \/ (pc[v] = "cwait" /\ pc'[v] = "loop")
<1>1. pc \in [Threads -> Labels] /\ AfterEnqueue(th) \in Labels
  BY DEF TypeOK, Labels, AfterEnqueue
<1>2. CASE condition_consumers = {}
  BY <1>1, <1>2 DEF Enqueue, Goto
<1>3. CASE condition_consumers # {}
  <2>1. PICK w \in condition_consumers :
          pc' = [Wake({w}, pc) EXCEPT ![th] = AfterEnqueue(th)]
    BY <1>3 DEF Enqueue
  <2>2. {w} \in SUBSET (condition_consumers \union condition_producers)
        /\ pc[w] = "cwait"
    BY DEF condition_consumers, At
  <2>3. /\ Wake({w}, pc) \in [Threads -> Labels]
        /\ \A v \in Threads : \/ Wake({w}, pc)[v] = pc[v]
                              \/ pc[v] = "cwait" /\ Wake({w}, pc)[v] = "loop"
    BY <2>2, WakeMoves
  <2> QED
    BY <1>1, <2>1, <2>3
<1> QED
  BY <1>2, <1>3

(* Init establishes the type invariant. *)
LEMMA InitTypeOK == Init => TypeOK
<1> SUFFICES ASSUME Init PROVE TypeOK
  OBVIOUS
<1>1. \A w \in Workers : w \notin Producers /\ w \in Threads
  BY PoolAssumption DEF Threads
<1>2. \A p \in Producers : p \notin Workers /\ p \in Threads
  BY PoolAssumption DEF Threads
<1>3. tasks \in Seq(Tasks) /\ Len(tasks) <= MaxQueue
  BY PoolAssumption DEF Init
<1>4. \A w \in Workers : pc[w] = "loop" /\ held[w] = NoTask
  BY <1>1 DEF Init
<1>5. \A p \in Producers : pc[p] = "idle"
  BY <1>2 DEF Init
<1>6. held \in [Threads -> Tasks \union {NoTask}] /\ pc \in [Threads -> Labels]
  BY DEF Init, Labels
<1> QED
  BY <1>3, <1>4, <1>5, <1>6 DEF Init, TypeOK, Busy, Labels

(* Every step preserves the type invariant. *)
LEMMA NextTypeOK == TypeOK /\ InFlightCounts /\ [Next]_vars => TypeOK'
<1> SUFFICES ASSUME TypeOK, InFlightCounts, [Next]_vars PROVE TypeOK'
  OBVIOUS
<1> USE DEF TypeOK, At, Goto, Busy
<1>a. Threads = Workers \union Producers /\ NoTask \notin Tasks
      /\ MaxQueue \in Nat \ {0} /\ Workers \intersect Producers = {}
  BY PoolAssumption DEF Threads
<1>1. ASSUME NEW w \in Workers, WorkerLoop(w) PROVE TypeOK'
  <2>w. w \in Threads /\ w \notin Producers
    BY <1>a
  <2>1. CASE WaitForTask(w)
    BY <1>a, <2>w, <2>1 DEF WaitForTask
  <2>2. CASE WorkerExit(w)
    BY <1>a, <2>w, <2>2 DEF WorkerExit
  <2>3. CASE TakeTask(w)
    <3>1. Head(tasks) \in Tasks /\ Tail(tasks) \in Seq(Tasks)
          /\ Len(Tail(tasks)) = Len(tasks) - 1 /\ Len(tasks) \in Nat
      BY <2>3 DEF TakeTask
    <3>2. tasks' \in Seq(Tasks) /\ Len(tasks') <= MaxQueue
      <4>1. tasks' = Tail(tasks)
        BY <2>3 DEF TakeTask
      <4>2. Len(tasks) - 1 <= MaxQueue
        BY <1>a, <3>1
      <4> QED
        BY <3>1, <4>1, <4>2
    <3>3. /\ held' = [held EXCEPT ![w] = Head(tasks)] /\ pc[w] = "loop"
          /\ \/ pc' = [pc EXCEPT ![w] = "notify"]
             \/ pc' = [pc EXCEPT ![w] = "run"]
          /\ UNCHANGED <<stop, in_flight, unposted, done, paused>>
      BY <2>3 DEF TakeTask
    <3> QED
      BY <1>a, <2>w, <3>1, <3>2, <3>3
  <2>4. CASE NotifyProducers(w)
    <3>1. /\ Wake(condition_producers, pc) \in [Threads -> Labels]
          /\ \A th \in Threads :
               \/ Wake(condition_producers, pc)[th] = pc[th]
               \/ /\ pc[th] = "pwait"
                  /\ Wake(condition_producers, pc)[th] = "enqueue"
      BY WakeMoves DEF condition_producers
    <3>2. pc[w] = "notify" /\ pc' = [Wake(condition_producers, pc) EXCEPT ![w] = "run"]
          /\ UNCHANGED <<tasks, stop, in_flight, held, unposted, done, paused>>
      BY <2>4 DEF NotifyProducers
    <3>3. /\ pc' \in [Threads -> Labels] /\ pc'[w] = "run"
          /\ \A th \in Threads \ {w} :
               pc'[th] = pc[th] \/ (pc[th] = "pwait" /\ pc'[th] = "enqueue")
      BY <2>w, <3>1, <3>2 DEF Labels
    <3> QED
      BY <1>a, <2>w, <3>2, <3>3 DEF Labels
  <2>5. CASE RunSend(w)
    BY <1>a, <2>w, <2>5 DEF RunSend, Tasks
  <2>6. CASE RunReceive(w)
    BY <1>a, <2>w, <2>6 DEF RunReceive, Tasks
  <2>7. CASE Finish(w)
    <3>1. in_flight - 1 \in Nat
      <4>1. w \in BusyWorkers
        BY <2>7 DEF Finish, BusyWorkers
      <4>2. IsFiniteSet(BusyWorkers)
        BY PoolAssumption, FS_Subset DEF BusyWorkers
      <4>3. Cardinality(BusyWorkers) \in Nat /\ Cardinality(BusyWorkers) # 0
        BY <4>1, <4>2, FS_CardinalityType, FS_EmptySet
      <4>4. in_flight = Len(tasks) + Cardinality(BusyWorkers) /\ Len(tasks) \in Nat
        BY DEF InFlightCounts, BusyWorkers
      <4> QED
        BY <4>3, <4>4
    <3> QED
      BY <1>a, <2>w, <2>7, <3>1 DEF Finish
  <2> QED
    BY <1>1, <2>1, <2>2, <2>3, <2>4, <2>5, <2>6, <2>7 DEF WorkerLoop
<1>2. ASSUME NEW p \in Producers, Post(p) PROVE TypeOK'
  <2>1. PICK t \in unposted : held' = [held EXCEPT ![p] = t] /\ unposted' = unposted \ {t}
    BY <1>2 DEF Post
  <2>2. t \in Tasks /\ p \in Threads /\ p \notin Workers /\ t # NoTask
    BY <1>a
  <2>3. pc[p] = "idle" /\ pc' = [pc EXCEPT ![p] = "enqueue"]
        /\ UNCHANGED <<tasks, stop, in_flight, done, paused>>
    BY <1>2 DEF Post
  <2> QED
    BY <1>a, <2>1, <2>2, <2>3
<1>3. ASSUME NEW th \in Threads, EnqueueStep(th) PROVE TypeOK'
  <2>1. CASE WaitForRoom(th)
    BY <1>a, <2>1 DEF WaitForRoom
  <2>2. CASE EnqueueOnStopped(th)
    BY <1>a, <2>2 DEF EnqueueOnStopped
  <2>3. CASE Enqueue(th)
    <3>1. pc[th] = "enqueue" /\ held[th] \in Tasks
      BY <1>a, <2>3 DEF Enqueue
    <3>2. tasks' \in Seq(Tasks) /\ Len(tasks') <= MaxQueue /\ in_flight' \in Nat
      <4>1. tasks' = Append(tasks, held[th]) /\ Len(tasks) < MaxQueue
            /\ in_flight' = in_flight + 1
        BY <2>3 DEF Enqueue
      <4>2. tasks' \in Seq(Tasks) /\ Len(tasks') = Len(tasks) + 1 /\ Len(tasks) \in Nat
        BY <3>1, <4>1
      <4> QED
        BY <1>a, <4>1, <4>2
    <3>3. /\ pc' \in [Threads -> Labels] /\ pc'[th] = AfterEnqueue(th)
          /\ \A v \in Threads \ {th} :
               pc'[v] = pc[v] \/ (pc[v] = "cwait" /\ pc'[v] = "loop")
      BY <2>3, EnqueueMoves
    <3>4. /\ held' = IF th \in Workers THEN held ELSE [held EXCEPT ![th] = NoTask]
          /\ UNCHANGED <<stop, unposted, done, paused>>
      BY <2>3 DEF Enqueue
    <3>5. /\ th \in Workers => held' = held /\ pc'[th] = "finish"
          /\ th \in Producers => /\ held' = [held EXCEPT ![th] = NoTask]
                                 /\ pc'[th] = "idle"
      BY <1>a, <3>3, <3>4 DEF AfterEnqueue
    <3>6. held' \in [Threads -> Tasks \union {NoTask}]
          /\ \A v \in Threads \ {th} : held'[v] = held[v]
      BY <1>a, <3>5
    <3>7. \A w \in Workers : /\ pc'[w] \notin {"idle", "threw"}
                             /\ Busy(w)' <=> held'[w] # NoTask
      BY <1>a, <3>1, <3>3, <3>5, <3>6
    <3>8. \A p \in Producers :
            /\ pc'[p] \in {"idle", "enqueue", "pwait", "threw"}
            /\ pc'[p] \in {"enqueue", "pwait"} => held'[p] # NoTask
      BY <1>a, <3>1, <3>3, <3>5, <3>6
    <3> QED
      BY <3>2, <3>3, <3>4, <3>6, <3>7, <3>8 DEF Labels
  <2> QED
    BY <1>3, <2>1, <2>2, <2>3 DEF EnqueueStep
<1>4. ASSUME NEW set \in SUBSET (condition_consumers \union condition_producers),
             pc' = Wake(set, pc), stop' \in BOOLEAN,
             UNCHANGED <<tasks, in_flight, held, unposted, done, paused>>
      PROVE  TypeOK'
  <2>1. /\ pc' \in [Threads -> Labels]
        /\ \A th \in Threads : \/ pc'[th] = pc[th]
                               \/ pc[th] = "cwait" /\ pc'[th] = "loop"
                               \/ pc[th] = "pwait" /\ pc'[th] = "enqueue"
    BY <1>4, WakeMoves
  <2> QED
    BY <1>a, <1>4, <2>1 DEF Labels
<1>5. ASSUME NEW th \in Threads, SpuriousWakeup(th) PROVE TypeOK'
  BY <1>4, <1>5 DEF SpuriousWakeup
<1>6. CASE Destroy
  BY <1>4, <1>6 DEF Destroy
<1>7. CASE UNCHANGED vars
  BY <1>7 DEF vars
<1> QED
  BY <1>1, <1>2, <1>3, <1>5, <1>6, <1>7 DEF Next, Finished

-----------------------------------------------------------------------------
(* No task, no busy worker. *)
LEMMA InitCount == Init => InFlightCounts
<1> SUFFICES ASSUME Init PROVE InFlightCounts
  OBVIOUS
<1>1. \A w \in Workers : pc[w] = "loop"
  BY DEF Init, Threads
<1>2. {w \in Workers : Busy(w)} = {}
  BY <1>1 DEF Busy
<1>3. Len(tasks) = 0 /\ in_flight = 0
  BY DEF Init
<1> QED
  BY <1>2, <1>3, FS_EmptySet DEF InFlightCounts

(* A task is counted from the critical section that queues it to the end   *)
(* of its run: TakeTask moves it from the queue to a worker, Finish drops  *)
(* both the worker and the count.                                          *)
LEMMA NextCount == TypeOK /\ InFlightCounts /\ [Next]_vars => InFlightCounts'
<1> SUFFICES ASSUME TypeOK, InFlightCounts, [Next]_vars PROVE InFlightCounts'
  OBVIOUS
<1> DEFINE B == BusyWorkers
<1>a. /\ IsFiniteSet(B) /\ Cardinality(B) \in Nat
      /\ Len(tasks) \in Nat /\ in_flight = Len(tasks) + Cardinality(B)
  <2>1. IsFiniteSet(B)
    BY PoolAssumption, FS_Subset DEF BusyWorkers
  <2> QED
    BY <2>1, FS_CardinalityType DEF InFlightCounts, BusyWorkers, TypeOK
<1>b. ASSUME B' = B, UNCHANGED <<tasks, in_flight>> PROVE InFlightCounts'
  BY <1>a, <1>b DEF InFlightCounts, BusyWorkers
<1>c. pc \in [Threads -> Labels] /\ Workers \subseteq Threads
      /\ Producers \subseteq Threads /\ Workers \intersect Producers = {}
  BY PoolAssumption DEF TypeOK, Labels, Threads
<1> USE DEF At, Goto
<1>1. ASSUME NEW w \in Workers, WorkerLoop(w) PROVE InFlightCounts'
  <2>1. CASE WaitForTask(w)
    <3>1. B' = B
      BY <1>c, <2>1 DEF WaitForTask, BusyWorkers, Busy
    <3> QED
      BY <1>b, <2>1, <3>1 DEF WaitForTask
  <2>2. CASE WorkerExit(w)
    <3>1. B' = B
      BY <1>c, <2>2 DEF WorkerExit, BusyWorkers, Busy
    <3> QED
      BY <1>b, <2>2, <3>1 DEF WorkerExit
  <2>3. CASE TakeTask(w)
    <3>1. pc[w] = "loop" /\ (pc' = [pc EXCEPT ![w] = "notify"] \/ pc' = [pc EXCEPT ![w] = "run"])
      BY <2>3 DEF TakeTask
    <3>2. w \notin B /\ B' = B \union {w}
      BY <1>c, <3>1 DEF BusyWorkers, Busy
    <3>3. Cardinality(B') = Cardinality(B) + 1
      BY <1>a, <3>2, FS_AddElement
    <3>4. Len(tasks') = Len(tasks) - 1 /\ in_flight' = in_flight
      BY <2>3 DEF TakeTask, TypeOK
    <3> QED
      BY <1>a, <3>3, <3>4 DEF InFlightCounts, BusyWorkers
  <2>4. CASE NotifyProducers(w)
    <3>1. /\ pc[w] = "notify"
          /\ pc' = [Wake(condition_producers, pc) EXCEPT ![w] = "run"]
          /\ UNCHANGED <<tasks, in_flight>>
      BY <2>4 DEF NotifyProducers
    <3>2. /\ Wake(condition_producers, pc) \in [Threads -> Labels]
          /\ \A th \in Threads :
               \/ Wake(condition_producers, pc)[th] = pc[th]
               \/ /\ pc[th] = "pwait"
                  /\ Wake(condition_producers, pc)[th] = "enqueue"
      BY WakeMoves DEF condition_producers
    <3>3. pc'[w] = "run" /\ \A v \in Workers \ {w} :
            pc'[v] = pc[v] \/ (pc[v] = "pwait" /\ pc'[v] = "enqueue")
      BY <1>c, <3>1, <3>2
    <3>4. \A v \in Workers : Busy(v)' <=> Busy(v)
      BY <3>1, <3>3 DEF Busy
    <3>5. B' = B
      BY <3>4 DEF BusyWorkers
    <3> QED
      BY <1>b, <3>1, <3>5
  <2>5. CASE RunSend(w)
    <3>1. B' = B
      BY <1>c, <2>5 DEF RunSend, BusyWorkers, Busy
    <3> QED
      BY <1>b, <2>5, <3>1 DEF RunSend
  <2>6. CASE RunReceive(w)
    <3>1. B' = B
      BY <1>c, <2>6 DEF RunReceive, BusyWorkers, Busy
    <3> QED
      BY <1>b, <2>6, <3>1 DEF RunReceive
  <2>7. CASE Finish(w)
    <3>1. pc[w] = "finish" /\ pc' = [pc EXCEPT ![w] = "loop"]
          /\ tasks' = tasks /\ in_flight' = in_flight - 1
      BY <2>7 DEF Finish
    <3>2. w \in B /\ B' = B \ {w}
      BY <1>c, <3>1 DEF BusyWorkers, Busy
    <3>3. Cardinality(B') = Cardinality(B) - 1
      BY <1>a, <3>2, FS_RemoveElement
    <3> QED
      BY <1>a, <3>1, <3>3 DEF InFlightCounts, BusyWorkers
  <2> QED
    BY <1>1, <2>1, <2>2, <2>3, <2>4, <2>5, <2>6, <2>7 DEF WorkerLoop
<1>2. ASSUME NEW p \in Producers, Post(p) PROVE InFlightCounts'
  <2>1. B' = B
    BY <1>2, <1>c DEF Post, BusyWorkers, Busy
  <2> QED
    BY <1>b, <1>2, <2>1 DEF Post
<1>3. ASSUME NEW th \in Threads, EnqueueStep(th) PROVE InFlightCounts'
  <2>1. CASE WaitForRoom(th)
    <3>1. B' = B
      BY <1>c, <2>1 DEF WaitForRoom, BusyWorkers, Busy
    <3> QED
      BY <1>b, <2>1, <3>1 DEF WaitForRoom
  <2>2. CASE EnqueueOnStopped(th)
    <3>1. B' = B
      BY <1>c, <2>2 DEF EnqueueOnStopped, BusyWorkers, Busy
    <3> QED
      BY <1>b, <2>2, <3>1 DEF EnqueueOnStopped
  <2>3. CASE Enqueue(th)
    <3>1. /\ pc' \in [Threads -> Labels] /\ pc'[th] = AfterEnqueue(th)
          /\ \A v \in Threads \ {th} :
               pc'[v] = pc[v] \/ (pc[v] = "cwait" /\ pc'[v] = "loop")
      BY <2>3, EnqueueMoves
    <3>2. pc[th] = "enqueue" /\ tasks' = Append(tasks, held[th])
          /\ in_flight' = in_flight + 1
      BY <2>3 DEF Enqueue
    <3>3. th \in Workers => pc'[th] = "finish"
      BY <3>1 DEF AfterEnqueue
    <3>4. ASSUME NEW v \in Workers PROVE Busy(v)' <=> Busy(v)
      <4>1. CASE v = th
        BY <3>2, <3>3, <4>1 DEF Busy
      <4>2. CASE v # th
        <5>1. pc'[v] = pc[v] \/ (pc[v] = "cwait" /\ pc'[v] = "loop")
          BY <1>c, <3>1, <4>2
        <5> QED
          BY <5>1 DEF Busy
      <4> QED
        BY <4>1, <4>2
    <3>5. B' = B
      BY <3>4 DEF BusyWorkers
    <3>6. Len(tasks') = Len(tasks) + 1
      BY <3>2 DEF TypeOK
    <3>7. in_flight = Len(tasks) + Cardinality(B)
      BY DEF InFlightCounts, BusyWorkers
    <3>8. in_flight' = Len(tasks') + Cardinality(B)
      BY <1>a, <3>2, <3>6, <3>7
    <3>9. in_flight' = Len(tasks') + Cardinality(BusyWorkers')
      BY <3>5, <3>8
    <3> QED
      BY <3>9 DEF InFlightCounts, BusyWorkers
  <2> QED
    BY <1>3, <2>1, <2>2, <2>3 DEF EnqueueStep
<1>4. ASSUME NEW set \in SUBSET (condition_consumers \union condition_producers),
             pc' = Wake(set, pc), UNCHANGED <<tasks, in_flight>>
      PROVE  InFlightCounts'
  <2>1. \A th \in Threads : \/ pc'[th] = pc[th]
                            \/ pc[th] = "cwait" /\ pc'[th] = "loop"
                            \/ pc[th] = "pwait" /\ pc'[th] = "enqueue"
    BY <1>4, WakeMoves
  <2>2. B' = B
    BY <1>c, <2>1 DEF BusyWorkers, Busy
  <2> QED
    BY <1>b, <1>4, <2>2
<1>5. ASSUME NEW th \in Threads, SpuriousWakeup(th) PROVE InFlightCounts'
  BY <1>4, <1>5 DEF SpuriousWakeup
<1>6. CASE Destroy
  BY <1>4, <1>6 DEF Destroy
<1>7. CASE UNCHANGED vars
  BY <1>7 DEF vars, InFlightCounts, Busy
<1> QED
  BY <1>1, <1>2, <1>3, <1>5, <1>6, <1>7 DEF Next, Finished

(* Every thread is at a label of its kind, the queue stays within          *)
(* max_queue_size, and a worker holds a task exactly while it is busy.     *)
THEOREM TypeCorrect == Spec => []TypeOK
<1>1. Init => TypeOK /\ InFlightCounts
  BY InitTypeOK, InitCount
<1>2. TypeOK /\ InFlightCounts /\ [Next]_vars => (TypeOK /\ InFlightCounts)'
  BY NextTypeOK, NextCount
<1> QED
  BY <1>1, <1>2, PTL DEF Spec

(* in_flight is the number of queued tasks and busy workers, through       *)
(* re-enqueued tasks and exceptions of a stopped pool.                     *)
THEOREM CountsInFlight == Spec => []InFlightCounts
<1>1. Init => TypeOK /\ InFlightCounts
  BY InitTypeOK, InitCount
<1>2. TypeOK /\ InFlightCounts /\ [Next]_vars => (TypeOK /\ InFlightCounts)'
  BY NextTypeOK, NextCount
<1> QED
  BY <1>1, <1>2, PTL DEF Spec

-----------------------------------------------------------------------------
(* What TypeOK gives every proof below. *)
LEMMA Sorts ==
  ASSUME TypeOK
  PROVE  /\ pc \in [Threads -> Labels]
         /\ Workers \subseteq Threads /\ Producers \subseteq Threads
         /\ Threads = Workers \union Producers
         /\ Workers \intersect Producers = {}
         /\ tasks \in Seq(Tasks) /\ Len(tasks) \in Nat
         /\ MaxQueue \in Nat \ {0}
  BY PoolAssumption DEF TypeOK, Labels, Threads

(* Nobody sleeps in a stopped pool, and a worker leaves a stopped pool     *)
(* only when its queue is empty; then it stays empty.                      *)
Stopped ==
  /\ stop => condition_consumers = {} /\ condition_producers = {}
  /\ (\E w \in Workers : pc[w] = "exited") => stop /\ tasks = << >>

(* The pool starts neither stopped nor left by anybody. *)
LEMMA InitStopped == Init => Stopped
  BY PoolAssumption DEF Init, Stopped, At, condition_consumers,
     condition_producers, Threads

(* Destroy wakes everybody, and nobody goes to sleep after it; a worker    *)
(* leaves with the queue empty, and nothing is queued after it.            *)
LEMMA NextStopped == TypeOK /\ Stopped /\ [Next]_vars => Stopped'
<1> SUFFICES ASSUME TypeOK, Stopped, [Next]_vars PROVE Stopped'
  OBVIOUS
<1> USE DEF At, Goto
<1>a. /\ pc \in [Threads -> Labels]
      /\ Workers \subseteq Threads /\ Producers \subseteq Threads
  BY Sorts
<1>b. Stopped <=> /\ stop => \A th \in Threads : /\ pc[th] # "pwait"
                                                 /\ th \in Workers => pc[th] # "cwait"
                  /\ \A w \in Workers : pc[w] = "exited" => stop /\ tasks = << >>
  BY <1>a DEF Stopped, condition_consumers, condition_producers
<1>c. Stopped' <=> /\ stop' => \A th \in Threads : /\ pc'[th] # "pwait"
                                                   /\ th \in Workers => pc'[th] # "cwait"
                   /\ \A w \in Workers : pc'[w] = "exited" => stop' /\ tasks' = << >>
  BY <1>a DEF Stopped, condition_consumers, condition_producers
<1>1. ASSUME NEW w \in Workers, WorkerLoop(w) PROVE Stopped'
  <2>1. CASE WaitForTask(w)
    BY <1>a, <1>b, <1>c, <2>1 DEF WaitForTask
  <2>2. CASE WorkerExit(w)
    BY <1>a, <1>b, <1>c, <2>2 DEF WorkerExit
  <2>3. CASE TakeTask(w)
    <3>1. /\ tasks # << >> /\ stop' = stop
          /\ pc' = [pc EXCEPT ![w] = "notify"] \/ pc' = [pc EXCEPT ![w] = "run"]
      BY <2>3 DEF TakeTask
    <3> QED
      BY <1>a, <1>b, <1>c, <3>1
  <2>4. CASE NotifyProducers(w)
    <3>1. /\ pc' = [Wake(condition_producers, pc) EXCEPT ![w] = "run"]
          /\ UNCHANGED <<tasks, stop>>
      BY <2>4 DEF NotifyProducers
    <3>2. /\ Wake(condition_producers, pc) \in [Threads -> Labels]
          /\ \A th \in Threads :
               \/ Wake(condition_producers, pc)[th] = pc[th]
               \/ Wake(condition_producers, pc)[th] = "enqueue"
      BY WakeMoves DEF condition_producers
    <3>3. \A th \in Threads : pc'[th] = pc[th] \/ pc'[th] \in {"run", "enqueue"}
      BY <1>a, <3>1, <3>2
    <3> QED
      BY <1>a, <1>b, <1>c, <3>1, <3>3
  <2>5. CASE RunSend(w)
    BY <1>a, <1>b, <1>c, <2>5 DEF RunSend
  <2>6. CASE RunReceive(w)
    BY <1>a, <1>b, <1>c, <2>6 DEF RunReceive
  <2>7. CASE Finish(w)
    BY <1>a, <1>b, <1>c, <2>7 DEF Finish
  <2> QED
    BY <1>1, <2>1, <2>2, <2>3, <2>4, <2>5, <2>6, <2>7 DEF WorkerLoop
<1>2. ASSUME NEW p \in Producers, Post(p) PROVE Stopped'
  BY <1>2, <1>a, <1>b, <1>c DEF Post
<1>3. ASSUME NEW th \in Threads, EnqueueStep(th) PROVE Stopped'
  <2>1. CASE WaitForRoom(th)
    BY <1>a, <1>b, <1>c, <2>1 DEF WaitForRoom
  <2>2. CASE EnqueueOnStopped(th)
    BY <1>a, <1>b, <1>c, <2>2 DEF EnqueueOnStopped
  <2>3. CASE Enqueue(th)
    <3>1. /\ pc' \in [Threads -> Labels] /\ pc'[th] = AfterEnqueue(th)
          /\ \A v \in Threads \ {th} :
               pc'[v] = pc[v] \/ (pc[v] = "cwait" /\ pc'[v] = "loop")
      BY <2>3, EnqueueMoves
    <3>2. ~stop /\ ~stop'
      BY <2>3 DEF Enqueue
    <3> QED
      BY <1>a, <1>b, <1>c, <3>1, <3>2 DEF AfterEnqueue
  <2> QED
    BY <1>3, <2>1, <2>2, <2>3 DEF EnqueueStep
<1>4. ASSUME NEW th \in Threads, SpuriousWakeup(th) PROVE Stopped'
  <2>1. \A v \in Threads : pc'[v] = pc[v] \/ pc'[v] \in {"loop", "enqueue"}
    BY <1>4, WakeMoves DEF SpuriousWakeup
  <2> QED
    BY <1>4, <1>a, <1>b, <1>c, <2>1 DEF SpuriousWakeup
<1>5. CASE Destroy
  <2>1. \A v \in Threads :
          /\ pc'[v] = pc[v] \/ pc'[v] \in {"loop", "enqueue"}
          /\ pc'[v] # "pwait" /\ (v \in Workers => pc'[v] # "cwait")
    BY <1>5, <1>a, WakeMoves DEF Destroy, condition_consumers, condition_producers
  <2> QED
    BY <1>5, <1>a, <1>b, <1>c, <2>1 DEF Destroy
<1>6. CASE UNCHANGED vars
  BY <1>6, <1>b, <1>c DEF vars
<1> QED
  BY <1>1, <1>2, <1>3, <1>4, <1>5, <1>6 DEF Next, Finished

(* assert(in_flight == 0) in ~ThreadPool: once the workers are joined no   *)
(* task is queued and none is counted.                                     *)
THEOREM DestructorAssertHolds == Spec => []DtorAssert
<1>1. Init => TypeOK /\ InFlightCounts /\ Stopped
  BY InitTypeOK, InitCount, InitStopped
<1>2. TypeOK /\ InFlightCounts /\ Stopped /\ [Next]_vars
        => (TypeOK /\ InFlightCounts /\ Stopped)'
  BY NextTypeOK, NextCount, NextStopped
<1>3. InFlightCounts /\ Stopped => DtorAssert
  <2> SUFFICES ASSUME InFlightCounts, Stopped, Joined
               PROVE  in_flight = 0 /\ tasks = << >>
    BY DEF DtorAssert
  <2>1. tasks = << >>
    BY PoolAssumption DEF Stopped, Joined
  <2>2. {w \in Workers : Busy(w)} = {}
    BY DEF Joined, At, Busy
  <2> QED
    BY <2>1, <2>2, FS_EmptySet DEF InFlightCounts
<1> QED
  BY <1>1, <1>2, <1>3, PTL DEF Spec

-----------------------------------------------------------------------------
(* No wakeup of a producer is lost: when one waits although there is room, *)
(* the worker that made the room has not notified yet.  The notification   *)
(* is sent by the pop from a full queue only; RoomIsAnnounced is inductive *)
(* because every later pop finds that worker still on its way.             *)
LEMMA InitRoom == Init => RoomIsAnnounced
  BY PoolAssumption DEF Init, RoomIsAnnounced, condition_producers, At, Threads

(* TakeTask from a full queue announces the room it makes; NotifyProducers *)
(* leaves no producer waiting.                                             *)
LEMMA NextRoom == TypeOK /\ RoomIsAnnounced /\ [Next]_vars => RoomIsAnnounced'
<1> SUFFICES ASSUME TypeOK, RoomIsAnnounced, [Next]_vars PROVE RoomIsAnnounced'
  OBVIOUS
<1> USE DEF At, Goto
<1>a. /\ pc \in [Threads -> Labels] /\ Workers \subseteq Threads
      /\ Producers \subseteq Threads /\ Len(tasks) \in Nat /\ MaxQueue \in Nat
      /\ tasks \in Seq(Tasks) /\ Len(tasks) <= MaxQueue
  BY Sorts DEF TypeOK
<1>b. RoomIsAnnounced <=>
        ((\E th \in Threads : pc[th] = "pwait") /\ Len(tasks) < MaxQueue
           => \E w \in Workers : pc[w] = "notify")
  BY DEF RoomIsAnnounced, condition_producers
<1>c. RoomIsAnnounced' <=>
        ((\E th \in Threads : pc'[th] = "pwait") /\ Len(tasks') < MaxQueue
           => \E w \in Workers : pc'[w] = "notify")
  BY DEF RoomIsAnnounced, condition_producers
<1>d. ASSUME Len(tasks') < MaxQueue => Len(tasks) < MaxQueue,
             \A th \in Threads : pc'[th] = "pwait" => pc[th] = "pwait",
             \A w \in Workers : pc[w] = "notify" => pc'[w] = "notify"
      PROVE  RoomIsAnnounced'
  BY <1>b, <1>c, <1>d
<1>1. ASSUME NEW w \in Workers, WorkerLoop(w) PROVE RoomIsAnnounced'
  <2>1. CASE WaitForTask(w)
    BY <1>a, <1>d, <2>1 DEF WaitForTask
  <2>2. CASE WorkerExit(w)
    BY <1>a, <1>d, <2>2 DEF WorkerExit
  <2>3. CASE TakeTask(w)
    <3>1. pc[w] = "loop" /\ Len(tasks') = Len(tasks) - 1
          /\ \/ pc' = [pc EXCEPT ![w] = "notify"]
             \/ Len(tasks) # MaxQueue /\ pc' = [pc EXCEPT ![w] = "run"]
      <4>1. pc[w] = "loop" /\ tasks # << >> /\ tasks' = Tail(tasks)
        BY <2>3 DEF TakeTask
      <4>2. Len(tasks') = Len(tasks) - 1
        BY <1>a, <4>1
      <4>3. CASE Len(tasks) = MaxQueue \/ tasks' = << >>
        BY <2>3, <4>1, <4>2, <4>3 DEF TakeTask
      <4>4. CASE ~(Len(tasks) = MaxQueue \/ tasks' = << >>)
        BY <2>3, <4>1, <4>2, <4>4 DEF TakeTask
      <4> QED
        BY <4>3, <4>4
    <3>2. CASE pc' = [pc EXCEPT ![w] = "notify"]
      BY <1>a, <1>c, <3>2
    <3>3. CASE Len(tasks) # MaxQueue /\ pc' = [pc EXCEPT ![w] = "run"]
      <4>1. Len(tasks) < MaxQueue
        BY <1>a, <3>3
      <4> QED
        BY <1>a, <1>d, <3>1, <3>3, <4>1
    <3> QED
      BY <3>1, <3>2, <3>3
  <2>4. CASE NotifyProducers(w)
    <3>1. pc' = [Wake(condition_producers, pc) EXCEPT ![w] = "run"]
      BY <2>4 DEF NotifyProducers
    <3>2. /\ Wake(condition_producers, pc) \in [Threads -> Labels]
          /\ \A th \in Threads : Wake(condition_producers, pc)[th] # "pwait"
      BY WakeMoves DEF condition_producers
    <3>3. \A th \in Threads : pc'[th] # "pwait"
      BY <1>a, <3>1, <3>2
    <3> QED
      BY <1>c, <3>3
  <2>5. CASE RunSend(w)
    BY <1>a, <1>d, <2>5 DEF RunSend
  <2>6. CASE RunReceive(w)
    BY <1>a, <1>d, <2>6 DEF RunReceive
  <2>7. CASE Finish(w)
    BY <1>a, <1>d, <2>7 DEF Finish
  <2> QED
    BY <1>1, <2>1, <2>2, <2>3, <2>4, <2>5, <2>6, <2>7 DEF WorkerLoop
<1>2. ASSUME NEW p \in Producers, Post(p) PROVE RoomIsAnnounced'
  BY <1>2, <1>a, <1>d DEF Post
<1>3. ASSUME NEW th \in Threads, EnqueueStep(th) PROVE RoomIsAnnounced'
  <2>1. CASE WaitForRoom(th)
    BY <1>a, <1>c, <2>1 DEF WaitForRoom
  <2>2. CASE EnqueueOnStopped(th)
    BY <1>a, <1>d, <2>2 DEF EnqueueOnStopped
  <2>3. CASE Enqueue(th)
    <3>1. /\ pc' \in [Threads -> Labels] /\ pc'[th] = AfterEnqueue(th)
          /\ \A v \in Threads \ {th} :
               pc'[v] = pc[v] \/ (pc[v] = "cwait" /\ pc'[v] = "loop")
      BY <2>3, EnqueueMoves
    <3>2. pc[th] = "enqueue" /\ Len(tasks) < MaxQueue /\ AfterEnqueue(th) # "pwait"
      BY <2>3 DEF Enqueue, AfterEnqueue
    <3>3. \A v \in Threads : /\ pc'[v] = "pwait" => pc[v] = "pwait"
                             /\ pc[v] = "notify" => pc'[v] = "notify"
      BY <3>1, <3>2
    <3> QED
      BY <1>a, <1>d, <3>2, <3>3
  <2> QED
    BY <1>3, <2>1, <2>2, <2>3 DEF EnqueueStep
<1>4. ASSUME NEW set \in SUBSET (condition_consumers \union condition_producers),
             pc' = Wake(set, pc), tasks' = tasks
      PROVE  RoomIsAnnounced'
  <2>1. \A th \in Threads :
          \/ pc'[th] = pc[th]
          \/ pc[th] \in {"cwait", "pwait"} /\ pc'[th] \in {"loop", "enqueue"}
    BY <1>4, WakeMoves
  <2> QED
    BY <1>4, <1>a, <1>d, <2>1
<1>5. ASSUME NEW th \in Threads, SpuriousWakeup(th) PROVE RoomIsAnnounced'
  BY <1>4, <1>5 DEF SpuriousWakeup
<1>6. CASE Destroy
  BY <1>4, <1>6 DEF Destroy
<1>7. CASE UNCHANGED vars
  BY <1>7, <1>b, <1>c DEF vars
<1> QED
  BY <1>1, <1>2, <1>3, <1>5, <1>6, <1>7 DEF Next, Finished

(* A producer that waits for room is told of it: see InitRoom. *)
THEOREM RoomAnnounced == Spec => []RoomIsAnnounced
<1>1. Init => TypeOK /\ InFlightCounts /\ RoomIsAnnounced
  BY InitTypeOK, InitCount, InitRoom
<1>2. TypeOK /\ InFlightCounts /\ RoomIsAnnounced /\ [Next]_vars
        => (TypeOK /\ InFlightCounts /\ RoomIsAnnounced)'
  BY NextTypeOK, NextCount, NextRoom
<1> QED
  BY <1>1, <1>2, PTL DEF Spec

-----------------------------------------------------------------------------
(* Workers on their way to the queue. *)
Comers == {w \in Workers : pc[w] = "loop"}

(* Nobody sleeps initially. *)
LEMMA InitSleeper == Init => NoTaskWaitsForASleeper
<1> SUFFICES ASSUME Init PROVE condition_consumers = {}
  BY DEF NoTaskWaitsForASleeper
<1>1. \A w \in Workers : pc[w] = "loop"
  BY DEF Init, Threads
<1> QED
  BY <1>1 DEF condition_consumers, At

(* A step that puts nobody to sleep, queues nothing and takes no worker    *)
(* away from the queue cannot lose a wakeup.                               *)
LEMMA QuietStep ==
  ASSUME TypeOK, NoTaskWaitsForASleeper, Len(tasks') <= Len(tasks),
         Len(tasks') \in Nat,
         \A w \in Workers : /\ pc'[w] = "cwait" => pc[w] = "cwait"
                            /\ pc[w] = "loop" => pc'[w] = "loop"
  PROVE  NoTaskWaitsForASleeper'
<1>1. condition_consumers' # {} => condition_consumers # {}
  BY DEF condition_consumers, At
<1>2. Comers \subseteq Comers' /\ IsFiniteSet(Comers')
  BY PoolAssumption, FS_Subset DEF Comers
<1>3. /\ Cardinality(Comers) <= Cardinality(Comers')
      /\ Cardinality(Comers) \in Nat /\ Cardinality(Comers') \in Nat
  BY <1>2, FS_Subset, FS_CardinalityType
<1>4. condition_consumers # {} => Len(tasks) <= Cardinality(Comers)
  BY DEF NoTaskWaitsForASleeper, Comers, At
<1>5. condition_consumers' # {} => Len(tasks') <= Cardinality(Comers')
  BY <1>1, <1>3, <1>4, Sorts
<1> QED
  BY <1>5 DEF NoTaskWaitsForASleeper, Comers, At

(* A task is queued together with the wakeup of a sleeper and taken by a   *)
(* worker that leaves the queue; a worker sleeps only on the empty queue,  *)
(* and leaves for good only when nobody sleeps any more (Stopped).         *)
LEMMA NextSleeper ==
  TypeOK /\ Stopped /\ NoTaskWaitsForASleeper /\ [Next]_vars
    => NoTaskWaitsForASleeper'
<1> SUFFICES ASSUME TypeOK, Stopped, NoTaskWaitsForASleeper, [Next]_vars
             PROVE  NoTaskWaitsForASleeper'
  OBVIOUS
<1> USE DEF At, Goto
<1>a. /\ pc \in [Threads -> Labels] /\ Workers \subseteq Threads
      /\ Producers \subseteq Threads /\ Workers \intersect Producers = {}
      /\ tasks \in Seq(Tasks) /\ Len(tasks) \in Nat
  BY Sorts
<1>b. IsFiniteSet(Comers) /\ Cardinality(Comers) \in Nat
  BY PoolAssumption, FS_Subset, FS_CardinalityType DEF Comers
<1>c. condition_consumers # {} => Len(tasks) <= Cardinality(Comers)
  BY DEF NoTaskWaitsForASleeper, Comers
<1>d. ASSUME condition_consumers' # {} => Len(tasks') <= Cardinality(Comers')
      PROVE  NoTaskWaitsForASleeper'
  BY <1>d DEF NoTaskWaitsForASleeper, Comers
<1>e. ASSUME tasks' = tasks,
             \A w \in Workers : /\ pc'[w] = "cwait" => pc[w] = "cwait"
                                /\ pc[w] = "loop" => pc'[w] = "loop"
      PROVE  NoTaskWaitsForASleeper'
  BY <1>a, <1>e, QuietStep
<1>1. ASSUME NEW w \in Workers, WorkerLoop(w) PROVE NoTaskWaitsForASleeper'
  <2>1. CASE WaitForTask(w)
    <3>1. Len(tasks') = 0
      BY <2>1 DEF WaitForTask
    <3>2. IsFiniteSet(Comers')
      BY PoolAssumption, FS_Subset DEF Comers
    <3>3. Cardinality(Comers') \in Nat
      BY <3>2, FS_CardinalityType
    <3> QED
      BY <1>d, <3>1, <3>3
  <2>2. CASE WorkerExit(w)
    <3>1. \A v \in Workers : pc[v] # "cwait"
      BY <2>2 DEF WorkerExit, Stopped, condition_consumers
    <3>2. \A v \in Workers : pc'[v] # "cwait"
      BY <1>a, <2>2, <3>1 DEF WorkerExit
    <3> QED
      BY <1>d, <3>2 DEF condition_consumers
  <2>3. CASE TakeTask(w)
    <3>1. /\ pc[w] = "loop" /\ tasks # << >> /\ tasks' = Tail(tasks)
          /\ pc' = [pc EXCEPT ![w] = "notify"] \/ pc' = [pc EXCEPT ![w] = "run"]
      BY <2>3 DEF TakeTask
    <3>2. Len(tasks') = Len(tasks) - 1
      BY <1>a, <3>1
    <3>3. w \in Comers /\ Comers' = Comers \ {w}
      BY <1>a, <3>1 DEF Comers
    <3>4. Cardinality(Comers') = Cardinality(Comers) - 1
      BY <1>b, <3>3, FS_RemoveElement
    <3>5. condition_consumers' = condition_consumers
      BY <1>a, <3>1 DEF condition_consumers
    <3> QED
      BY <1>a, <1>b, <1>c, <1>d, <3>2, <3>4, <3>5
  <2>4. CASE NotifyProducers(w)
    <3>1. /\ pc[w] = "notify" /\ tasks' = tasks
          /\ pc' = [Wake(condition_producers, pc) EXCEPT ![w] = "run"]
      BY <2>4 DEF NotifyProducers
    <3>2. /\ Wake(condition_producers, pc) \in [Threads -> Labels]
          /\ \A th \in Threads :
               \/ Wake(condition_producers, pc)[th] = pc[th]
               \/ /\ pc[th] = "pwait"
                  /\ Wake(condition_producers, pc)[th] = "enqueue"
      BY WakeMoves DEF condition_producers
    <3>3. \A v \in Workers : /\ pc'[v] = "cwait" => pc[v] = "cwait"
                             /\ pc[v] = "loop" => pc'[v] = "loop"
      BY <1>a, <3>1, <3>2
    <3> QED
      BY <1>e, <3>1, <3>3
  <2>5. CASE RunSend(w)
    BY <1>a, <1>e, <2>5 DEF RunSend
  <2>6. CASE RunReceive(w)
    BY <1>a, <1>e, <2>6 DEF RunReceive
  <2>7. CASE Finish(w)
    BY <1>a, <1>e, <2>7 DEF Finish
  <2> QED
    BY <1>1, <2>1, <2>2, <2>3, <2>4, <2>5, <2>6, <2>7 DEF WorkerLoop
<1>2. ASSUME NEW p \in Producers, Post(p) PROVE NoTaskWaitsForASleeper'
  BY <1>2, <1>a, <1>e DEF Post
<1>3. ASSUME NEW th \in Threads, EnqueueStep(th) PROVE NoTaskWaitsForASleeper'
  <2>1. CASE WaitForRoom(th)
    BY <1>a, <1>e, <2>1 DEF WaitForRoom
  <2>2. CASE EnqueueOnStopped(th)
    BY <1>a, <1>e, <2>2 DEF EnqueueOnStopped
  <2>3. CASE Enqueue(th)
    <3>1. /\ pc[th] = "enqueue" /\ AfterEnqueue(th) \in {"finish", "idle"}
          /\ tasks' = Append(tasks, held[th]) /\ held[th] \in Tasks
      <4>1. held[th] \in Tasks
        BY <2>3, PoolAssumption DEF Enqueue, TypeOK, Threads, Busy
      <4> QED
        BY <2>3, <4>1 DEF Enqueue, AfterEnqueue
    <3>2. Len(tasks') = Len(tasks) + 1
      BY <1>a, <3>1
    <3>3. CASE condition_consumers = {}
      <4>1. pc' = [pc EXCEPT ![th] = AfterEnqueue(th)]
        BY <2>3, <3>3 DEF Enqueue
      <4>2. \A v \in Workers : pc[v] # "cwait"
        BY <3>3 DEF condition_consumers
      <4>3. \A v \in Workers : pc'[v] # "cwait"
        BY <1>a, <3>1, <4>1, <4>2
      <4> QED
        BY <1>d, <4>3 DEF condition_consumers
    <3>4. CASE condition_consumers # {}
      <4>1. PICK w \in condition_consumers :
              pc' = [Wake({w}, pc) EXCEPT ![th] = AfterEnqueue(th)]
        BY <2>3, <3>4 DEF Enqueue
      <4>2. w \in Workers /\ pc[w] = "cwait" /\ w # th
        BY <3>1 DEF condition_consumers
      <4>3. Wake({w}, pc) = [pc EXCEPT ![w] = "loop"]
        BY <1>a, <4>2 DEF Wake, Retest
      <4>4. w \notin Comers /\ Comers' = Comers \union {w}
        BY <1>a, <3>1, <4>1, <4>2, <4>3 DEF Comers
      <4>5. Cardinality(Comers') = Cardinality(Comers) + 1
        BY <1>b, <4>4, FS_AddElement
      <4> QED
        BY <1>a, <1>b, <1>c, <1>d, <3>2, <3>4, <4>5
    <3> QED
      BY <3>3, <3>4
  <2> QED
    BY <1>3, <2>1, <2>2, <2>3 DEF EnqueueStep
<1>4. ASSUME NEW set \in SUBSET (condition_consumers \union condition_producers),
             pc' = Wake(set, pc), tasks' = tasks
      PROVE  NoTaskWaitsForASleeper'
  <2>1. \A v \in Threads :
          \/ pc'[v] = pc[v]
          \/ pc[v] \in {"cwait", "pwait"} /\ pc'[v] \in {"loop", "enqueue"}
    BY <1>4, WakeMoves
  <2> QED
    BY <1>4, <1>a, <1>e, <2>1
<1>5. ASSUME NEW th \in Threads, SpuriousWakeup(th) PROVE NoTaskWaitsForASleeper'
  BY <1>4, <1>5 DEF SpuriousWakeup
<1>6. CASE Destroy
  BY <1>4, <1>6 DEF Destroy
<1>7. CASE UNCHANGED vars
  BY <1>7, <1>e DEF vars
<1> QED
  BY <1>1, <1>2, <1>3, <1>5, <1>6, <1>7 DEF Next, Finished

(* A worker is never left asleep with a task waiting for it. *)
THEOREM NoWakeupIsLost == Spec => []NoTaskWaitsForASleeper
<1>1. Init => TypeOK /\ InFlightCounts /\ Stopped /\ NoTaskWaitsForASleeper
  BY InitTypeOK, InitCount, InitStopped, InitSleeper
<1>2. TypeOK /\ InFlightCounts /\ Stopped /\ NoTaskWaitsForASleeper /\ [Next]_vars
        => (TypeOK /\ InFlightCounts /\ Stopped /\ NoTaskWaitsForASleeper)'
  BY NextTypeOK, NextCount, NextStopped, NextSleeper
<1> QED
  BY <1>1, <1>2, PTL DEF Spec

(* The counter, while the pool runs and when it has been joined. *)
THEOREM CounterIsRight == Spec => []InFlightIsRight
<1>1. InFlightCounts /\ DtorAssert => InFlightIsRight
  BY DEF InFlightIsRight
<1> QED BY <1>1, CountsInFlight, DestructorAssertHolds, PTL

(* Sleeping workers and waiting producers are told. *)
THEOREM EverySleeperIsTold == Spec => []NoLostWakeup
<1>1. NoTaskWaitsForASleeper /\ RoomIsAnnounced => NoLostWakeup
  BY DEF NoLostWakeup
<1> QED BY <1>1, NoWakeupIsLost, RoomAnnounced, PTL

-----------------------------------------------------------------------------
(* Only the exception of a producer ends the process, and then nothing     *)
(* moves any more.                                                         *)
LEMMA LivesOn ==
  ASSUME TypeOK, [Next]_vars
  PROVE  \/ UNCHANGED vars
         \/ \E p \in Producers : EnqueueOnStopped(p)
         \/ ~Terminated /\ ~Terminated'
<1>a. /\ pc \in [Threads -> Labels]
      /\ Workers \subseteq Threads /\ Producers \subseteq Threads
      /\ Threads = Workers \union Producers
      /\ Workers \intersect Producers = {}
  BY Sorts
<1>1. SUFFICES ASSUME ~Terminated,
                      \A p \in Producers : \/ pc'[p] = pc[p]
                                            \/ pc'[p] # "threw"
               PROVE  ~Terminated'
  <2>1. ASSUME NEW w \in Workers, WorkerLoop(w)
        PROVE  /\ ~Terminated
               /\ \A p \in Producers : pc'[p] = pc[p] \/ pc'[p] # "threw"
    <3>1. ~Terminated
      BY <2>1 DEF WorkerLoop, WaitForTask, WorkerExit, TakeTask,
         NotifyProducers, RunSend, RunReceive, Finish, At
    <3>2. CASE NotifyProducers(w)
      BY <3>1, <3>2, <1>a, WakeMoves
         DEF NotifyProducers, condition_producers, Wake, Retest
    <3>3. CASE \E l \in Labels : Goto(w, l)
      BY <3>1, <3>3, <1>a DEF Goto
    <3> QED
      BY <2>1, <3>2, <3>3 DEF WorkerLoop, WaitForTask, WorkerExit, TakeTask,
         RunSend, RunReceive, Finish, Labels
  <2>2. ASSUME NEW p \in Producers, Post(p)
        PROVE  /\ ~Terminated
               /\ \A q \in Producers : pc'[q] = pc[q] \/ pc'[q] # "threw"
    BY <2>2, <1>a DEF Post, At, Goto
  <2>3. ASSUME NEW th \in Threads, EnqueueStep(th),
               th \in Producers => ~EnqueueOnStopped(th)
        PROVE  /\ ~Terminated
               /\ \A q \in Producers : pc'[q] = pc[q] \/ pc'[q] # "threw"
    <3>1. ~Terminated
      BY <2>3 DEF EnqueueStep, WaitForRoom, EnqueueOnStopped, Enqueue, At
    <3>2. CASE WaitForRoom(th)
      BY <3>1, <3>2, <1>a DEF WaitForRoom, Goto
    <3>3. CASE EnqueueOnStopped(th) /\ th \in Workers
      BY <3>1, <3>3, <1>a DEF EnqueueOnStopped, Goto
    <3>4. CASE Enqueue(th)
      <4>1. AfterEnqueue(th) # "threw"
        BY DEF AfterEnqueue
      <4> QED BY <3>1, <3>4, <4>1, <1>a, EnqueueMoves
    <3> QED BY <2>3, <3>2, <3>3, <3>4, <1>a DEF EnqueueStep
  <2>4. ASSUME NEW th \in Threads, SpuriousWakeup(th)
        PROVE  /\ ~Terminated
               /\ \A q \in Producers : pc'[q] = pc[q] \/ pc'[q] # "threw"
    BY <2>4, <1>a DEF SpuriousWakeup, Wake, Retest
  <2>5. ASSUME Destroy
        PROVE  /\ ~Terminated
               /\ \A q \in Producers : pc'[q] = pc[q] \/ pc'[q] # "threw"
    BY <2>5, <1>a DEF Destroy, Wake, Retest
  <2> QED
    BY <1>1, <2>1, <2>2, <2>3, <2>4, <2>5 DEF Next, Finished
<1> QED BY <1>1 DEF Terminated

(* Every step of the pool is a step of the FIFO queue of TaskPool, or is   *)
(* invisible there: WaitForTask, WorkerExit and the notifications stutter, *)
(* TakeTask begins the oldest task, Finish ends one, the exception of a    *)
(* producer aborts.                                                        *)
THEOREM PoolIsFifo == Spec => Abstract!Init /\ [][Abstract!Next]_(Abstract!vars)
<1> DEFINE R == [w \in Workers |-> held[w]]
<1>1. Init => Abstract!Init
  BY PoolAssumption DEF Init, Abstract!Init, Threads, Phase, Terminated
<1>2. TypeOK /\ [Next]_vars => [Abstract!Next]_(Abstract!vars)
  <2> SUFFICES ASSUME TypeOK, [Next]_vars PROVE [Abstract!Next]_(Abstract!vars)
    OBVIOUS
  <2> USE DEF At, Goto
  <2>a. /\ held \in [Threads -> Tasks \union {NoTask}]
        /\ Workers \subseteq Threads /\ Producers \subseteq Threads
        /\ Threads = Workers \union Producers
        /\ Workers \intersect Producers = {}
    BY Sorts DEF TypeOK
  <2>b. ASSUME UNCHANGED <<tasks, R, Phase>>
        PROVE  [Abstract!Next]_(Abstract!vars)
    BY <2>b DEF Abstract!vars
  <2>c. CASE UNCHANGED vars
    BY <2>b, <2>c DEF vars, Phase, Terminated
  <2>d. CASE \E p \in Producers : EnqueueOnStopped(p)
    <3>1. PICK p \in Producers : EnqueueOnStopped(p)
      BY <2>d
    <3>2. /\ p \notin Workers /\ pc'[p] = "threw" /\ stop /\ ~Terminated
          /\ UNCHANGED <<tasks, held>>
      BY <2>a, <3>1 DEF EnqueueOnStopped, TypeOK
    <3>3. Phase = "closed" /\ Phase' = "aborted" /\ R' = R
      BY <3>2 DEF Phase, Terminated
    <3>4. Abstract!Abort
      BY <3>2, <3>3 DEF Abstract!Abort
    <3> QED BY <3>4 DEF Abstract!Next
  <2> SUFFICES ASSUME ~Terminated, ~Terminated'
               PROVE  [Abstract!Next]_(Abstract!vars)
    BY <2>c, <2>d, LivesOn
  <2>e. /\ stop' = stop => Phase' = Phase
        /\ Phase = IF stop THEN "closed" ELSE "open"
        /\ Phase' = IF stop' THEN "closed" ELSE "open"
    BY DEF Phase
  <2>1. ASSUME NEW w \in Workers, WorkerLoop(w) PROVE [Abstract!Next]_(Abstract!vars)
    <3>1. CASE TakeTask(w)
      <4>1. pc[w] = "loop" /\ tasks # << >> /\ tasks' = Tail(tasks)
            /\ held' = [held EXCEPT ![w] = Head(tasks)] /\ stop' = stop
        BY <3>1 DEF TakeTask
      <4>2. held[w] = NoTask
        BY <4>1, <2>a DEF TypeOK, Busy
      <4>3. R' = [R EXCEPT ![w] = Head(tasks)]
        BY <4>1, <2>a
      <4>4. Abstract!Begin(w)
        BY <4>1, <4>2, <4>3, <2>e DEF Abstract!Begin
      <4> QED
        BY <4>4 DEF Abstract!Next
    <3>2. CASE Finish(w)
      <4>1. /\ pc[w] = "finish" /\ tasks' = tasks /\ stop' = stop
            /\ held' = [held EXCEPT ![w] = NoTask]
        BY <3>2 DEF Finish
      <4>2. held[w] # NoTask
        BY <4>1 DEF TypeOK, Busy
      <4>3. R' = [R EXCEPT ![w] = NoTask]
        BY <4>1, <2>a
      <4>4. Abstract!End(w)
        BY <4>1, <4>2, <4>3, <2>e DEF Abstract!End
      <4> QED
        BY <4>4 DEF Abstract!Next
    <3>3. ASSUME UNCHANGED <<tasks, held, stop>> PROVE [Abstract!Next]_(Abstract!vars)
      BY <3>3, <2>b, <2>e
    <3> QED
      BY <2>1, <3>1, <3>2, <3>3 DEF WorkerLoop, WaitForTask, WorkerExit,
         NotifyProducers, RunSend, RunReceive
  <2>2. ASSUME NEW p \in Producers, Post(p) PROVE [Abstract!Next]_(Abstract!vars)
    <3>1. R' = R
      BY <2>2, <2>a DEF Post
    <3> QED
      BY <2>2, <2>b, <2>e, <3>1 DEF Post
  <2>3. ASSUME NEW th \in Threads, EnqueueStep(th) PROVE [Abstract!Next]_(Abstract!vars)
    <3>1. CASE WaitForRoom(th) \/ EnqueueOnStopped(th)
      BY <2>b, <2>e, <3>1 DEF WaitForRoom, EnqueueOnStopped
    <3>2. CASE Enqueue(th)
      <4>1. /\ ~stop /\ Len(tasks) < MaxQueue /\ pc[th] = "enqueue"
            /\ tasks' = Append(tasks, held[th]) /\ stop' = stop
            /\ held' = IF th \in Workers THEN held ELSE [held EXCEPT ![th] = NoTask]
        BY <3>2 DEF Enqueue
      <4>2. held[th] \in Tasks
        BY <2>a, <4>1 DEF TypeOK, Busy
      <4>3. R' = R
        BY <2>a, <4>1
      <4>4. Abstract!Post(held[th])
        BY <4>1, <4>3, <2>e DEF Abstract!Post
      <4> QED
        BY <4>2, <4>4 DEF Abstract!Next
    <3> QED
      BY <2>3, <3>1, <3>2 DEF EnqueueStep
  <2>4. ASSUME NEW th \in Threads, SpuriousWakeup(th)
        PROVE  [Abstract!Next]_(Abstract!vars)
    BY <2>4, <2>b, <2>e DEF SpuriousWakeup
  <2>5. CASE Destroy
    <3>1. Abstract!Close
      BY <2>5, <2>e DEF Destroy, Abstract!Close
    <3> QED
      BY <3>1 DEF Abstract!Next
  <2> QED
    BY <2>1, <2>2, <2>3, <2>4, <2>5, <2>c DEF Next, Finished
<1>3. Spec => []TypeOK
  BY TypeCorrect
<1> QED
  BY <1>1, <1>2, <1>3, PTL DEF Spec
=============================================================================
