----------------------------- MODULE WorkerPool ----------------------------
(***************************************************************************)
(* g_threadPool (ThreadPool.h) and its use by Esme.  Every thread shares   *)
(* queue_mutex and two condition variables.  A critical section is one     *)
(* action; a thread in "cwait" or "pwait" waits on condition_consumers or  *)
(* condition_producers and goes back to test its predicate when notified.  *)
(*                                                                         *)
(* Campaign threads and the reader are the producers.  The pool's own      *)
(* workers are producers too: SendOneSms posts itself again while sending  *)
(* is paused, from inside the task.  Processing a PDU may pause or resume  *)
(* sending.  The destructor runs at exit, when campaign threads and tasks  *)
(* may still be busy.  A producer that then enqueues has no handler for    *)
(* the exception: std::terminate ends the whole process where it stands.   *)
(***************************************************************************)
EXTENDS Naturals, Sequences, FiniteSets

CONSTANTS
  Workers,      \* threads of the pool
  Producers,    \* campaign threads and the reader
  SendTasks,    \* SendOneSms of some Esme
  RecvTasks,    \* OnReceivePdu of some Esme
  MaxQueue,     \* max_queue_size
  NoTask

Tasks == SendTasks \union RecvTasks
Threads == Workers \union Producers

ASSUME PoolAssumption ==
  /\ IsFiniteSet(Workers) /\ Workers # {}
  /\ Workers \intersect Producers = {}
  /\ SendTasks \intersect RecvTasks = {}
  /\ NoTask \notin Tasks
  /\ MaxQueue \in Nat \ {0}

VARIABLES
  tasks,       \* the task queue
  stop,        \* set by the destructor
  in_flight,   \* tasks posted and not finished
  pc, held,    \* where each thread is and the task it holds
  unposted,    \* tasks no producer has posted yet
  done,        \* receive tasks that ran, send tasks that sent
  paused       \* ~IsSendSms()

vars == <<tasks, stop, in_flight, pc, held, unposted, done, paused>>

Init ==
  /\ tasks = << >> /\ stop = FALSE /\ in_flight = 0
  /\ pc = [th \in Threads |-> IF th \in Workers THEN "loop" ELSE "idle"]
  /\ held = [th \in Threads |-> NoTask]
  /\ unposted = Tasks /\ done = {}
  /\ paused \in BOOLEAN

(* Nothing runs after std::terminate. *)
Terminated == \E p \in Producers : pc[p] = "threw"
At(th, label) == pc[th] = label /\ ~Terminated
Goto(th, label) == pc' = [pc EXCEPT ![th] = label]

(* Where a thread tests its predicate again after a wait. *)
Retest(label) == IF label = "cwait" THEN "loop" ELSE "enqueue"
Wake(set, f) == [th \in Threads |-> IF th \in set THEN Retest(f[th]) ELSE f[th]]

condition_consumers == {w \in Workers : pc[w] = "cwait"}
condition_producers == {th \in Threads : pc[th] = "pwait"}

-----------------------------------------------------------------------------
(* The worker's loop.                                                      *)

WaitForTask(w) ==
  /\ At(w, "loop") /\ tasks = << >> /\ ~stop
  /\ Goto(w, "cwait")
  /\ UNCHANGED <<tasks, stop, in_flight, held, unposted, done, paused>>

\* Bug: a stopped worker leaves without draining the queue.
BugExitAtOnce(w) ==
  /\ At(w, "loop") /\ stop
  /\ Goto(w, "exited")
  /\ UNCHANGED <<tasks, stop, in_flight, held, unposted, done, paused>>

WorkerExit(w) ==
  /\ At(w, "loop") /\ tasks = << >> /\ stop
  /\ Goto(w, "exited")
  /\ UNCHANGED <<tasks, stop, in_flight, held, unposted, done, paused>>

\* Bug: producers are woken only by the pop that empties the queue.
BugNotifyWhenEmpty(w) ==
  /\ At(w, "loop") /\ tasks # << >>
  /\ held' = [held EXCEPT ![w] = Head(tasks)]
  /\ tasks' = Tail(tasks)
  /\ Goto(w, IF tasks' = << >> THEN "notify" ELSE "run")
  /\ UNCHANGED <<stop, in_flight, unposted, done, paused>>

\* Bug: the newest task is taken, as from a stack.
BugNewestFirst(w) ==
  /\ At(w, "loop") /\ tasks # << >>
  /\ held' = [held EXCEPT ![w] = tasks[Len(tasks)]]
  /\ tasks' = SubSeq(tasks, 1, Len(tasks) - 1)
  /\ Goto(w, IF Len(tasks) = MaxQueue \/ tasks' = << >>
             THEN "notify" ELSE "run")
  /\ UNCHANGED <<stop, in_flight, unposted, done, paused>>

\* Bug: nobody is told of the room.
BugNeverNotify(w) ==
  /\ At(w, "loop") /\ tasks # << >>
  /\ held' = [held EXCEPT ![w] = Head(tasks)]
  /\ tasks' = Tail(tasks)
  /\ Goto(w, "run")
  /\ UNCHANGED <<stop, in_flight, unposted, done, paused>>

TakeTask(w) ==
  /\ At(w, "loop") /\ tasks # << >>
  /\ held' = [held EXCEPT ![w] = Head(tasks)]
  /\ tasks' = Tail(tasks)
  /\ Goto(w, IF Len(tasks) = MaxQueue \/ tasks' = << >>
             THEN "notify" ELSE "run")
  /\ UNCHANGED <<stop, in_flight, unposted, done, paused>>

NotifyProducers(w) ==
  /\ At(w, "notify")
  /\ pc' = [Wake(condition_producers, pc) EXCEPT ![w] = "run"]
  /\ UNCHANGED <<tasks, stop, in_flight, held, unposted, done, paused>>

(* SendOneSms: a paused sender enqueues the missed event again. *)
RunSend(w) ==
  /\ At(w, "run") /\ held[w] \in SendTasks
  /\ Goto(w, IF paused THEN "enqueue" ELSE "finish")
  /\ done' = IF paused THEN done ELSE done \union {held[w]}
  /\ UNCHANGED <<tasks, stop, in_flight, held, unposted, paused>>

(* OnReceivePdu: an answer resumes sending, a header-only one pauses it. *)
RunReceive(w) ==
  /\ At(w, "run") /\ held[w] \in RecvTasks
  /\ paused' \in BOOLEAN
  /\ Goto(w, "finish")
  /\ done' = done \union {held[w]}
  /\ UNCHANGED <<tasks, stop, in_flight, held, unposted>>

(* ~handle_in_flight_decrement *)
Finish(w) ==
  /\ At(w, "finish")
  /\ in_flight' = in_flight - 1
  /\ held' = [held EXCEPT ![w] = NoTask]
  /\ Goto(w, "loop")
  /\ UNCHANGED <<tasks, stop, unposted, done, paused>>

-----------------------------------------------------------------------------
(* enqueue, called by a producer or from inside a task.                    *)

Post(p) ==
  /\ At(p, "idle")
  /\ \E t \in unposted :
       held' = [held EXCEPT ![p] = t] /\ unposted' = unposted \ {t}
  /\ Goto(p, "enqueue")
  /\ UNCHANGED <<tasks, stop, in_flight, done, paused>>

AfterEnqueue(th) == IF th \in Workers THEN "finish" ELSE "idle"

(* The wait ends when there is room or the pool stops. *)
WaitForRoom(th) ==
  /\ At(th, "enqueue") /\ ~stop /\ Len(tasks) >= MaxQueue
  /\ Goto(th, "pwait")
  /\ UNCHANGED <<tasks, stop, in_flight, held, unposted, done, paused>>

\* Bug: a worker's own re-enqueue is accepted by a stopped pool.
BugRetryAfterStop(th) ==
  /\ At(th, "enqueue") /\ stop
  /\ IF th \in Workers
       THEN /\ tasks' = Append(tasks, held[th])
            /\ in_flight' = in_flight + 1
            /\ Goto(th, "finish")
       ELSE Goto(th, "threw") /\ UNCHANGED <<tasks, in_flight>>
  /\ UNCHANGED <<stop, held, unposted, done, paused>>

(* "enqueue on stopped ThreadPool": in a task, the exception ends in the   *)
(* packaged_task's future; in a producer it leaves the thread and ends the *)
(* process.                                                                *)
EnqueueOnStopped(th) ==
  /\ At(th, "enqueue") /\ stop
  /\ Goto(th, IF th \in Workers THEN "finish" ELSE "threw")
  /\ UNCHANGED <<tasks, stop, in_flight, held, unposted, done, paused>>

\* Bug: off by one in the limit.
BugOverfill(th) ==
  /\ At(th, "enqueue") /\ ~stop /\ Len(tasks) <= MaxQueue
  /\ tasks' = Append(tasks, held[th])
  /\ in_flight' = in_flight + 1
  /\ IF condition_consumers = {}
       THEN Goto(th, AfterEnqueue(th))
       ELSE \E w \in condition_consumers :
              pc' = [Wake({w}, pc) EXCEPT ![th] = AfterEnqueue(th)]
  /\ held' = IF th \in Workers THEN held ELSE [held EXCEPT ![th] = NoTask]
  /\ UNCHANGED <<stop, unposted, done, paused>>

(* One waiting consumer is notified, if there is one. *)
Enqueue(th) ==
  /\ At(th, "enqueue") /\ ~stop /\ Len(tasks) < MaxQueue
  /\ tasks' = Append(tasks, held[th])
  /\ in_flight' = in_flight + 1
  /\ IF condition_consumers = {}
       THEN Goto(th, AfterEnqueue(th))
       ELSE \E w \in condition_consumers :
              pc' = [Wake({w}, pc) EXCEPT ![th] = AfterEnqueue(th)]
  /\ held' = IF th \in Workers THEN held ELSE [held EXCEPT ![th] = NoTask]
  /\ UNCHANGED <<stop, unposted, done, paused>>

-----------------------------------------------------------------------------
(* ~ThreadPool: the workers are then joined. *)
Destroy ==
  /\ ~stop /\ ~Terminated
  /\ stop' = TRUE
  /\ pc' = Wake(condition_consumers \union condition_producers, pc)
  /\ UNCHANGED <<tasks, in_flight, held, unposted, done, paused>>

(* C++ allows a wait to return without a notification. *)
SpuriousWakeup(th) ==
  /\ ~Terminated
  /\ th \in condition_consumers \union condition_producers
  /\ pc' = Wake({th}, pc)
  /\ UNCHANGED <<tasks, stop, in_flight, held, unposted, done, paused>>

WorkerLoop(w) ==
  \/ WaitForTask(w) \/ WorkerExit(w) \/ TakeTask(w) \/ NotifyProducers(w)
  \/ RunSend(w) \/ RunReceive(w) \/ Finish(w)

EnqueueStep(th) ==
  WaitForRoom(th) \/ EnqueueOnStopped(th) \/ Enqueue(th)

Joined == \A w \in Workers : pc[w] = "exited"
Finished ==
  /\ \/ Terminated
     \/ Joined /\ unposted = {} /\ \A p \in Producers : pc[p] = "idle"
  /\ UNCHANGED vars

Next ==
  \/ \E w \in Workers : WorkerLoop(w)
  \/ \E p \in Producers : Post(p)
  \/ \E th \in Threads : EnqueueStep(th) \/ SpuriousWakeup(th)
  \/ Destroy \/ Finished

Spec == Init /\ [][Next]_vars

(* Every thread keeps running; the mutex is handed on. *)
Fairness ==
  /\ \A w \in Workers : WF_vars(WorkerLoop(w) \/ EnqueueStep(w))
  /\ \A p \in Producers : WF_vars(EnqueueStep(p))

FairSpec == Spec /\ Fairness

-----------------------------------------------------------------------------
(* PROPERTIES *)

Busy(w) == pc[w] \in {"notify", "run", "enqueue", "pwait", "finish"}

TypeOK ==
  /\ tasks \in Seq(Tasks) /\ Len(tasks) <= MaxQueue
  /\ stop \in BOOLEAN /\ paused \in BOOLEAN
  /\ in_flight \in Nat
  /\ unposted \subseteq Tasks /\ done \subseteq Tasks
  /\ held \in [Threads -> Tasks \union {NoTask}]
  /\ pc \in [Threads -> {"loop", "cwait", "notify", "run", "finish", "exited",
                         "idle", "enqueue", "pwait", "threw"}]
  /\ \A w \in Workers : /\ pc[w] \notin {"idle", "threw"}
                        /\ Busy(w) <=> held[w] # NoTask
  /\ \A p \in Producers :
       /\ pc[p] \in {"idle", "enqueue", "pwait", "threw"}
       /\ pc[p] \in {"enqueue", "pwait"} => held[p] # NoTask

(* in_flight counts the queued tasks and those being run. *)
InFlightCounts ==
  in_flight = Len(tasks) + Cardinality({w \in Workers : Busy(w)})

(* assert(in_flight == 0), when the destructor has joined the workers: no  *)
(* task is left in the queue, whoever enqueues during the shutdown.        *)
DtorAssert == Joined => in_flight = 0 /\ tasks = << >>

(* The counter is right while the pool runs and when it has been joined. *)
InFlightIsRight == InFlightCounts /\ DtorAssert

(* No wakeup of a worker is lost: while a worker sleeps, there are as many *)
(* workers on their way to the queue as tasks in it.                       *)
NoTaskWaitsForASleeper ==
  condition_consumers # {} =>
    Len(tasks) <= Cardinality({w \in Workers : pc[w] = "loop"})

(* No wakeup of a producer is lost: one that still waits although there is *)
(* room is about to be notified.                                           *)
RoomIsAnnounced ==
  condition_producers # {} /\ Len(tasks) < MaxQueue =>
    \E w \in Workers : pc[w] = "notify"

(* No wakeup is lost on either condition variable. *)
NoLostWakeup == NoTaskWaitsForASleeper /\ RoomIsAnnounced

(* A PDU whose task is posted is processed: however many paused senders    *)
(* circulate through the queue, and even while the pool is being stopped,  *)
(* unless a producer's exception ends the process first.                   *)
ReceiveTaskRuns ==
  \A t \in RecvTasks :
    (\E i \in DOMAIN tasks : tasks[i] = t) ~> t \in done \/ Terminated

(* A campaign thread or the reader that enqueues is not kept for ever by a *)
(* full queue, provided there are fewer paused senders than workers: when  *)
(* every worker waits for room to post its sender again, nobody makes any. *)
EnqueueReturns ==
  \A p \in Producers : At(p, "enqueue") ~> pc[p] = "idle" \/ Terminated

(* The destructor returns: paused senders cannot keep the pool alive; only *)
(* a producer's exception, which ends the process, comes before it.        *)
ShutdownCompletes == stop ~> Joined \/ Terminated

(* The pool is a FIFO queue whose oldest task is begun by any free worker. *)
Phase ==
  IF Terminated THEN "aborted" ELSE IF stop THEN "closed" ELSE "open"
Abstract == INSTANCE TaskPool WITH
  queue <- tasks,
  running <- [w \in Workers |-> held[w]],
  state <- Phase
PoolSpec == Abstract!Spec
=============================================================================
