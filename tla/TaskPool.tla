------------------------------ MODULE TaskPool -----------------------------
(***************************************************************************)
(* What the rest of the program expects of g_threadPool: a bounded FIFO    *)
(* queue of tasks, each taken by one thread, and a thread that has nothing *)
(* to do takes the oldest task.  WorkerPool, with its condition variables, *)
(* implements this; SmsPipeline relies on it when it counts posted tasks.  *)
(***************************************************************************)
EXTENDS Naturals, Sequences

CONSTANTS
  Tasks,      \* callbacks: SendOneSms and OnReceivePdu of some Esme
  Workers,    \* threads of the pool
  MaxQueue,   \* max_queue_size
  NoTask

VARIABLES
  queue,      \* posted tasks, oldest first
  running,    \* the task a worker runs, or NoTask
  state       \* "open", "closed" by its destructor, "aborted" with the process

vars == <<queue, running, state>>

Init ==
  /\ queue = << >>
  /\ running = [w \in Workers |-> NoTask]
  /\ state = "open"

Post(t) ==
  /\ state = "open" /\ Len(queue) < MaxQueue
  /\ queue' = Append(queue, t)
  /\ UNCHANGED <<running, state>>

Begin(w) ==
  /\ state # "aborted" /\ running[w] = NoTask /\ queue # << >>
  /\ running' = [running EXCEPT ![w] = Head(queue)]
  /\ queue' = Tail(queue)
  /\ UNCHANGED state

End(w) ==
  /\ state # "aborted" /\ running[w] # NoTask
  /\ running' = [running EXCEPT ![w] = NoTask]
  /\ UNCHANGED <<queue, state>>

Close ==
  /\ state = "open" /\ state' = "closed"
  /\ UNCHANGED <<queue, running>>

(* A producer that posts to a closed pool ends the process. *)
Abort ==
  /\ state = "closed" /\ state' = "aborted"
  /\ UNCHANGED <<queue, running>>

Next ==
  \/ \E t \in Tasks : Post(t)
  \/ \E w \in Workers : Begin(w) \/ End(w)
  \/ Close \/ Abort

(* No task waits while a worker is free and the process lives. *)
Fairness == WF_vars(\E w \in Workers : Begin(w))

Spec == Init /\ [][Next]_vars /\ Fairness
=============================================================================
