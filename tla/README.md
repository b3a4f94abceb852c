# Verification of the ESME

The program in `src/` is an ESME: it takes SMS of campaigns from a MySQL table,
submits them to SMSCs over SMPP, correlates the answers and the delivery
receipts, and sends the resulting row updates through a POSIX message queue to a
second program, DbInsertApp, that executes them. This directory holds TLA+
modules of it, the TLC configurations that check them, and TLAPS proofs.

    tlc -config SmsPipeline.cfg MCSmsPipeline.tla     # one run; PROJECT.json lists all
    tlapm SmsPipeline_proofs.tla                      # the proofs: *_proofs.tla

## 1. Inventory

| part | code | state | operations | who touches it |
|---|---|---|---|---|
| campaign gate and send queue | `SmsCampaign.cpp:186-232`, `Esme.cpp` SendSms | `sendQueue`, one pool task per SMS | test of the queue's size, push, post | every campaign thread, pool workers |
| sending | `EsmeSenderThread.cpp`, `Esme.cpp:396` SendSubmitSm | `sendSmsMap`, `pduRegister`, `m_esmePduSequenceNum`, `m_isSendSms` | SendOneSms, SendSubmitSm, RegisterPdu | pool workers |
| answers | `EsmePduProcessThread.cpp` OnReceivePdu, `Esme.cpp:698` DoDatabaseUpdate | `receiveQueue`, the maps above, `m_vcMsgIdMap`, `m_vcMsgIdSyncMap` | correlate, resend a bare answer, pause and resume, file and match message ids | pool workers, the reader |
| pool | `ThreadPool.h` | task queue, `stop`, `in_flight`, two condition variables | worker loop, enqueue, destructor | campaign threads, reader, workers (a paused SendOneSms posts itself), main |
| session | `Esme.cpp` Start, Stop, Bind, UnBind, OpenConnection, CloseConnection, Read; `EsmeLinkCheckThread` and `ThSmsReader` in it; `Main.cpp` | `m_esmeState`, `m_esmeSocket` (no lock) | the nine states of the link | link thread, reader, workers, every writer, main |
| PDU library | `include/*.hpp`, `src/<pdu>.cpp` | members, TLV list, `command_length` of one object | constructors, setters, TLV calls, encode, decode | whoever owns the object |
| framer | `Esme.cpp:261` Read, `NetBuffer` | `m_readNetBuffer`, `receiveQueue` | append, length field, cut, push, post | the reader, workers; the link thread reconnects under it |
| campaigns | `SmsCampaign.cpp`, `Main.cpp:57-98` | status of campaigns and rows in MySQL, `G_smsCampaignMap` | find, start, mark PICKED, windows, complete, join and erase | main, campaign threads, MySQL |
| update queue | `MessageQueue.cpp`, `DbInsertApp.cpp` | the POSIX queue, each process's handle on it | open, write, count, read, execute | workers, DbInsertApp |
| configuration, loggers, MySQL wrapper, test programs | | none that changes | | |

**What is hard.** State is shared by five kinds of threads and mostly tested
outside its lock: `empty()` before `front()/pop()`, `find` before `operator[]`,
an iterator found outside a lock and erased inside it. `m_esmeState` and the
descriptor are written by all of them without one. A check-then-push gate bounds
the queue. A task posts itself again while sending is paused, on a bounded
queue whose room its own worker would have to make. Answers outlive the
connection they came from, and so does half a PDU in the read buffer. A
campaign's progress is in the database alone, written by queries that may fail,
after the fact they record. Sequence numbers wrap. The answer and the receipt of
one message race each other through two maps. The PDU library keeps
`command_length` incrementally, in about 130 setters and every TLV call. `PROJECT.json`
("hazards") lists each with its line.

**What makes each part correct.** Pipeline: no SMS and no frame without its
task and no task without its element; an answer is booked on its own SMS; a
bare answer causes one resend; a pause ends; every SMS is sent. Receipts: both
halves of a message meet and the receipt's status wins. Pool: no wakeup is
lost, posted tasks run, the destructor returns with nothing in flight. Session:
a lost connection is noticed and given up, the object comes back bound, no
descriptor is forgotten, Stop returns. Library: what is allocated is what is
written, decode undoes encode and refuses everything else. Framer: the frames
delivered are the bytes sent. Campaigns: a row is sent once, a campaign completes
only when its rows are out, a thread's map entry outlives it. Update queue: what
was accepted is executed, in order, whatever ends and starts again.

## 2. Modules

| module | models | abstract specification | proofs |
|---|---|---|---|
| `SmsPipeline` | gate, SendSms, SendOneSms, SendSubmitSm, OnReceivePdu for submit_sm_resp, the reader's push and post; session coarse | | `SmsPipeline_proofs`, `SmsCorrelation_proofs` |
| `ReceiptMatch` | DoDatabaseUpdate's message-id part, the update queue, DbInsertApp's writes | `RowStatus` (what a row's status may do) | `ReceiptMatch_proofs` |
| `WorkerPool` | ThreadPool with its users | `TaskPool` (a FIFO of tasks) | `WorkerPool_proofs` |
| `EsmeSession` | link thread, reader, workers, sender and main on one connection, with descriptors | | `EsmeSession_proofs` |
| `Framer` | Esme::Read and NetBuffer on the octets of one connection after another | the stream of octets (PiecesOfTheStream) | `Framer_proofs` |
| `UpdateQueue` | SysMessageQueue, DbInsertApp's loop, ends of both processes | | `SmsCampaign_proofs` |
| `SmsCampaign`, which EXTENDS `UpdateQueue` | IsActiveCampaign, CampaignThread, Main's loop and map, the rows and the answers that write them | `UpdateQueue` (CampaignsUseQueue) | `SmsCampaign_proofs` |
| `SmppPdu` over `SmppLayouts` | one object of any of the 33 PDU classes | | `SmppPdu_proofs` |

`MC*` modules only add the symmetry sets and the PDUs and campaigns of an
instance; MCSmppPdu puts the table of `SmppLayouts` under `SmppPdu`, whose
constant `Layout` it is. A state
variable has the name of the member or queue it stands for; an action has the
name of its function, and a function that other threads can interrupt is split
at the points where it touches shared state, with the thread's place in `pc`.
`map` in PROJECT.json gives the lines of every definition.

**SmsPipeline.** A campaign thread passes the gate (`PassGate`, a reading of
the queue's size), pushes and posts. `SendOneSms` is check, empty, pop,
sequence number, register; `SendSubmitSm` is state test, RegisterPdu, write and
the update's `find` and `operator[]`. `OnReceivePdu` correlates a whole answer, or
erases, pauses and resends for a bare one. A worker's locals are `wSms`, `wSeq`.
Abstractions: the pool's queue is a bag (its order is WorkerPool's subject and
appears here as strong fairness); the network is a set, so answers come in any
order, more than TCP allows; the two readings of IsSendSms are one step; `find`
followed by `insert` is one step, as insert does not overwrite; a map operation
is atomic although the code takes no lock for some (what a torn `std::map` does is
below this level); an SMS's address and text are valid. `submits`, `settled`,
`wrapped` and `drops` are history variables.

**ReceiptMatch.** Each worker searches one map and in a separate step files in
that or the other, then queues its query; DbInsertApp executes the queue in
order. A message id is identified with its SMS. The history variable `crossed`
holds the messages that two workers had in hand at the same time; everything
that fails in this model fails for these only, so the properties are about
the others (and a single worker, as in the build without the pool, crosses
none). The SMSC repeats a receipt only after the one before has been processed
(the guard of `Receipt`). Two repeats on two workers would find, and both erase, the
same map node: undefined behaviour (`Esme.cpp:821`), after which the process may be gone or another
message's entry be used in its place. The model does not go there, so it says
nothing about whether an iterator is still valid when it is erased; what it says of rows and
maps holds as long as no such erase has happened. `RowStatus` is a row that goes from PICKED to ACKNOWLEDGED, a refused or
a reported status and never back; the refinement mapping is the identity on the
rows of messages that were not crossed.

**WorkerPool.** A critical section of `queue_mutex` is one action. A waiting
thread is in `cwait` or `pwait`; spurious wakeups are an action. `enqueue` on a
stopped pool throws: inside a task the packaged_task keeps the exception, on a
campaign thread nobody catches it and std::terminate ends the process (`Terminated`:
no thread takes another step). Tasks are
SendOneSms (posts itself again while sending is paused) and OnReceivePdu (may
pause or resume). `TaskPool` keeps the queue in order, who runs what, and
whether the pool is open, closed or gone with its process; the mapping takes `queue <- tasks`,
`state <- Phase` (aborted if a producer's exception ended the process, else closed if `stop`),
`running <- held` restricted to workers.

**EsmeSession.** CloseConnection gives up the descriptor, then `m_esmeSocket`
(`Esme.cpp:208`), then stores ST_IDLE (`:209`): three actions, on the link, reader or main
thread, between which the others run. Descriptors are reused, lowest first. `peer` is the TCP
connection as the kernel sees it (up, finished, reset), `requests`/`inbox`
what is on its way, `bound` what the SMSC thinks. A frame carries no
connection once it is in `receiveQueue`, as in the code. The configured bind
type is assumed valid. A bind may be refused by a whole answer or by a bare header,
which the decoding constructor refuses by an exception: the answer then has no
effect (`ProcessBare`). `failedRead`, `stale` and `undecoded` are history.

**Framer.** Octets are octets here, since the length field is made of them.
`Receive` appends any prefix of what has arrived and computes `requireBytes`;
`Split` and `Post` are the loop of Read, a worker may take a PDU in between.
Where the buffer has fewer than four octets, the missing ones come from `Junk`,
an arbitrary non-empty set: what the heap holds. `Reconnect` leaves the buffer alone, as the
code does. `taken`, `cuts`, `ends`, `base` are history; so is `aligned`, which is lost
when a connection is opened on a buffer that is not empty, or when an octet of
the heap was taken for part of a length that fits.

**UpdateQueue.** The kernel's queue, the ESME's handle on it (unopened after a
failed Open: every update is then only logged) and DbInsertApp, which takes a
message, repairs its connection and executes. `accepted` and `settled` are
history; DbInsertApp settles an update by executing it or by losing it.

**SmsCampaign.** One action per query or per shared access of `CampaignThread`
and of Main's loop. `pc` says which query a thread is about to make; a thread is
created by Main, reads the id through the pointer into Main's variable, and uses the
map entry by an iterator it never checks again: `SetStatus` writes to freed
memory, and the loop's condition reads anything, when the entry was erased under
it. Windows are any rows the query's LIMIT may choose. The gate is left to
SmsPipeline, the status of an answer to ReceiptMatch, except that a 0 is
SCHEDULED. `Main`'s step from IsActiveCampaign to pthread_create reads nothing shared
in between and is one action. ProcessEnds empties the process's memory and keeps
the database and the kernel's queue. `sent`, `unmarked`, `zeroed`, `raced`, `gaveUp`
and `leftPicked` are history: they name the exceptions the properties allow.

**SmppPdu.** The record `pdu` is one object; `length` is its `command_length`,
moved by every call as the code moves it. `SmppLayouts` gives, for every class,
the members as the header file declares them, how each counts, and the order in
which the .cpp file writes and reads them. A string is its length; the frame is
a real sequence of octets, so decode has to find the NULs and counts in it.
`Decode` follows the code's offset and its checks; what lies beyond the frame's
end is read by the code too, always before a check that then throws, so any
value does. Header fields other than the length are zero octets, octet members
are not range-checked, an object decodes once. `SendSubmitSm` starts from the campaign's
text: its octets, and the octets of its UCS2 form, if it has one (a character that
`strncpy` cut at `SmsCampaign.cpp:190` leaves none). iconv converts into 512 octets and
fails on a text without a form or with more than 256 characters; the code then logs,
and sends the PDU with no text (`Esme.cpp:428`). `sms` remembers the text as the campaign gave it,
so TextArrivesOnce speaks of that text and names the failed conversion as its only exception.

## 3. Runs

| run | instance | what it shows |
|---|---|---|
| `pipe_main` | 2 SMS, 2 campaigns, 2 workers, numbers 1-4, gate 0, 1 lost connection, 2 bare answers a number (2.5 million states with symmetry) | TasksMatchItems (one task per queued SMS and frame; no pop of an empty queue), NeverMisattributed (a first answer finds its own SMS, no update goes to another's row), AtMostOneResend, AcceptedIsRecorded, NoSmsForgotten |
| `pipe_live` | 3 SMS, 2 campaigns, 1 worker, gate 0, numbers 1-2 (they wrap), no lost connection, 1 bare answer (879 thousand states) | EverySmsSubmitted; SendQueueBounded with two threads past the gate on one reading, and a third SMS that has to wait there; TypeOK |
| `pipe_v_pause` | 1 campaign, 1 worker, 1 lost connection | **violated**: PauseIsTemporary |
| `receipt` | 2 SMS, 2 workers, 2 receipts each, one after the other, states 0, 2 and 5, queue of 2 | NoStatusOutOfThinAir, HalvesMeet (in the maps, and in the row), implements RowStatus, TypeOK with the queue's bound |
| `receipt_v_match` | 1 SMS, 2 workers | **violated**: NoOneWaitsForAMatch |
| `pool` | 2 workers, 2 producers, 1 sender, 3 PDU tasks, queue of 2, shutdown at any time | InFlightIsRight (the counter, and the destructor's assert), NoLostWakeup (of workers and of producers), TypeOK, ReceiveTaskRuns, EnqueueReturns and ShutdownCompletes (each unless a campaign thread's exception ends the process first), implements TaskPool with its fairness |
| `session` | 1 worker, 1 sender, 3 descriptors, 2 lost connections, 1 refused connect or bind, whole and bare refusals | NoForgottenSocket, ComesBack and LossIsNoticed (with the ends named below) |
| `session_stop` | 1 worker, 1 descriptor, 1 lost connection, 1 deliver_sm, Main's exit at any time | StopReturns, TypeOK |
| `session_v_bound` | 1 worker, 1 sender, 2 descriptors, 1 lost, 1 refused | **violated**: BoundIsBound |
| `framer` | an enquire_link (16 octets) and an outbind (18), 2 PDUs in all, any pieces, 1 lost connection, heap octets 0 and 2 (107 thousand states) | NothingLostOnTheWay (buffer and queue are the octets read; one task per PDU), CutsAreEnds (PDUs are cut where the SMSC ended them, none that is complete is held back), EveryPduArrives, TypeOK |
| `campaign` | 2 campaigns (2 rows and none), 2 thread slots, windows of 1, an update queue of 1, MAX_CAMPAIN_ERROR 1, 2 faults of any kind, 2 answers (1.7 million states with symmetry) | UpdatesAreKept (settled in order, one lost per fault), CompletedMeansDone, SentAgainOnlyIfUnmarked, EntryOutlivesThread, PickedHasThread, TypeOK |
| `pdu` | all 33 classes, default and full constructor, then any 2 calls and 2 list entries, decode and again | LengthIsEncoded, RoundTrip, CutsAreRefused, MandatoryInOrder, TextArrivesOnce, TypeOK |

**Why the bounds suffice.** Two workers, two SMS and two campaigns are what
every race listed needs: two threads past the same unlocked test, an answer and
its own submit, an old and a new answer. A gate of 0 makes every overshoot
visible. (`pipe_live` also passes with 2 SMS, 2 campaigns and 2 workers, 388
thousand states, a change of its constants.) The queue of 2 is full and empty within a few steps. `MaxSeq` 3 wraps;
the correlation invariants say "until the counter wraps", since `insert`
keeps an old entry of the same number and the code does nothing about it. One
lost connection makes a second connection, which is all that answers of an old one can
confuse. A library object's calls change one member or TLV each, and the
length each leaves behind does not depend on the others, so pairs of
calls, with an insertion between a removal and a mandatory setter, reach the
interactions; lengths are 0, 2, the type's limit, one past Address::MaxLen (21, which a
data_sm and a list name may have). A text has 0, 2, 255, 256 or 257 octets, its UCS2 form
0, 2, 254, 256, 512 or 514: both sides of what short_message counts and of what
iconv's buffer takes.
The proofs take over for the bounds where they apply. Two PDUs of different lengths and reads of up to 32 octets reach a
split inside the length field, a split inside the body, and two PDUs in one
read; one lost connection leaves any remainder behind, and heap octets 0 and 2 complete
a length both to one that fits and to one that does not. A window of 1 over two
rows makes a second window; a campaign without rows completes at once; with two
faults a query fails twice in a row, which is past MAX_CAMPAIN_ERROR 1, or a
second start meets the thread it races with (it counts for two). Slots are used
again, so threads and pthread_joins of earlier ones are covered.
In `pool` there are fewer
paused senders than workers on purpose: with as many, all workers can wait for
room that only they can make (hazard `EsmeSenderThread.cpp:25`), which takes
100000 queued tasks in the program.

**Fairness.** Threads are scheduled (weak fairness of each thread's loop). A
FIFO queue passes no task over: strong fairness of taking a task in SmsPipeline,
which `pool` checks of the pool (PoolSpec) under weak fairness of its
threads only. `PassGate` is strongly fair: the campaign polls it, and it opens
again and again. The SMSC answers what it received on a connection that stays up.
Read goes on while there is something to read or to cut, and
the link thread reconnects an object in ST_ERROR (weak fairness of each, Framer).
Losing or refusing a connection, spurious wakeups, shutting down, repeating a receipt
and pausing by a bare answer are never forced. Deadlock checking is on in every
run but `campaign`; the systems that end do so in an explicit `Finished` (or
`Deleted`, or `Waiting`) step. `campaign` has no fairness and no deadlock check: its
bounds on faults, slots and answers stop it where the program would go on
(Main, for instance, waits in pthread_create's place when no slot is free).

## 4. Findings

- `EsmePduProcessThread.cpp:155` - a bare answer says "DO NOT SUBMIT MORE WAIT
  FOR SOME TIME" and clears `m_isSendSms`. A worker has passed the state check when its
  connection is lost; the object is stopped and started again, which sets the flag, and the
  worker writes its submit on the new connection, which is not bound yet. The bare
  answer to it is processed in ST_BIND_REQ: it pauses, its resend returns at
  `Esme.cpp:397`, no answer follows, and the object never sends again (`pipe_v_pause`).
- `Esme.cpp:812` - `Esme.hpp:104-105` provides for the receipt being processed
  before the answer; with a pool both can miss each other's entry, which
  then stay for ever and leave the row ACKNOWLEDGED (`receipt_v_match`).
- `EsmePduProcessThread.cpp:92` - the bind answer of a lost connection marks the
  next one bound; Bind then finds it "Already Binded" and never binds it
  (`session_v_bound`).

Seen while modelling, without a run because nothing in the repository says
otherwise: the full constructor of QueryBroadcastSmResp always throws
(`query_broadcast_sm_resp.cpp:63`); data_sm encodes addresses its decode refuses
(`aux_types.hpp:273`); an SMS whose session is lost between the pop and
SendSubmitSm's test is dropped (`Esme.cpp:397`); repeated receipts on
two workers erase the same iterator (`Esme.cpp:821`); a read that fails while the
link thread reconnects can close or forget the new socket (`Esme.cpp:207`), or store
its ST_IDLE over the new connection's state (`:209`), after which Start connects a connected socket
(EISCONN) for ever and nobody reads it (`ConnectsAgain`, an end that ComesBack and
LossIsNoticed name); a campaign thread that posts to the pool after Main has stopped it
ends the process by an uncaught exception (`ThreadPool.h`, "enqueue on stopped ThreadPool");
a unicode text of more than 256 characters, or with a character cut in two, is sent as no text
(`Esme.cpp:428`); a bind
refused by a bare header leaves Start waiting until the connection is lost
(`EsmePduProcessThread.cpp:86`); a remainder in the read buffer puts the next
connection out of step for good (`Esme.cpp:276`).

Campaigns, likewise: "Once Done" (`SmsCampaign.cpp:254`) is also reached with rows
unsent, after more than MAX_CAMPAIN_ERROR failed queries, after a result set that
could not be stored (`MySqlWrapper.cpp`, mysql_store_result), and after a STOP of another
thread of the campaign. "So that it will not pick again" (`:106`) happens after
Main was let go, so a slow database lets Main start a second thread, whose end has
the first one's map entry erased under it. MarkRows overwrites a status that an
answer has already written by PICKED. The second test of MAX_CAMPAIN_ERROR
(`:243`) cannot succeed, as the select before it has reset the counter. A
campaign that is PICKED when its process ends, or whose last query fails, is never
resumed. An old entry with STOP is kept by `insert` (`Main.cpp:65`), and the new thread's
first write repairs it. In the update queue: an update longer than
mq_msgsize is refused and only logged; with a queue created with messages longer
than 511 octets DbInsertApp could not read (`DbInsertApp.cpp:71`) and would execute empty
queries; mq_send waits for room, so a DbInsertApp that is down stops every pool
worker when the queue is full; `SysMessageQueue::Delete` tests `ret = 0`, and
nobody calls it.

## 5. Proofs

Assumptions are those of the modules (`ConstantsAssumption`,
`PoolAssumption`, `SessionAssumption`): finite sets of threads, positive limits,
distinct names (a worker is not the link thread). They are checked by every run
and say nothing of the sizes. `PduAssumption` says what a table of classes has to be:
a class's members are of one sort each, the .cpp file writes each once, MinLength is
what the header and the empty members take, there is at most one address list (that of
submit_multi has at least two members behind it, which its decode counts on); a TLV's
length fits its field, a text an octet. `pdu` checks it of the 33 classes.

`SmsPipeline_proofs`
- **TypeCorrect**: TypeOK is inductive. It holds the wrap: numbers stay below Max.
- **TasksMatchQueues**, **TasksAreMatched**: OneTaskPerItem counts workers and campaign threads by
  place, so it is inductive together with TypeOK and the finiteness of the
  thread sets; the lemmas say how the cardinality of "threads at x" changes when one
  thread moves.
- **PopsAreSafe** (the other half of TasksAreMatched): a worker about to pop is one of the counted holders, so the
  queue has an element, whoever tested `empty()` before.
- **QueueStaysBounded**: SendQueueBounded is not inductive. The invariant is
  that queue length plus the threads that are past the gate and have not pushed
  stays within the limit plus the number of threads. It uses that only PassGate
  adds to the second term, when the queue is within the limit.

`SmsCorrelation_proofs` (any number of rows, threads, lost connections and bare
answers; until the sequence counter wraps, where the properties end too). The code
looks up, uses and erases an entry of sendSmsMap in three steps without a lock, so
none of the properties is inductive; **TracesAreKept** is the invariant they
follow from, in five parts that need one another:
- `RowsApart` and `ParcelsApart`: an SMS without a number is with one campaign thread,
  in one place of sendQueue or with one worker; a number is with one worker or in
  one frame. So two workers never hold the same number or SMS.
- `Accounts`: how often an SMS was written follows from where it is. An SMS on its
  second try has left the map, so what a further bare answer resends is a blank.
- `Filed`: the entry of a number that is still to be used is its own SMS's on the first
  try, and nothing or a blank afterwards. It holds through the unlocked steps because
  only the holder of a number erases its entry, and the blank that another
  worker's `operator[]` may insert is one it would look for too.
- `Logged`: an update books an answer on its own row or on none.
- **AnswersAreTheirOwn**, **ResendsAreBounded**, **AcceptedAreRecorded**,
  **NoneIsForgotten** are then short. The last needs **NeverDownUndropped**: an SMS that was never written and is in no thread or queue
  was registered, and its worker found the connection down.

`ReceiptMatch_proofs` (any number of messages, workers and repeated receipts, any
queue size)
- **TypeCorrect**: TypeOK with "the PDU in hand fits the worker's place".
- `Places`, under the theorems that follow: a message has one answer and one receipt under way,
  each in one place. (The guard of `Receipt` is where that comes from.)
- **StatusesAreTold**: `StatusesTold` says of every status in a map, in a worker's hand,
  in the queue or in a row that the SMSC told it. It needs no order, so it holds for
  crossed messages too.
- **HalvesDoMeet**: `Meets`, for each message that was not crossed. Before the answer
  has searched the maps, the row is untouched and the receipt is to come, in hand, or
  filed (`AwaitsAnswer`); then the answer's entry waits for it (`AwaitsReceipt`), or
  the receipt's status is in the row or the last one on its way (`HaveMet`).
  `SearchHolds` is where crossing breaks it: what a search found is still so when the
  entry is filed, because one worker at a time has the message (`OneHand`).
- **RowsAreRefined**: `InOrder`, part of `Meets`, says that of two updates of a row the
  first is the acknowledgement, and that each will find the row open.

`WorkerPool_proofs`
- **TypeCorrect**, **CountsInFlight** (CounterIsRight, with the next): TypeOK and InFlightCounts are inductive
  together (decrementing stays in Nat because a busy worker was counted).
- **DestructorAssertHolds**: from CountsInFlight and the invariant that an
  exited worker has seen `stop` with an empty queue, after which every enqueue throws.
- **EverySleeperIsTold**: **RoomAnnounced** is inductive with TypeOK,
  **NoWakeupIsLost** is inductive with TypeOK and with "nobody sleeps in a stopped pool".
- **PoolIsFifo**: initial states map to TaskPool's and every step to a step or a
  stutter of it, under TypeOK. A step that is not a producer's exception leaves
  `Terminated` as it was (`LivesOn`); the exception is TaskPool's Abort.

`EsmeSession_proofs` (any number of workers, descriptors, lost connections,
refusals, stops)
- **SessionIsTyped**: TypeOK is inductive with `Places` (each thread is at a label of
  its own code, a call of CloseConnection or Start returns to its caller, the reader
  reads a descriptor that select() was called with).
- **SocketsAreKept**: m_esmeSocket and the open descriptors are changed by three threads
  without a lock. `LinkAlone` says that before the first failed read and the first
  shutdown the other two are not in CloseConnection, and that the link thread, between
  close() and the reset of m_esmeSocket, has nothing open. So it opens only when
  nothing is, and NoForgottenSocket is what is left. `LowestFree` (the descriptor
  opened was free) needs a least element of a set of numbers.

`Framer_proofs` (from FramerAssumption: a PDU tells its own length, sizes are
positive)
- **FramerTypes**: TypeOK is inductive once a length field of octets is known to
  be a natural number.
- **StreamIsKept**: PiecesOfTheStream is inductive with "the cuts ascend and end
  within what was read" (`CutsInStream`). The lemmas say what SubSeq, Erase and
  concatenation do to the rest of a stream; nothing is assumed about what the length
  field says, so the theorem covers streams that are out of step.
- **TasksMatchPdus**, **NothingIsLost**: OneTaskPerPdu is inductive with TypeOK; both together.
- **PdusAreCutOut**: CutsAreEnds says nothing of what is still to come, so it needs
  `PdusInARow` (after every start of a PDU the next end is as far away as the four
  octets there say, once they have arrived; only the last PDU may be cut short) and
  `InStep` (the buffer starts at such a place, and the length Split goes by is
  that of its first PDU, or fits nothing). Then a split ends at an end, and a Read
  that returns has less than a PDU.

`SmsCampaign_proofs` (from QueueAssumption and CampaignAssumption; any number of
campaigns, rows, threads, faults)
- **QueueIsKept**: in UpdateQueue, types, order and losses are inductive with
  "the buffer holds an update exactly while it is to be executed".
- **CampaignsUseQueue**: every step of SmsCampaign is a step of UpdateQueue or
  leaves the queue alone; **UpdatesReachTheDatabase** follows from the two.
- **CampaignTypes**: `Types` says that the sweep's remaining entries are in the map;
  that needs "only a sweep has any, and it runs with campaignId 0".
- **EntriesOutliveThreads**, **PickedIsWorkedOn**: the invariant `CampaignInv`. A
  thread that has not begun has the entry of campaignId, which has its id; an entry a
  running thread owns says running, so the sweep, which erases stopped ones of joined
  threads, does not touch it; a campaign is SCHEDULED while its thread has not
  marked it. All for campaigns that were not raced.
- **CompletedIsDone**: a thread that found nothing to select found every row sent
  or not SCHEDULED, and a row that is not SCHEDULED was sent; a row that is, in a
  completed campaign, was sent before a 0 or a failed mark.
- **SentAgainForAReason**: counts, for each row, what stands against a further
  send: a mark it has, a mark its thread is about to make, or a place in the
  current window (`Room`).

`SmppPdu_proofs` (from PduAssumption; any table of classes, any number of calls,
strings, addresses and list names of any length the types take, texts and TLVs of
any length their fields count)
- **PduInvariance** is the inductive invariant: the object is `Right`, and an
  SMS's PDU can be decoded and has its converted text once. `Right` is `Sound` (the members are
  within their types, a list within its limit) with the number the code keeps in
  increments: command_length = 16 + FieldsOctets + TlvOctets. Without `Sound` it
  would not be inductive: a text of 256 would be counted as 0.
- Each call changes one term of that sum. `FieldsChange` says so of a member's setter;
  `InsertTlvRight`, `InsertRight` and `RemoveTlvRight` of TLVs, also of those that
  are inserted before one that is missing; `AddEntryRight` of lists; `BlankOctets`
  and `ConstructRight` that the constructors start with the sum.
- The loops of the code are functions over 0 .. n or folds. `UpTo` and
  `SetRecursion` unroll them into the steps they consist of, `EverySet` (finite
  sets, one element at a time) and the library's induction on naturals, in the form
  that takes a set, carry a fact through the steps.
- `Written(b, off, s)`: s stands in frame b at off. `OctetAtIs`, `HalfAtIs`, `LengthAtIs`,
  `AddressAtIs`, `ListAtIs` and `TlvsAtIs` say that decode reads there what encode has
  written, whatever is in front of it and behind it; **DecodeIs** puts them together: decode of an
  encoded object is the object, or a refusal in exactly the two cases of `CanDecode`.
- **LengthIsRight**, **DecodeUndoesEncode**, **TextArrives** and **TypeCorrect**
  are short from there. For TextArrives, the invariant keeps the converted length;
  that it is the text's own, or none in exactly the cases TextArrivesOnce names, follows from
  `Converted` and iconv's room.
- `CutShort(b, off, s)`: b ends within s. `WholeOrCut`: whatever stands in a frame
  is, in a frame cut from it, still whole or cut short. `LengthAtCut`, `AddressAtCut`,
  `EntryAtCut`, `ListAtCut` and `TlvsAtCut` say that decode then finds too little room
  or no end, `CutPieces` finds the first piece that is cut, and the loops carry the
  refusal to their end. **CutsRefused** follows: decode takes a frame that ends early if
  and only if it ends where a TLV begins (`TlvsOfCut`) and has the required ones
  (`CutBetweenIs`).
- **MandatoryStayInOrder** has an invariant of its own on top: `InOrder(l, ts)` says of a
  list of TLVs that each of ts is in it, each but the first once, and in the order of ts.
  `Thinned` tells where the TLVs of a list were before `remove_tlv`, `InsertedWhere` where
  they are after an insertion; so a removal keeps the order of what is left, and
  `InsertedInOrder` gives the condition on the place at which a mandatory TLV must go back,
  which `insert_after_tlv` and `insert_before_tlv` meet because the neighbour they look for
  is still there.

Only model-checked: every liveness property and the fairness half of PoolSpec
(outside the prover's reach). Every invariant of a passing run is also proved.

## 6. Not modelled

Configuration, logging, the client library behind MySqlWrapper and the test
programs (I/O without state of their own). Torn `std::map` and `std::deque`
operations under a data race, and everything after the objects are deleted at
the exit (`Main.cpp:104`): undefined behaviour below this level. Octets of a torn or
partial write (`Esme.cpp:251`). ThSmsSender and ThOnReceivePdu of the build
without a pool, which the shipped Makefile.am compiles out; they are near-copies of the
handlers on one thread each, but a resend there keeps the registered SMS (so
resends are not bounded), and an exception of a decoding constructor ends the
process. A query that was executed and reported as failed. Two receipts of one message on
two workers at the same moment.

What is left to do: liveness of campaigns (a campaign whose queries succeed
completes) under the fairness of its thread and of Main's loop.
