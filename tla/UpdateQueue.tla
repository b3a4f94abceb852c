----------------------------- MODULE UpdateQueue ---------------------------
(***************************************************************************)
(* The POSIX message queue between the ESME, whose workers write the       *)
(* updates of rows (DoDatabaseUpdate), and DbInsertApp, which takes one,   *)
(* looks after its connection to the database, and executes it.            *)
(*                                                                         *)
(* The queue belongs to the kernel: it survives both processes, either of  *)
(* which may end and be started again.  SysMessageQueue is the handle a    *)
(* process has on it.  It is opened once; a process whose Open failed      *)
(* keeps an unopened handle (ESME) or ends (DbInsertApp).  DbInsertApp is  *)
(* the only reader, so that its count of messages is still good when it    *)
(* reads.                                                                  *)
(***************************************************************************)
EXTENDS Integers, Sequences

CONSTANTS
  Updates,       \* the queries a worker may write
  NoUpdate,      \* the buffer of DbInsertApp when nothing is in it
  MaxMsgs,       \* mq_maxmsg
  MaxAppEnds,    \* bound: ends of DbInsertApp
  MaxBadQueries  \* bound: updates the database refuses

ASSUME QueueAssumption ==
  /\ NoUpdate \notin Updates /\ MaxMsgs \in Nat \ {0}
  /\ MaxAppEnds \in Nat /\ MaxBadQueries \in Nat

VARIABLES
  mq,            \* the messages in the kernel's queue
  mesi_mqState,  \* of the ESME's handle: "unknown", "opened" or "failed"
  appPc,         \* DbInsertApp: "off", "loop", or "execute" a message it took
  msg,           \* its buffer
  (* history *)
  accepted,      \* updates mq_send took, in order
  settled,       \* updates DbInsertApp is done with, in order
  dropped,       \* how many of the settled were never executed
  badQueries, appEnds

queueVars == <<mq, mesi_mqState, appPc, msg, accepted, settled,
               dropped, badQueries, appEnds>>

QueueInit ==
  /\ mq = << >> /\ mesi_mqState = "unknown"
  /\ appPc = "off" /\ msg = NoUpdate
  /\ accepted = << >> /\ settled = << >>
  /\ dropped = 0 /\ badQueries = 0 /\ appEnds = 0

-----------------------------------------------------------------------------
(* The ESME's side.                                                        *)

(* SysMessageQueue::Open, called by the constructor of an Esme: the queue  *)
(* is created if it is not there; both that and opening it may fail, which *)
(* the constructor only logs.                                              *)
Open ==
  /\ mesi_mqState = "unknown"
  /\ mesi_mqState' \in {"opened", "failed"}
  /\ UNCHANGED <<mq, appPc, msg, accepted, settled, dropped,
                 badQueries, appEnds>>

(* SysMessageQueue::Write.  mq_send waits for room. *)
Write(u) ==
  /\ mesi_mqState = "opened" /\ Len(mq) < MaxMsgs
  /\ mq' = Append(mq, u)
  /\ accepted' = Append(accepted, u)
  /\ UNCHANGED <<mesi_mqState, appPc, msg, settled, dropped,
                 badQueries, appEnds>>

(* On a handle that is not open it returns MQ_ERR_GENERAL: the caller logs *)
(* the query and goes on.                                                  *)
WriteRefused == mesi_mqState = "failed" /\ UNCHANGED queueVars

(* The ESME's process ends; the next one starts with a handle of its own. *)
HandleLost ==
  /\ mesi_mqState' = "unknown"
  /\ UNCHANGED <<mq, appPc, msg, accepted, settled, dropped,
                 badQueries, appEnds>>

-----------------------------------------------------------------------------
(* DbInsertApp.                                                            *)

(* It connects to the database, opens the queue and sets IS_PROCESS_RUN;   *)
(* when either fails it is off again.                                      *)
AppStarts ==
  /\ appPc = "off"
  /\ appPc' = "loop"
  /\ UNCHANGED <<mq, mesi_mqState, msg, accepted, settled, dropped,
                 badQueries, appEnds>>

(* NoOfMessagesInQueue is positive: the oldest message leaves the queue.   *)
Read ==
  /\ appPc = "loop" /\ mq # << >>
  /\ msg' = Head(mq)
  /\ mq' = Tail(mq)
  /\ appPc' = "execute"
  /\ UNCHANGED <<mesi_mqState, accepted, settled, dropped,
                 badQueries, appEnds>>

(* mcfn_Execute succeeds, after a reconnection if one was needed. *)
Execute ==
  /\ appPc = "execute"
  /\ settled' = Append(settled, msg)
  /\ msg' = NoUpdate /\ appPc' = "loop"
  /\ UNCHANGED <<mq, mesi_mqState, accepted, dropped, badQueries,
                 appEnds>>

\* Bug: the failed message is put back, behind those that came later.
BugPutBack ==
  /\ appPc = "execute" /\ badQueries < MaxBadQueries
  /\ mq' = Append(mq, msg)
  /\ msg' = NoUpdate /\ appPc' = "loop"
  /\ badQueries' = badQueries + 1
  /\ UNCHANGED <<mesi_mqState, accepted, settled, dropped, appEnds>>

(* It fails, or the connection was lost and could not be made again: the   *)
(* query is logged and forgotten.                                          *)
ExecuteFails ==
  /\ appPc = "execute" /\ badQueries < MaxBadQueries
  /\ settled' = Append(settled, msg)
  /\ dropped' = dropped + 1
  /\ msg' = NoUpdate /\ appPc' = "loop"
  /\ badQueries' = badQueries + 1
  /\ UNCHANGED <<mq, mesi_mqState, accepted, appEnds>>

(* The process ends.  SIGINT is seen between two messages; a crash is not  *)
(* so kind, and what it has in its buffer is gone.                         *)
AppEnds ==
  /\ appPc # "off" /\ appEnds < MaxAppEnds
  /\ appPc' = "off" /\ msg' = NoUpdate
  /\ appEnds' = appEnds + 1
  /\ IF appPc = "execute"
       THEN settled' = Append(settled, msg) /\ dropped' = dropped + 1
       ELSE UNCHANGED <<settled, dropped>>
  /\ UNCHANGED <<mq, mesi_mqState, accepted, badQueries>>

QueueNext ==
  \/ Open \/ HandleLost \/ WriteRefused
  \/ \E u \in Updates : Write(u)
  \/ AppStarts \/ Read \/ Execute \/ ExecuteFails \/ AppEnds

QueueSpec == QueueInit /\ [][QueueNext]_queueVars

-----------------------------------------------------------------------------
(* PROPERTIES *)

QueueTypeOK ==
  /\ mq \in Seq(Updates) /\ mesi_mqState \in {"unknown", "opened", "failed"}
  /\ appPc \in {"off", "loop", "execute"} /\ msg \in Updates \union {NoUpdate}
  /\ accepted \in Seq(Updates) /\ settled \in Seq(Updates)
  /\ dropped \in Nat /\ badQueries \in Nat /\ appEnds \in Nat

(* What DbInsertApp has taken and not settled. *)
InHand == IF msg = NoUpdate THEN << >> ELSE <<msg>>

(* Whatever ends and starts again, the updates are settled once each and   *)
(* in the order they were accepted: the accepted ones are those settled,   *)
(* the one in hand, and those in the queue.  The final status of a row,    *)
(* written after the acknowledgement, can rest on that.                    *)
SettledInOrder == accepted = settled \o InHand \o mq

(* An accepted update is lost only with a query that failed or with a      *)
(* process that ended, and then only that one.                             *)
OneLossPerFault == dropped <= badQueries + appEnds

(* Both: which updates are lost, and what becomes of the others. *)
UpdatesAreKept == SettledInOrder /\ OneLossPerFault
=============================================================================
