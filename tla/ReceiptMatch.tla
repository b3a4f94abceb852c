---------------------------- MODULE ReceiptMatch ---------------------------
(***************************************************************************)
(* Matching submit_sm_resp with delivery receipts (DoDatabaseUpdate).  The *)
(* answer tells the message id of an SMS, the receipt tells the final      *)
(* state of a message id, and either may be processed first:               *)
(*   - an answer that comes first files id -> SMS in m_vcMsgIdMap;         *)
(*   - a receipt that comes first files id -> state in m_vcMsgIdSyncMap.   *)
(* Each worker searches one map and then, unlocked, writes that or the     *)
(* other; only afterwards it sends its query to the update queue, which    *)
(* another process (DbInsertApp) executes in order.                        *)
(*                                                                         *)
(* The maps are static members: the answer and the receipt of a message    *)
(* may arrive on different connections, so their order is arbitrary here.  *)
(* A message id is identified with the SMS it was given to.  The entry of  *)
(* the answered SMS in sendSmsMap is found (SmsPipeline says when).        *)
(*                                                                         *)
(* Two workers can have the answer and the receipt of one message in hand  *)
(* at a time: the message is then "crossed", and much less holds for it.   *)
(* In the build without the pool one ThOnReceivePdu thread processes every *)
(* PDU, which is Workers a singleton, and no message is ever crossed.      *)
(***************************************************************************)
EXTENDS Integers, Sequences, FiniteSets

CONSTANTS
  Sms,            \* SMS the SMSC accepted or refused
  Workers,        \* threads that process PDUs
  ReceiptStates,  \* message_state of a receipt; 0: none or zero
  MaxReceipts,    \* bound: receipts per message (the SMSC may repeat one,
                  \* once the one before has been processed)
  QueueSize       \* mq_maxmsg of the update queue

ASSUME ReceiptAssumption ==
  /\ IsFiniteSet(Workers)
  /\ ReceiptStates \subseteq 0 .. 9
  /\ MaxReceipts \in Nat
  /\ QueueSize \in Nat \ {0}

VARIABLES
  unsent,        \* SMS the SMSC has not answered
  receipts,      \* [Sms -> Nat]: receipts the SMSC issued
  report,        \* [Sms -> state]: what the receipts of an SMS say
  accepted,      \* SMS the SMSC accepted
  pdus,          \* PDUs read and waiting for a worker
  m_vcMsgIdMap,      \* ids whose answer waits for its receipt
  m_vcMsgIdSyncMap,  \* id -> state of receipts that wait for their answer
  pc, wPdu, wQuery,  \* workers
  updateQueue,       \* the POSIX message queue
  row,               \* iStatus of each row
  errors,            \* rows of SMSMT_ERROR
  crossed            \* history: messages two workers had in hand at a time

smscVars == <<unsent, receipts, report, accepted>>
mapVars == <<m_vcMsgIdMap, m_vcMsgIdSyncMap>>
dbVars == <<row, errors>>
vars == <<smscVars, pdus, mapVars, pc, wPdu, wQuery, updateQueue, dbVars,
          crossed>>

SMS_ST_PICKED == 51
SMS_ST_ACKNOWLEDGED == 53
SMS_ST_FAILED == 99

Pdu == [type : {"ok", "nok"}, sms : Sms]
       \union [type : {"receipt"}, sms : Sms, state : ReceiptStates,
               n : 1 .. MaxReceipts]

(* An UPDATE of the row of an SMS, or an INSERT INTO SMSMT_ERROR. *)
Update(s, status) == [table |-> "row", sms |-> s, status |-> status]
InsertError(s, status) == [table |-> "error", sms |-> s, status |-> status]
Query == [table : {"row", "error"}, sms : Sms, status : Nat]

(* A receipt whose state is zero is stored as a failure ... *)
ReportedStatus(state) == IF state = 0 THEN SMS_ST_FAILED ELSE state

NoPdu == [type |-> "none"]
NoQuery == [table |-> "none"]

Init ==
  /\ unsent = Sms /\ receipts = [s \in Sms |-> 0]
  /\ report \in [Sms -> ReceiptStates] /\ accepted = {}
  /\ pdus = {}
  /\ m_vcMsgIdMap = {} /\ m_vcMsgIdSyncMap = [s \in {} |-> 0]
  /\ pc = [w \in Workers |-> "idle"]
  /\ wPdu = [w \in Workers |-> NoPdu]
  /\ wQuery = [w \in Workers |-> NoQuery]
  /\ updateQueue = << >>
  /\ row = [s \in Sms |-> SMS_ST_PICKED] /\ errors = {}
  /\ crossed = {}

-----------------------------------------------------------------------------
(* The SMSC (external).                                                    *)

Answer(s, type) ==
  /\ s \in unsent
  /\ unsent' = unsent \ {s}
  /\ accepted' = IF type = "ok" THEN accepted \union {s} ELSE accepted
  /\ pdus' = pdus \union {[type |-> type, sms |-> s]}
  /\ UNCHANGED <<receipts, report, mapVars, pc, wPdu, wQuery, updateQueue,
                 dbVars, crossed>>

InHand(p) == \E w \in Workers : wPdu[w] = p
ReceiptOf(s, n) ==
  [type |-> "receipt", sms |-> s, state |-> report[s], n |-> n]

(* A receipt is repeated when its deliver_sm_resp does not come, and so    *)
(* long after it was sent: here, when the one before has been processed.   *)
(* (Two workers that find the same entry for two receipts of one message   *)
(* both erase it, which is undefined: that is left out of this model, and  *)
(* nothing below says that an iterator is still valid when it is used.)    *)
Receipt(s) ==
  /\ s \in accepted /\ receipts[s] < MaxReceipts
  /\ \A n \in 1 .. receipts[s] :
       ReceiptOf(s, n) \notin pdus /\ ~InHand(ReceiptOf(s, n))
  /\ receipts' = [receipts EXCEPT ![s] = @ + 1]
  /\ pdus' = pdus \union {ReceiptOf(s, receipts[s] + 1)}
  /\ UNCHANGED <<unsent, report, accepted, mapVars, pc, wPdu, wQuery,
                 updateQueue, dbVars, crossed>>

-----------------------------------------------------------------------------
(* DoDatabaseUpdate on worker w.                                           *)

At(w, label) == pc[w] = label
Goto(w, label) == pc' = [pc EXCEPT ![w] = label]
SmsOf(w) == wPdu[w].sms
Busy(w) == ~At(w, "idle")

TakePdu(w) ==
  /\ At(w, "idle")
  /\ \E p \in pdus :
       /\ pdus' = pdus \ {p}
       /\ wPdu' = [wPdu EXCEPT ![w] = p]
       /\ Goto(w, IF p.type = "receipt" THEN "findId" ELSE "findState")
       /\ crossed' = crossed \union
            {s \in {p.sms} : \E u \in Workers : Busy(u) /\ SmsOf(u) = s}
  /\ UNCHANGED <<smscVars, mapVars, wQuery, updateQueue, dbVars>>

\* Bug: the answer does not look for an early receipt.
BugNoEarlyReceipt(w) ==
  /\ At(w, "findState")
  /\ IF wPdu[w].type = "nok"
       THEN /\ wQuery' = [wQuery EXCEPT ![w] = Update(SmsOf(w), SMS_ST_FAILED)]
            /\ Goto(w, "enqueue")
       ELSE Goto(w, "fileId") /\ UNCHANGED wQuery
  /\ UNCHANGED <<smscVars, pdus, mapVars, wPdu, updateQueue, dbVars,
                 crossed>>

(* Case SubmitSmResp: a refusal is a failure; an acceptance looks for an   *)
(* early receipt.                                                          *)
FindState(w) ==
  /\ At(w, "findState")
  /\ IF wPdu[w].type = "nok"
       THEN /\ wQuery' = [wQuery EXCEPT ![w] = Update(SmsOf(w), SMS_ST_FAILED)]
            /\ Goto(w, "enqueue")
       ELSE /\ Goto(w, IF SmsOf(w) \in DOMAIN m_vcMsgIdSyncMap
                       THEN "takeState" ELSE "fileId")
            /\ UNCHANGED wQuery
  /\ UNCHANGED <<smscVars, pdus, mapVars, wPdu, updateQueue, dbVars,
                 crossed>>

\* Bug: the state is read through begin() instead of the iterator found.
BugStateOfAnother(w) ==
  /\ At(w, "takeState") /\ SmsOf(w) \in DOMAIN m_vcMsgIdSyncMap
  /\ \E other \in DOMAIN m_vcMsgIdSyncMap :
       wQuery' = [wQuery EXCEPT ![w] = Update(SmsOf(w), m_vcMsgIdSyncMap[other])]
  /\ m_vcMsgIdSyncMap' = [s \in DOMAIN m_vcMsgIdSyncMap \ {SmsOf(w)} |->
                            m_vcMsgIdSyncMap[s]]
  /\ Goto(w, "enqueue")
  /\ UNCHANGED <<smscVars, pdus, m_vcMsgIdMap, wPdu, updateQueue, dbVars,
                 crossed>>

(* The iterator of find is read and erased, without a lock. *)
TakeState(w) ==
  /\ At(w, "takeState") /\ SmsOf(w) \in DOMAIN m_vcMsgIdSyncMap
  /\ wQuery' = [wQuery EXCEPT ![w] =
                  Update(SmsOf(w), m_vcMsgIdSyncMap[SmsOf(w)])]
  /\ m_vcMsgIdSyncMap' = [s \in DOMAIN m_vcMsgIdSyncMap \ {SmsOf(w)} |->
                            m_vcMsgIdSyncMap[s]]
  /\ Goto(w, "enqueue")
  /\ UNCHANGED <<smscVars, pdus, m_vcMsgIdMap, wPdu, updateQueue, dbVars,
                 crossed>>

FileId(w) ==
  /\ At(w, "fileId")
  /\ wQuery' = [wQuery EXCEPT ![w] = Update(SmsOf(w), SMS_ST_ACKNOWLEDGED)]
  /\ m_vcMsgIdMap' = m_vcMsgIdMap \union {SmsOf(w)}
  /\ Goto(w, "enqueue")
  /\ UNCHANGED <<smscVars, pdus, m_vcMsgIdSyncMap, wPdu, updateQueue, dbVars,
                 crossed>>

(* Case DeliverSm: an unlocked find decides what the receipt does. *)
FindId(w) ==
  /\ At(w, "findId")
  /\ Goto(w, IF SmsOf(w) \in m_vcMsgIdMap THEN "takeId" ELSE "fileState")
  /\ UNCHANGED <<smscVars, pdus, mapVars, wPdu, wQuery, updateQueue, dbVars,
                 crossed>>

TakeId(w) ==
  /\ At(w, "takeId") /\ SmsOf(w) \in m_vcMsgIdMap
  /\ wQuery' = [wQuery EXCEPT ![w] =
                  Update(SmsOf(w), ReportedStatus(wPdu[w].state))]
  /\ m_vcMsgIdMap' = m_vcMsgIdMap \ {SmsOf(w)}
  /\ Goto(w, "enqueue")
  /\ UNCHANGED <<smscVars, pdus, m_vcMsgIdSyncMap, wPdu, updateQueue, dbVars,
                 crossed>>

(* ... but is filed as it came; std::map::insert keeps an older entry. *)
FileState(w) ==
  /\ At(w, "fileState")
  /\ m_vcMsgIdSyncMap' =
       [s \in DOMAIN m_vcMsgIdSyncMap \union {SmsOf(w)} |->
          IF s \in DOMAIN m_vcMsgIdSyncMap THEN m_vcMsgIdSyncMap[s]
          ELSE wPdu[w].state]
  /\ wQuery' = [wQuery EXCEPT ![w] =
                  InsertError(SmsOf(w), ReportedStatus(wPdu[w].state))]
  /\ Goto(w, "enqueue")
  /\ UNCHANGED <<smscVars, pdus, m_vcMsgIdMap, wPdu, updateQueue, dbVars,
                 crossed>>

\* Bug: the room in the queue is not waited for.
BugNoRoom(w) ==
  /\ At(w, "enqueue")
  /\ updateQueue' = Append(updateQueue, wQuery[w])
  /\ wPdu' = [wPdu EXCEPT ![w] = NoPdu]
  /\ wQuery' = [wQuery EXCEPT ![w] = NoQuery]
  /\ Goto(w, "idle")
  /\ UNCHANGED <<smscVars, pdus, mapVars, dbVars, crossed>>

(* mq_send blocks while the queue is full. *)
EnqueueQuery(w) ==
  /\ At(w, "enqueue") /\ Len(updateQueue) < QueueSize
  /\ updateQueue' = Append(updateQueue, wQuery[w])
  /\ wPdu' = [wPdu EXCEPT ![w] = NoPdu]
  /\ wQuery' = [wQuery EXCEPT ![w] = NoQuery]
  /\ Goto(w, "idle")
  /\ UNCHANGED <<smscVars, pdus, mapVars, dbVars, crossed>>

\* Bug: the newest query is received first (a priority per kind of update).
BugNewestFirst ==
  /\ updateQueue # << >>
  /\ LET q == updateQueue[Len(updateQueue)] IN
       IF q.table = "row"
         THEN row' = [row EXCEPT ![q.sms] = q.status] /\ UNCHANGED errors
         ELSE errors' = errors \union {<<q.sms, q.status>>} /\ UNCHANGED row
  /\ updateQueue' = SubSeq(updateQueue, 1, Len(updateQueue) - 1)
  /\ UNCHANGED <<smscVars, pdus, mapVars, pc, wPdu, wQuery, crossed>>

(* DbInsertApp receives the oldest query and executes it. *)
ExecuteQuery ==
  /\ updateQueue # << >>
  /\ LET q == Head(updateQueue) IN
       IF q.table = "row"
         THEN row' = [row EXCEPT ![q.sms] = q.status] /\ UNCHANGED errors
         ELSE errors' = errors \union {<<q.sms, q.status>>} /\ UNCHANGED row
  /\ updateQueue' = Tail(updateQueue)
  /\ UNCHANGED <<smscVars, pdus, mapVars, pc, wPdu, wQuery, crossed>>

-----------------------------------------------------------------------------
DoDatabaseUpdate(w) ==
  \/ FindState(w) \/ TakeState(w) \/ FileId(w)
  \/ FindId(w) \/ TakeId(w) \/ FileState(w) \/ EnqueueQuery(w)

(* Everything the SMSC sent has been processed and executed. *)
Settled ==
  /\ pdus = {} /\ updateQueue = << >>
  /\ \A w \in Workers : pc[w] = "idle"

Finished == Settled /\ unsent = {} /\ UNCHANGED vars

Next ==
  \/ \E s \in Sms : Receipt(s) \/ \E type \in {"ok", "nok"} : Answer(s, type)
  \/ \E w \in Workers : TakePdu(w) \/ DoDatabaseUpdate(w)
  \/ ExecuteQuery \/ Finished

Spec == Init /\ [][Next]_vars

-----------------------------------------------------------------------------
(* PROPERTIES *)

(* Every variable has its type, and the update queue its bound. *)
TypeOK ==
  /\ unsent \subseteq Sms /\ accepted \subseteq Sms
  /\ receipts \in [Sms -> 0 .. MaxReceipts] /\ report \in [Sms -> ReceiptStates]
  /\ pdus \subseteq Pdu
  /\ m_vcMsgIdMap \subseteq Sms
  /\ DOMAIN m_vcMsgIdSyncMap \subseteq Sms
  /\ m_vcMsgIdSyncMap \in [DOMAIN m_vcMsgIdSyncMap -> ReceiptStates]
  /\ pc \in [Workers -> {"idle", "findState", "takeState", "fileId", "findId",
                         "takeId", "fileState", "enqueue"}]
  /\ wPdu \in [Workers -> Pdu \union {NoPdu}]
  /\ wQuery \in [Workers -> Query \union {NoQuery}]
  /\ updateQueue \in Seq(Query) /\ Len(updateQueue) <= QueueSize
  /\ row \in [Sms -> Nat] /\ errors \subseteq Sms \X Nat
  /\ crossed \subseteq Sms

(* A row that claims a final state has a receipt, or a refusal, behind it, *)
(* even when the message was crossed.  A receipt without a state that came *)
(* before its answer is booked as it was filed, as 0: the row is then      *)
(* SCHEDULED again.                                                        *)
NoStatusOutOfThinAir ==
  \A s \in Sms : row[s] \notin {SMS_ST_PICKED, SMS_ST_ACKNOWLEDGED} =>
    \/ receipts[s] > 0 /\ row[s] \in {report[s], ReportedStatus(report[s])}
    \/ s \notin accepted /\ row[s] = SMS_ST_FAILED

(* "Special case when we are processing delivery report before processing  *)
(* submit_sm_resp for same": when both have been processed, one after the  *)
(* other, the row has the receipt's status.  Two workers can search both   *)
(* maps before either files its entry, and can queue the two updates in    *)
(* the wrong order.                                                        *)
ReceiptWins ==
  Settled => \A s \in accepted \ crossed :
    receipts[s] > 0 => row[s] \in {report[s], ReportedStatus(report[s])}

(* The same, seen from the maps: the answer and the receipt of a message   *)
(* never wait for each other, if one was processed after the other; nor    *)
(* are both found by the other's worker, and their entries erased twice.   *)
Waiting == m_vcMsgIdMap \intersect DOMAIN m_vcMsgIdSyncMap
OnlyCrossedMissEachOther == Waiting \subseteq crossed

(* The two halves of a message meet, in the maps and in its row. *)
HalvesMeet == ReceiptWins /\ OnlyCrossedMissEachOther

(* An answer and a receipt of one message, crossed or not, never wait for  *)
(* each other for ever.                                                    *)
NoOneWaitsForAMatch == (\A w \in Workers : pc[w] = "idle") => Waiting = {}

(* The rows behave as RowStatus says; a crossed one is not looked at.      *)
(* (Nothing has been written to it when that happens.)                     *)
Rows == INSTANCE RowStatus
          WITH row <- [s \in Sms |-> IF s \in crossed THEN SMS_ST_PICKED
                                    ELSE row[s]]
RowsSpec == Rows!Spec
=============================================================================
