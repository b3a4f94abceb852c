---------------------------- MODULE SmsPipeline ----------------------------
(***************************************************************************)
(* The life of an SMS inside one Esme object of the thread-pool build      *)
(* (-DWITH_THREAD_POOL): campaign threads fill sendQueue, every push posts *)
(* one SendOneSms task on the shared pool, a pool worker takes the SMS,    *)
(* gives it a sequence number, files it in sendSmsMap and pduRegister and  *)
(* writes the submit_sm; the reader thread pushes each frame it reads on   *)
(* receiveQueue and posts one OnReceivePdu task; a worker correlates the   *)
(* submit_sm_resp with sendSmsMap and emits the database update.           *)
(*                                                                         *)
(* The pool's task queue is a bag here: sendTasks and recvTasks count the  *)
(* posted tasks of each kind (its FIFO order is module WorkerPool's; it    *)
(* shows up here as the strong fairness of taking a task).  The session    *)
(* (Start, Stop, Bind, the link thread) is coarse: it only does what it    *)
(* does to the variables of this module.                                   *)
(***************************************************************************)
EXTENDS Integers, Sequences, FiniteSets

CONSTANTS
  Sms,          \* the rows of the campaign table
  Campaigns,    \* the campaign threads
  Workers,      \* the threads of g_threadPool
  MaxSeq,       \* Smpp::SequenceNumber::Max
  QueueLimit,   \* SMS_CAMPAIGN_QUEUE_SIZE
  MaxDrops,     \* bound: how often the connection is lost
  MaxBare,      \* bound: how many submits of one sequence number the SMSC
                \* may answer with a bare header
  NoSms         \* a value-initialised sms_data_t (id 0, empty table name)

ASSUME ConstantsAssumption ==
  /\ IsFiniteSet(Campaigns)
  /\ IsFiniteSet(Workers)
  /\ MaxSeq \in Nat /\ MaxSeq > 1
  /\ QueueLimit \in Nat
  /\ MaxDrops \in Nat
  /\ MaxBare \in Nat
  /\ NoSms \notin Sms

VARIABLES
  toSend,       \* rows no campaign thread has fetched yet
  cpc, cSms,    \* campaign threads: where they are, the row in hand
  sendQueue, receiveQueue,
  sendTasks, recvTasks,          \* tasks posted on the pool, not yet taken
  pc, wSms, wSeq, wTry,          \* workers: where they are and their locals
  nextSeq,      \* m_esmePduSequenceNum
  wrapped,      \* has nextSeq come round?
  sendSmsMap, pduRegister,
  esmeState, isSendSms,
  conn, drops,  \* is the TCP connection up; how often it went down
  rpc,          \* reader thread: "read", or "post" between push and enqueue
  atSmsc,       \* submit_sm PDUs the SMSC has and has not answered
  inbound,      \* frames on their way from the SMSC
  updates,      \* queries written to the update queue
  submits,      \* how often each SMS was written to the SMSC
  settled       \* SMS whose decodable answer has been processed

campaignVars == <<toSend, cpc, cSms>>
queueVars    == <<sendQueue, receiveQueue, sendTasks, recvTasks>>
workerVars   == <<pc, wSms, wSeq, wTry>>
seqVars      == <<nextSeq, wrapped>>
mapVars      == <<sendSmsMap, pduRegister>>
sessionVars  == <<esmeState, isSendSms>>
netVars      == <<conn, drops, rpc, atSmsc, inbound>>
logVars      == <<updates, submits, settled>>
vars == <<campaignVars, queueVars, workerVars, seqVars, mapVars, sessionVars,
          netVars, logVars>>

Seqs == 1 .. MaxSeq - 1
Data == Sms \union {NoSms}

(* A submit_sm carries its SMS; try counts the writes of its number. *)
Submit == [seq : Seqs, sms : Data, try : 1 .. MaxBare + 1]

(* A submit_sm_resp: "full" has a body and decodes whatever its status;   *)
(* "bare" is the 16-byte header, which SubmitSmResp::decode rejects.      *)
Answer == [kind : {"full", "bare"}, seq : Seqs, sms : Data,
           try : 1 .. MaxBare + 1]

SendPcs == {"check", "empty", "pop", "seq", "reg"}
SubmitPcs == {"state", "regpdu", "write", "find", "get"}
RecvPcs == {"rempty", "rpop", "unregpdu", "ufind", "uget", "unreg", "resume",
            "pause", "xfind", "xget", "xunreg"}

Init ==
  /\ toSend = Sms
  /\ cpc = [c \in Campaigns |-> "gate"]
  /\ cSms = [c \in Campaigns |-> NoSms]
  /\ sendQueue = << >> /\ receiveQueue = << >>
  /\ sendTasks = 0 /\ recvTasks = 0
  /\ pc = [w \in Workers |-> "idle"]
  /\ wSms = [w \in Workers |-> NoSms]
  /\ wSeq = [w \in Workers |-> 1]
  /\ wTry = [w \in Workers |-> 1]
  /\ nextSeq = 1 /\ wrapped = FALSE
  /\ sendSmsMap = [s \in {} |-> NoSms] /\ pduRegister = {}
  /\ esmeState = "ST_BIND" /\ isSendSms = TRUE
  /\ conn = TRUE /\ drops = 0 /\ rpc = "read"
  /\ atSmsc = {} /\ inbound = {}
  /\ updates = {} /\ submits = [s \in Sms |-> 0] /\ settled = {}

-----------------------------------------------------------------------------
(* Esme members the workers, the campaigns and the link thread share.      *)

IsSendSms == isSendSms /\ esmeState = "ST_BIND"

\* Bug: the wrap test is > instead of =, so Max itself is handed out.
BugWrapTest ==
  /\ nextSeq' = IF nextSeq + 1 > MaxSeq THEN 1 ELSE nextSeq + 1
  /\ wrapped' = (wrapped \/ nextSeq + 1 > MaxSeq)
\* Bug: without m_seqNumLock an increment can be lost.
BugLostIncrement ==
  /\ nextSeq' \in {nextSeq, IF nextSeq + 1 = MaxSeq THEN 1 ELSE nextSeq + 1}
  /\ wrapped' = (wrapped \/ nextSeq + 1 = MaxSeq)

(* Takes nextSeq and moves it on; the number Max is never handed out. *)
GetNewSequenceNumber ==
  /\ nextSeq' = IF nextSeq + 1 = MaxSeq THEN 1 ELSE nextSeq + 1
  /\ wrapped' = (wrapped \/ nextSeq + 1 = MaxSeq)

Registered(seq) == seq \in DOMAIN sendSmsMap

(* std::map::insert: an entry that is there stays. *)
RegisterSmsData(seq, sms) ==
  sendSmsMap' = IF Registered(seq) THEN sendSmsMap
                ELSE [s \in DOMAIN sendSmsMap \union {seq} |->
                        IF s = seq THEN sms ELSE sendSmsMap[s]]

UnRegisterSmsData(seq) ==
  sendSmsMap' = [s \in DOMAIN sendSmsMap \ {seq} |-> sendSmsMap[s]]

(* sendSmsMap[seq], the operator[] of std::map: a missing entry is made. *)
Lookup(seq) == IF Registered(seq) THEN sendSmsMap[seq] ELSE NoSms
LookupInserts(seq) == RegisterSmsData(seq, NoSms)

RegisterPdu(seq) == pduRegister' = pduRegister \union {seq}
UnRegisterPdu(seq) == pduRegister' = pduRegister \ {seq}

Goto(w, label) == pc' = [pc EXCEPT ![w] = label]

-----------------------------------------------------------------------------
(* A campaign thread: fetch a row, wait for the gate, push, post.          *)

\* Bug: the gate only asks IsSendSms, not how long the queue is.
BugGateIgnoresQueue(c) ==
  /\ cpc[c] = "gate" /\ IsSendSms
  /\ \E s \in toSend : /\ toSend' = toSend \ {s}
                       /\ cSms' = [cSms EXCEPT ![c] = s]
  /\ cpc' = [cpc EXCEPT ![c] = "push"]
  /\ UNCHANGED <<queueVars, workerVars, seqVars, mapVars, sessionVars, netVars,
                 logVars>>


PassGate(c) ==
  /\ cpc[c] = "gate"
  /\ Len(sendQueue) <= QueueLimit
  /\ IsSendSms
  /\ \E s \in toSend :
       /\ toSend' = toSend \ {s}
       /\ cSms' = [cSms EXCEPT ![c] = s]
  /\ cpc' = [cpc EXCEPT ![c] = "push"]
  /\ UNCHANGED <<queueVars, workerVars, seqVars, mapVars, sessionVars, netVars,
                 logVars>>

(* The gate is closed: the thread sleeps and looks again. *)
PauseQueueing(c) ==
  /\ cpc[c] = "gate" /\ toSend # {}
  /\ Len(sendQueue) > QueueLimit \/ ~IsSendSms
  /\ UNCHANGED vars

SendSmsPush(c) ==
  /\ cpc[c] = "push"
  /\ sendQueue' = Append(sendQueue, cSms[c])
  /\ cpc' = [cpc EXCEPT ![c] = "post"]
  /\ UNCHANGED <<toSend, cSms, receiveQueue, sendTasks, recvTasks, workerVars,
                 seqVars, mapVars, sessionVars, netVars, logVars>>

\* Bug: one task too many is posted for the SMS.
BugPostTwice(c) ==
  /\ cpc[c] = "post"
  /\ sendTasks' = sendTasks + 2
  /\ cpc' = [cpc EXCEPT ![c] = "gate"]
  /\ UNCHANGED <<toSend, cSms, sendQueue, receiveQueue, recvTasks, workerVars,
                 seqVars, mapVars, sessionVars, netVars, logVars>>


SendSmsPost(c) ==
  /\ cpc[c] = "post"
  /\ sendTasks' = sendTasks + 1
  /\ cpc' = [cpc EXCEPT ![c] = "gate"]
  /\ UNCHANGED <<toSend, cSms, sendQueue, receiveQueue, recvTasks, workerVars,
                 seqVars, mapVars, sessionVars, netVars, logVars>>

-----------------------------------------------------------------------------
(* SendOneSms on a worker.                                                 *)

TakeSendTask(w) ==
  /\ pc[w] = "idle" /\ sendTasks > 0
  /\ sendTasks' = sendTasks - 1
  /\ Goto(w, "check")
  /\ UNCHANGED <<campaignVars, sendQueue, receiveQueue, recvTasks, wSms, wSeq,
                 wTry, seqVars, mapVars, sessionVars, netVars, logVars>>

CheckSendable(w) ==
  /\ pc[w] = "check" /\ IsSendSms
  /\ Goto(w, "empty")
  /\ UNCHANGED <<campaignVars, queueVars, wSms, wSeq, wTry, seqVars, mapVars,
                 sessionVars, netVars, logVars>>

(* Sending is paused: the task posts itself again. *)
EnqueueMissedEvent(w) ==
  /\ pc[w] = "check" /\ ~IsSendSms
  /\ sendTasks' = sendTasks + 1
  /\ Goto(w, "idle")
  /\ UNCHANGED <<campaignVars, sendQueue, receiveQueue, recvTasks, wSms, wSeq,
                 wTry, seqVars, mapVars, sessionVars, netVars, logVars>>

(* sendQueue.empty() is read before the lock is taken. *)
CheckSendQueue(w) ==
  /\ pc[w] = "empty"
  /\ Goto(w, IF sendQueue = << >> THEN "idle" ELSE "pop")
  /\ UNCHANGED <<campaignVars, queueVars, wSms, wSeq, wTry, seqVars, mapVars,
                 sessionVars, netVars, logVars>>

\* Bug: the SMS is taken before SendOneSms knows whether it may send.
BugPopThenCheck(w) ==
  /\ pc[w] = "pop" /\ sendQueue # << >>
  /\ wSms' = [wSms EXCEPT ![w] = Head(sendQueue)]
  /\ sendQueue' = Tail(sendQueue)
  /\ Goto(w, IF IsSendSms THEN "seq" ELSE "idle")
  /\ UNCHANGED <<campaignVars, receiveQueue, sendTasks, recvTasks, wSeq, wTry,
                 seqVars, mapVars, sessionVars, netVars, logVars>>

PopSms(w) ==
  /\ pc[w] = "pop" /\ sendQueue # << >>
  /\ wSms' = [wSms EXCEPT ![w] = Head(sendQueue)]
  /\ sendQueue' = Tail(sendQueue)
  /\ Goto(w, "seq")
  /\ UNCHANGED <<campaignVars, receiveQueue, sendTasks, recvTasks, wSeq, wTry,
                 seqVars, mapVars, sessionVars, netVars, logVars>>

TakeSequenceNumber(w) ==
  /\ pc[w] = "seq"
  /\ wSeq' = [wSeq EXCEPT ![w] = nextSeq]
  /\ wTry' = [wTry EXCEPT ![w] = 1]
  /\ GetNewSequenceNumber
  /\ Goto(w, "reg")
  /\ UNCHANGED <<campaignVars, queueVars, wSms, mapVars, sessionVars, netVars,
                 logVars>>

RegisterSms(w) ==
  /\ pc[w] = "reg"
  /\ RegisterSmsData(wSeq[w], wSms[w])
  /\ Goto(w, "state")
  /\ UNCHANGED <<campaignVars, queueVars, wSms, wSeq, wTry, seqVars,
                 pduRegister, sessionVars, netVars, logVars>>

-----------------------------------------------------------------------------
(* SendSubmitSm, called by SendOneSms and by the resend in OnReceivePdu.   *)

SubmitCheckState(w) ==
  /\ pc[w] = "state"
  /\ Goto(w, IF esmeState = "ST_BIND" THEN "regpdu" ELSE "idle")
  /\ UNCHANGED <<campaignVars, queueVars, wSms, wSeq, wTry, seqVars, mapVars,
                 sessionVars, netVars, logVars>>

SubmitRegisterPdu(w) ==
  /\ pc[w] = "regpdu"
  /\ RegisterPdu(wSeq[w])
  /\ Goto(w, "write")
  /\ UNCHANGED <<campaignVars, queueVars, wSms, wSeq, wTry, seqVars,
                 sendSmsMap, sessionVars, netVars, logVars>>

(* On a live connection the PDU reaches the SMSC; on a dead one write()    *)
(* either reports the error or loses the bytes without a word.             *)
SubmitWrite(w) ==
  /\ pc[w] = "write"
  /\ \/ /\ conn
        /\ atSmsc' = atSmsc \union
                       {[seq |-> wSeq[w], sms |-> wSms[w], try |-> wTry[w]]}
        /\ submits' = IF wSms[w] = NoSms THEN submits
                      ELSE [submits EXCEPT ![wSms[w]] = @ + 1]
        /\ UNCHANGED esmeState
     \/ /\ ~conn
        /\ esmeState' \in {esmeState, "ST_ERROR"}
        /\ UNCHANGED <<atSmsc, submits>>
  /\ Goto(w, "find")
  /\ UNCHANGED <<campaignVars, queueVars, wSms, wSeq, wTry, seqVars, mapVars,
                 isSendSms, conn, drops, rpc, inbound, updates, settled>>

(* DoDatabaseUpdate, case SubmitSm: find, then operator[]; the query it    *)
(* formats is logged and not queued.                                       *)
SubmitFindSms(w) ==
  /\ pc[w] = "find"
  /\ Goto(w, IF Registered(wSeq[w]) THEN "get" ELSE "idle")
  /\ UNCHANGED <<campaignVars, queueVars, wSms, wSeq, wTry, seqVars, mapVars,
                 sessionVars, netVars, logVars>>

SubmitGetSms(w) ==
  /\ pc[w] = "get"
  /\ LookupInserts(wSeq[w])
  /\ Goto(w, "idle")
  /\ UNCHANGED <<campaignVars, queueVars, wSms, wSeq, wTry, seqVars,
                 pduRegister, sessionVars, netVars, logVars>>

-----------------------------------------------------------------------------
(* OnReceivePdu on a worker, for a submit_sm_resp.                         *)

TakeRecvTask(w) ==
  /\ pc[w] = "idle" /\ recvTasks > 0
  /\ recvTasks' = recvTasks - 1
  /\ Goto(w, "rempty")
  /\ UNCHANGED <<campaignVars, sendQueue, receiveQueue, sendTasks, wSms, wSeq,
                 wTry, seqVars, mapVars, sessionVars, netVars, logVars>>

CheckReceiveQueue(w) ==
  /\ pc[w] = "rempty"
  /\ Goto(w, IF receiveQueue = << >> THEN "idle" ELSE "rpop")
  /\ UNCHANGED <<campaignVars, queueVars, wSms, wSeq, wTry, seqVars, mapVars,
                 sessionVars, netVars, logVars>>

(* Pop a frame and decode it: a bare header goes to the catch block. *)
PopPdu(w) ==
  /\ pc[w] = "rpop" /\ receiveQueue # << >>
  /\ LET p == Head(receiveQueue) IN
       /\ wSms' = [wSms EXCEPT ![w] = p.sms]
       /\ wSeq' = [wSeq EXCEPT ![w] = p.seq]
       /\ wTry' = [wTry EXCEPT ![w] = p.try]
       /\ Goto(w, IF p.kind = "full" THEN "unregpdu" ELSE "pause")
  /\ receiveQueue' = Tail(receiveQueue)
  /\ UNCHANGED <<campaignVars, sendQueue, sendTasks, recvTasks, seqVars,
                 mapVars, sessionVars, netVars, logVars>>

AnswerUnRegisterPdu(w) ==
  /\ pc[w] = "unregpdu"
  /\ UnRegisterPdu(wSeq[w])
  /\ Goto(w, "ufind")
  /\ UNCHANGED <<campaignVars, queueVars, wSms, wSeq, wTry, seqVars,
                 sendSmsMap, sessionVars, netVars, logVars>>

\* Bug: the SMS is looked for in the register the answer has just left.
BugFindInPduRegister(w) ==
  /\ pc[w] = "ufind"
  /\ Goto(w, IF wSeq[w] \in pduRegister THEN "uget" ELSE "unreg")
  /\ UNCHANGED <<campaignVars, queueVars, wSms, wSeq, wTry, seqVars, mapVars,
                 sessionVars, netVars, logVars>>


AnswerFindSms(w) ==
  /\ pc[w] = "ufind"
  /\ Goto(w, IF Registered(wSeq[w]) THEN "uget" ELSE "unreg")
  /\ UNCHANGED <<campaignVars, queueVars, wSms, wSeq, wTry, seqVars, mapVars,
                 sessionVars, netVars, logVars>>

(* operator[], then the query for that row goes to the update queue. *)
AnswerUpdate(w) ==
  /\ pc[w] = "uget"
  /\ updates' = updates \union
                  {[row |-> Lookup(wSeq[w]), answers |-> wSms[w]]}
  /\ LookupInserts(wSeq[w])
  /\ Goto(w, "unreg")
  /\ UNCHANGED <<campaignVars, queueVars, wSms, wSeq, wTry, seqVars,
                 pduRegister, sessionVars, netVars, submits, settled>>

AnswerUnRegisterSms(w) ==
  /\ pc[w] = "unreg"
  /\ UnRegisterSmsData(wSeq[w])
  /\ Goto(w, "resume")
  /\ UNCHANGED <<campaignVars, queueVars, wSms, wSeq, wTry, seqVars,
                 pduRegister, sessionVars, netVars, logVars>>

\* Bug: a decoded answer does not resume sending.
BugNoResume(w) ==
  /\ pc[w] = "resume"
  /\ settled' = settled \union {wSms[w]}
  /\ Goto(w, "idle")
  /\ UNCHANGED <<campaignVars, queueVars, wSms, wSeq, wTry, seqVars, mapVars,
                 sessionVars, netVars, updates, submits>>

AnswerResume(w) ==
  /\ pc[w] = "resume"
  /\ isSendSms' = TRUE
  /\ settled' = settled \union {wSms[w]}
  /\ Goto(w, "idle")
  /\ UNCHANGED <<campaignVars, queueVars, wSms, wSeq, wTry, seqVars, mapVars,
                 esmeState, netVars, updates, submits>>

(* The catch block: sending pauses and the SMS, if it is still filed, is   *)
(* taken out of sendSmsMap and submitted again under the same number.      *)
BarePause(w) ==
  /\ pc[w] = "pause"
  /\ isSendSms' = FALSE
  /\ Goto(w, "xfind")
  /\ UNCHANGED <<campaignVars, queueVars, wSms, wSeq, wTry, seqVars, mapVars,
                 esmeState, netVars, logVars>>


BareFindSms(w) ==
  /\ pc[w] = "xfind"
  /\ IF Registered(wSeq[w])
       THEN Goto(w, "xget") /\ UNCHANGED isSendSms
       ELSE Goto(w, "idle") /\ isSendSms' = TRUE
  /\ UNCHANGED <<campaignVars, queueVars, wSms, wSeq, wTry, seqVars, mapVars,
                 esmeState, netVars, logVars>>

BareGetSms(w) ==
  /\ pc[w] = "xget"
  /\ wSms' = [wSms EXCEPT ![w] = Lookup(wSeq[w])]
  /\ LookupInserts(wSeq[w])
  /\ Goto(w, "xunreg")
  /\ UNCHANGED <<campaignVars, queueVars, wSeq, wTry, seqVars, pduRegister,
                 sessionVars, netVars, logVars>>

\* Bug: the resend keeps the entry, as the build without the pool does.
BugResendKeepsSms(w) ==
  /\ pc[w] = "xunreg"
  /\ wTry' = [wTry EXCEPT ![w] = IF @ <= MaxBare THEN @ + 1 ELSE @]
  /\ Goto(w, "state")
  /\ UNCHANGED <<campaignVars, queueVars, wSms, wSeq, seqVars, mapVars,
                 sessionVars, netVars, logVars>>


BareUnRegisterSms(w) ==
  /\ pc[w] = "xunreg"
  /\ UnRegisterSmsData(wSeq[w])
  /\ wTry' = [wTry EXCEPT ![w] = IF @ <= MaxBare THEN @ + 1 ELSE @]
  /\ Goto(w, "state")
  /\ UNCHANGED <<campaignVars, queueVars, wSms, wSeq, seqVars, pduRegister,
                 sessionVars, netVars, logVars>>

-----------------------------------------------------------------------------
(* The SMSC (external) and the connection to it.                           *)

SmscAnswer ==
  /\ conn
  /\ \E m \in atSmsc, kind \in {"full", "bare"} :
       /\ kind = "bare" => m.try <= MaxBare
       /\ atSmsc' = atSmsc \ {m}
       /\ inbound' = inbound \union
            {[kind |-> kind, seq |-> m.seq, sms |-> m.sms, try |-> m.try]}
  /\ UNCHANGED <<campaignVars, queueVars, workerVars, seqVars, mapVars,
                 sessionVars, conn, drops, rpc, logVars>>

ConnectionLost ==
  /\ conn /\ drops < MaxDrops
  /\ conn' = FALSE /\ drops' = drops + 1
  /\ atSmsc' = {}
  /\ UNCHANGED <<campaignVars, queueVars, workerVars, seqVars, mapVars,
                 sessionVars, rpc, inbound, logVars>>

(* The reader thread: Esme::Read pushes each frame, then posts its task.   *)
ReadPush ==
  /\ rpc = "read" /\ esmeState \notin {"ST_ERROR", "ST_IDLE"}
  /\ \E p \in inbound :
       /\ receiveQueue' = Append(receiveQueue, p)
       /\ inbound' = inbound \ {p}
  /\ rpc' = "post"
  /\ UNCHANGED <<campaignVars, sendQueue, sendTasks, recvTasks, workerVars,
                 seqVars, mapVars, sessionVars, conn, drops, atSmsc, logVars>>

ReadPost ==
  /\ rpc = "post"
  /\ recvTasks' = recvTasks + 1
  /\ rpc' = "read"
  /\ UNCHANGED <<campaignVars, sendQueue, receiveQueue, sendTasks, workerVars,
                 seqVars, mapVars, sessionVars, conn, drops, atSmsc, inbound,
                 logVars>>

(* read() returns 0 or -1: what was not read is gone. *)
ReadEnd ==
  /\ rpc = "read" /\ ~conn /\ esmeState \notin {"ST_ERROR", "ST_IDLE"}
  /\ esmeState' = "ST_ERROR"
  /\ inbound' = {}
  /\ UNCHANGED <<campaignVars, queueVars, workerVars, seqVars, mapVars,
                 isSendSms, conn, drops, rpc, atSmsc, logVars>>

-----------------------------------------------------------------------------
(* The session, as far as this module needs it: the link thread stops a    *)
(* connection in ST_ERROR and starts one in ST_IDLE; the SMSC accepts.     *)

SessionStop ==
  /\ esmeState = "ST_ERROR"
  /\ isSendSms' = FALSE
  /\ esmeState' = "ST_IDLE"
  /\ conn' = FALSE /\ atSmsc' = {} /\ inbound' = {}
  /\ UNCHANGED <<campaignVars, queueVars, workerVars, seqVars, mapVars, drops,
                 rpc, logVars>>


SessionStart ==
  /\ esmeState = "ST_IDLE"
  /\ isSendSms' = TRUE
  /\ esmeState' = "ST_BIND_REQ"
  /\ conn' = TRUE
  /\ GetNewSequenceNumber
  /\ UNCHANGED <<campaignVars, queueVars, workerVars, mapVars, drops, rpc,
                 atSmsc, inbound, logVars>>

SessionBound ==
  /\ esmeState = "ST_BIND_REQ" /\ conn
  /\ esmeState' = "ST_BIND"
  /\ UNCHANGED <<campaignVars, queueVars, workerVars, seqVars, mapVars,
                 isSendSms, netVars, logVars>>

-----------------------------------------------------------------------------
Campaign(c) ==
  PassGate(c) \/ PauseQueueing(c) \/ SendSmsPush(c) \/ SendSmsPost(c)

SendOneSms(w) ==
  \/ CheckSendable(w) \/ EnqueueMissedEvent(w) \/ CheckSendQueue(w)
  \/ PopSms(w) \/ TakeSequenceNumber(w) \/ RegisterSms(w)

SendSubmitSm(w) ==
  \/ SubmitCheckState(w) \/ SubmitRegisterPdu(w) \/ SubmitWrite(w)
  \/ SubmitFindSms(w) \/ SubmitGetSms(w)

OnReceivePdu(w) ==
  \/ CheckReceiveQueue(w) \/ PopPdu(w) \/ AnswerUnRegisterPdu(w)
  \/ AnswerFindSms(w) \/ AnswerUpdate(w) \/ AnswerUnRegisterSms(w)
  \/ AnswerResume(w) \/ BarePause(w) \/ BareFindSms(w) \/ BareGetSms(w)
  \/ BareUnRegisterSms(w)

Worker(w) ==
  \/ TakeSendTask(w) \/ TakeRecvTask(w)
  \/ SendOneSms(w) \/ SendSubmitSm(w) \/ OnReceivePdu(w)

Reader == ReadPush \/ ReadPost \/ ReadEnd
Session == SessionStop \/ SessionStart \/ SessionBound

(* The one state in which the program has nothing to do: no row, no task,  *)
(* no frame, nothing unanswered, the session bound.                        *)
Finished ==
  /\ toSend = {} /\ \A c \in Campaigns : cpc[c] = "gate"
  /\ sendTasks = 0 /\ recvTasks = 0 /\ \A w \in Workers : pc[w] = "idle"
  /\ rpc = "read" /\ atSmsc = {} /\ inbound = {} /\ esmeState = "ST_BIND"
  /\ UNCHANGED vars

Next ==
  \/ \E c \in Campaigns : Campaign(c)
  \/ \E w \in Workers : Worker(w)
  \/ Reader \/ Session \/ SmscAnswer \/ ConnectionLost \/ Finished

Spec == Init /\ [][Next]_vars

(* Threads are scheduled, a pool task is taken in FIFO order (so none is   *)
(* passed over for ever), the SMSC answers and accepts a bind.  Losing the *)
(* connection is never forced.                                             *)
Fairness ==
  /\ \A c \in Campaigns : SF_vars(PassGate(c))
                          /\ WF_vars(SendSmsPush(c) \/ SendSmsPost(c))
  /\ \A w \in Workers :
       WF_vars(SendOneSms(w) \/ SendSubmitSm(w) \/ OnReceivePdu(w))
  /\ SF_vars(\E w \in Workers : TakeSendTask(w))
  /\ SF_vars(\E w \in Workers : TakeRecvTask(w))
  /\ WF_vars(Reader) /\ WF_vars(Session) /\ WF_vars(SmscAnswer)

FairSpec == Spec /\ Fairness

-----------------------------------------------------------------------------
(* PROPERTIES *)

RangeOf(q) == {q[i] : i \in 1 .. Len(q)}
Handling(w) == pc[w] \in {"unregpdu", "ufind", "uget"}

TypeOK ==
  /\ toSend \subseteq Sms
  /\ cpc \in [Campaigns -> {"gate", "push", "post"}]
  /\ cSms \in [Campaigns -> Data]
  /\ sendQueue \in Seq(Data) /\ receiveQueue \in Seq(Answer)
  /\ sendTasks \in Nat /\ recvTasks \in Nat
  /\ pc \in [Workers -> {"idle"} \union SendPcs \union SubmitPcs \union RecvPcs]
  /\ wSms \in [Workers -> Data]
  /\ wSeq \in [Workers -> Seqs]
  /\ wTry \in [Workers -> 1 .. MaxBare + 1]
  /\ nextSeq \in Seqs /\ wrapped \in BOOLEAN
  /\ DOMAIN sendSmsMap \subseteq Seqs
  /\ sendSmsMap \in [DOMAIN sendSmsMap -> Data]
  /\ pduRegister \subseteq Seqs
  /\ esmeState \in {"ST_IDLE", "ST_BIND_REQ", "ST_BIND", "ST_ERROR"}
  /\ isSendSms \in BOOLEAN
  /\ conn \in BOOLEAN /\ drops \in 0 .. MaxDrops
  /\ rpc \in {"read", "post"}
  /\ atSmsc \subseteq Submit /\ inbound \subseteq Answer
  /\ updates \subseteq [row : Data, answers : Data]
  /\ submits \in [Sms -> Nat] /\ settled \subseteq Data

(* Every SMS in sendQueue is matched by one SendOneSms task: posted, held  *)
(* by a worker that has not popped yet, or about to be posted by the       *)
(* campaign thread that pushed the SMS; likewise every frame in            *)
(* receiveQueue by one OnReceivePdu task.  The unlocked empty() test and   *)
(* the self re-posting of a paused task are what could break the count.    *)
SendHolders == {w \in Workers : pc[w] \in {"check", "empty", "pop"}}
RecvHolders == {w \in Workers : pc[w] \in {"rempty", "rpop"}}
Posting == {c \in Campaigns : cpc[c] = "post"}

OneTaskPerItem ==
  /\ Len(sendQueue) = sendTasks + Cardinality(SendHolders)
                                + Cardinality(Posting)
  /\ Len(receiveQueue) = recvTasks + Cardinality(RecvHolders)
                                   + (IF rpc = "post" THEN 1 ELSE 0)

(* front() and pop() after the unlocked empty() test (line 7 of either     *)
(* task) never meet an empty queue, however many workers passed the test.  *)
PopNeverEmpty ==
  \A w \in Workers : /\ pc[w] = "pop" => sendQueue # << >>
                     /\ pc[w] = "rpop" => receiveQueue # << >>

(* Both, for the tasks of either queue. *)
TasksMatchItems == OneTaskPerItem /\ PopNeverEmpty

(* The campaigns' gate is a check followed by a push: several threads can  *)
(* pass it together, so the queue may exceed SMS_CAMPAIGN_QUEUE_SIZE, by   *)
(* one SMS per campaign thread and no more.                                *)
SendQueueBounded == Len(sendQueue) <= QueueLimit + Cardinality(Campaigns)

(* Until the counter wraps, an answer to the first submit of a number      *)
(* finds that number's own SMS in sendSmsMap, wherever the answer is: at   *)
(* the SMSC, on the wire, queued, or in the hands of a worker.             *)
FirstAnswerFindsItsSms ==
  ~wrapped =>
    /\ \A p \in atSmsc \union inbound \union RangeOf(receiveQueue) :
         p.try = 1 => Registered(p.seq) /\ sendSmsMap[p.seq] = p.sms
    /\ \A w \in Workers : Handling(w) /\ wTry[w] = 1
         => Registered(wSeq[w]) /\ sendSmsMap[wSeq[w]] = wSms[w]

(* Until the counter wraps, no answer is booked on another SMS's row.  The *)
(* row may be blank: operator[] after an unlocked find makes a blank entry *)
(* when the answer's handler has erased the entry in between.              *)
NoForeignUpdate ==
  ~wrapped => \A u \in updates : u.row \in {u.answers, NoSms}

(* Answers are correlated with their SMS, from the SMSC to the update. *)
NeverMisattributed == FirstAnswerFindsItsSms /\ NoForeignUpdate

(* Until the counter wraps, an SMS is written to the SMSC at most twice,   *)
(* however often the SMSC answers it with a bare header.                   *)
AtMostOneResend == ~wrapped => \A s \in Sms : submits[s] <= 2

(* An SMS whose submit_sm_resp was decoded and fully processed has had its *)
(* update queued, unless it had to be resent: the resend erases its entry  *)
(* before it writes, and the answer to the resend finds nothing to update. *)
AcceptedIsRecorded ==
  ~wrapped => \A s \in settled \ {NoSms} :
    submits[s] = 1 => \E u \in updates : u.answers = s /\ u.row = s

(* Until the counter wraps, an SMS the SMSC has not been sent is waiting   *)
(* with a campaign thread, in sendQueue or with a worker that will write   *)
(* it; only when a connection was lost can it be with nobody, because      *)
(* SendSubmitSm drops what it may not send, and even then it is still      *)
(* filed in sendSmsMap.                                                    *)
HeldByCampaign(s) ==
  s \in toSend \/ \E c \in Campaigns : cpc[c] = "push" /\ cSms[c] = s
HeldByWorker(s) ==
  \E w \in Workers :
    wSms[w] = s /\ pc[w] \in {"seq", "reg", "state", "regpdu", "write"}
NoSmsForgotten ==
  ~wrapped => \A s \in Sms :
    \/ submits[s] > 0
    \/ HeldByCampaign(s) \/ HeldByWorker(s) \/ s \in RangeOf(sendQueue)
    \/ drops > 0 /\ s \in {sendSmsMap[seq] : seq \in DOMAIN sendSmsMap}

(* "DO NOT SUBMIT MORE WAIT FOR SOME TIME": a pause of sending ends.  It   *)
(* fails when a bare answer is processed after Start has set m_isSendSms   *)
(* and before the new bind is answered: the resend that would bring the    *)
(* next answer is given up.  A worker that passed the state check before   *)
(* the connection was lost causes it, by writing its submit on the new one.*)
PauseIsTemporary == ~isSendSms ~> isSendSms

(* Every SMS is written to the SMSC, if the connection is never lost.      *)
EverySmsSubmitted == <>(\A s \in Sms : submits[s] > 0)
=============================================================================
