----------------------- MODULE SmsCorrelation_proofs ------------------------
(***************************************************************************)
(* Theorems about the path of one SMS through SmsPipeline, for any number  *)
(* of rows, campaign threads and workers, any number of lost connections   *)
(* and any number of bare answers: an answer finds its own SMS, an SMS is  *)
(* resent at most once, an accepted SMS has its update, none is forgotten. *)
(*                                                                         *)
(* The code takes no lock around the sequence "look up, use, erase", so    *)
(* what keeps these true is ownership.  A row is with one campaign thread, *)
(* one place of sendQueue or one worker; a number is with one worker or in *)
(* one frame.  Hence the entry of a number is only erased by the worker    *)
(* that holds the number, and all the other workers that look at it (the   *)
(* find and operator[] of DoDatabaseUpdate after a submit) insert a blank  *)
(* where nothing is counted on any more.  All of it ends when the counter  *)
(* wraps and a number is given out twice; the invariant says nothing then. *)
(***************************************************************************)
EXTENDS SmsPipeline_proofs

-----------------------------------------------------------------------------
(* Where an SMS and a number are. *)

AnswerPcs == {"unregpdu", "ufind", "uget", "unreg", "resume",
              "pause", "xfind", "xget", "xunreg"}
SubmitOrReg == {"reg", "state", "regpdu", "write"}
HasNumber(w) == pc[w] \in SubmitOrReg \union AnswerPcs
HasSms(w) == pc[w] = "seq" \/ HasNumber(w)
Pushes(c) == cpc[c] = "push"
Flying == atSmsc \union inbound
Queued == 1 .. Len(sendQueue)
Read == 1 .. Len(receiveQueue)

(* A row that has no number yet is with toSend, with one campaign thread,  *)
(* once in sendQueue, or with one worker; an SMS on a worker is nowhere    *)
(* else of these.                                                          *)
RowsApart ==
  /\ \A c \in Campaigns : Pushes(c) => cSms[c] \in Sms \ toSend
  /\ \A c, d \in Campaigns :
       Pushes(c) /\ Pushes(d) /\ cSms[c] = cSms[d] => c = d
  /\ \A i \in Queued :
       /\ sendQueue[i] \in Sms \ toSend
       /\ \A c \in Campaigns : Pushes(c) => cSms[c] # sendQueue[i]
       /\ \A j \in Queued : sendQueue[i] = sendQueue[j] => i = j
  /\ \A w \in Workers : HasSms(w) =>
       /\ wSms[w] \notin toSend
       /\ \A c \in Campaigns : Pushes(c) => cSms[c] # wSms[w]
       /\ \A i \in Queued : sendQueue[i] # wSms[w]
  /\ \A w \in Workers : pc[w] = "seq" => wSms[w] \in Sms
  /\ \A v, w \in Workers : HasSms(v) /\ HasSms(w) /\ wSms[v] = wSms[w]
                           /\ wSms[v] # NoSms => v = w

(* SMS s under number q and SMS t under number r have one of them in       *)
(* common; blanks are no SMS.                                              *)
Alike(s, q, t, r) == q = r \/ (s = t /\ s # NoSms)

(* A parcel is a number with its SMS: in a worker's hands, on the way to   *)
(* the SMSC or back, or in receiveQueue, and no two of them are alike.     *)
ParcelsApart ==
  /\ \A v, w \in Workers :
       HasNumber(v) /\ HasNumber(w) /\ wSeq[v] = wSeq[w] => v = w
  /\ \A w \in Workers : HasNumber(w) =>
       /\ \A p \in Flying : ~Alike(wSms[w], wSeq[w], p.sms, p.seq)
       /\ \A i \in Read :
            ~Alike(wSms[w], wSeq[w], receiveQueue[i].sms, receiveQueue[i].seq)
  /\ \A p, r \in Flying : Alike(p.sms, p.seq, r.sms, r.seq) => p = r
  /\ \A p \in Flying, i \in Read :
       ~Alike(p.sms, p.seq, receiveQueue[i].sms, receiveQueue[i].seq)
  /\ \A i, j \in Read :
       Alike(receiveQueue[i].sms, receiveQueue[i].seq,
             receiveQueue[j].sms, receiveQueue[j].seq) => i = j

(* SMS s on try t has been written n times; a blank has no account, and    *)
(* only a resend can carry one.                                            *)
Written(s, t, n) == /\ t = 1 => s \in Sms
                    /\ s \in Sms => t <= 2 /\ submits[s] = n

(* What a worker has in hand was written as often as its try and its place *)
(* in the code say: not yet on this try before the write, once more after. *)
(* What a second bare answer resends is a blank: its SMS had left the map  *)
(* before the worker came to "xget".                                       *)
AccountFits(w) ==
  /\ pc[w] = "seq" => submits[wSms[w]] = 0
  /\ pc[w] \in SubmitOrReg => Written(wSms[w], wTry[w], wTry[w] - 1)
  /\ pc[w] \in AnswerPcs => Written(wSms[w], wTry[w], wTry[w])
  /\ pc[w] \in {"pause", "xfind", "xget", "xunreg"} => wTry[w] <= MaxBare
  /\ pc[w] = "xunreg" => wTry[w] = 1 \/ wSms[w] = NoSms
Accounts ==
  /\ \A s \in toSend : submits[s] = 0
  /\ \A c \in Campaigns : Pushes(c) => submits[cSms[c]] = 0
  /\ \A i \in Queued : submits[sendQueue[i]] = 0
  /\ \A w \in Workers : AccountFits(w)
  /\ \A p \in Flying : Written(p.sms, p.try, p.try)
  /\ \A i \in Read : Written(receiveQueue[i].sms, receiveQueue[i].try,
                             receiveQueue[i].try)
  /\ \A p \in inbound : p.kind = "bare" => p.try <= MaxBare
  /\ \A i \in Read :
       receiveQueue[i].kind = "bare" => receiveQueue[i].try <= MaxBare
  /\ \A s \in Sms : submits[s] <= 2

(* The entry of number q while it belongs to SMS s on try t: the SMS is    *)
(* there until it is resent, and after that only a blank can be.           *)
EntryIs(q, s, t) ==
  IF t = 1 THEN Registered(q) /\ sendSmsMap[q] = s
           ELSE Registered(q) => sendSmsMap[q] = NoSms

(* A worker's number was given out, is not in the map before "reg", and    *)
(* has the entry of its SMS from there to the erasure.  A number that has  *)
(* yet to be registered is in no worker's "find" and "get": the worker     *)
(* there could only have got it by writing it.                             *)
FiledFor(w) ==
  /\ HasNumber(w) \/ pc[w] \in {"find", "get"} => wSeq[w] < nextSeq
  /\ pc[w] = "reg" => /\ wTry[w] = 1 /\ ~Registered(wSeq[w])
                      /\ \A v \in Workers : pc[v] \in {"find", "get"} =>
                           wSeq[v] # wSeq[w]
  /\ HasNumber(w) /\ pc[w] \notin {"reg", "resume"} =>
       EntryIs(wSeq[w], wSms[w], wTry[w])
FramesFiled ==
  /\ \A p \in Flying : p.seq < nextSeq /\ EntryIs(p.seq, p.sms, p.try)
  /\ \A i \in Read : /\ receiveQueue[i].seq < nextSeq
                     /\ EntryIs(receiveQueue[i].seq, receiveQueue[i].sms,
                                receiveQueue[i].try)
Filed ==
  /\ FramesFiled
  /\ \A q \in DOMAIN sendSmsMap : q < nextSeq
  /\ \A w \in Workers : FiledFor(w)

(* Every update books an answer on its own row or on a blank, and an SMS   *)
(* whose first answer has come past the update is recorded.                *)
Recorded(s) == \E u \in updates : u.answers = s /\ u.row = s
Logged ==
  /\ \A u \in updates : u.row \in {u.answers, NoSms}
  /\ \A w \in Workers : pc[w] \in {"unreg", "resume"} /\ wTry[w] = 1
                        => Recorded(wSms[w])
  /\ \A s \in settled \ {NoSms} :
       submits[s] >= 1 /\ (submits[s] = 1 => Recorded(s))

(* Nothing but a lost connection ends a session that was bound. *)
DownOnlyAfterDrop == ~conn \/ esmeState # "ST_BIND" => drops > 0

(* The inductive invariant. *)
Traces == RowsApart /\ ParcelsApart /\ Accounts /\ Filed /\ Logged
Traced == ~wrapped => Traces

-----------------------------------------------------------------------------
(* Small facts. *)

LEMMA GotoMoves ==
  ASSUME TypeOK, NEW w \in Workers, NEW label, Goto(w, label)
  PROVE  /\ pc'[w] = label
         /\ \A v \in Workers : v # w => pc'[v] = pc[v]
BY DEF TypeOK, Goto

(* Until it wraps, the counter goes up by one. *)
LEMMA NumbersGrow ==
  ASSUME TypeOK, GetNewSequenceNumber, ~wrapped'
  PROVE  ~wrapped /\ nextSeq' = nextSeq + 1
BY DEF TypeOK, GetNewSequenceNumber

LEMMA RowsStay ==
  ASSUME TypeOK, RowsApart, UNCHANGED <<toSend, cpc, cSms, sendQueue>>,
         \A w \in Workers :
           /\ HasSms(w)' => HasSms(w) /\ wSms'[w] \in {wSms[w], NoSms}
           /\ pc'[w] = "seq" => pc[w] = "seq" /\ wSms'[w] = wSms[w]
  PROVE  RowsApart'
BY ConstantsAssumption, SMTT(30) DEF TypeOK, RowsApart, Pushes, Queued, HasSms, HasNumber

LEMMA PassGateRows ==
  ASSUME TypeOK, Traces, NEW c \in Campaigns, PassGate(c)
  PROVE  RowsApart'
BY DEF TypeOK, Traces, RowsApart, PassGate, Pushes, Queued, HasSms, HasNumber,
   queueVars, workerVars

LEMMA PushRows ==
  ASSUME TypeOK, Traces, NEW c \in Campaigns, SendSmsPush(c)
  PROVE  RowsApart'
<1>1. /\ Len(sendQueue') = Len(sendQueue) + 1 /\ Len(sendQueue) \in Nat
      /\ sendQueue'[Len(sendQueue) + 1] = cSms[c]
      /\ \A i \in Queued : sendQueue'[i] = sendQueue[i]
  BY AppendProperties DEF TypeOK, SendSmsPush, Queued
<1>2. Queued' = Queued \union {Len(sendQueue) + 1}
  BY <1>1 DEF Queued
<1>3. /\ ~Pushes(c)' /\ Pushes(c) /\ UNCHANGED <<toSend, cSms, pc, wSms>>
      /\ \A d \in Campaigns : d # c => (Pushes(d)' <=> Pushes(d))
  BY DEF TypeOK, SendSmsPush, Pushes, workerVars
<1> QED BY <1>1, <1>2, <1>3 DEF Traces, RowsApart, Pushes, HasSms, HasNumber

LEMMA PopSmsRows ==
  ASSUME TypeOK, Traces, NEW w \in Workers, PopSms(w)
  PROVE  RowsApart'
<1>1. /\ Len(sendQueue') = Len(sendQueue) - 1 /\ Len(sendQueue) \in Nat \ {0}
      /\ \A i \in Queued' : i + 1 \in Queued /\ i + 1 # 1
                            /\ sendQueue'[i] = sendQueue[i + 1]
      /\ 1 \in Queued /\ wSms' = [wSms EXCEPT ![w] = sendQueue[1]]
  BY HeadTailProperties, EmptySeq DEF TypeOK, PopSms, Queued
<1>2. UNCHANGED <<toSend, cpc, cSms>>
  BY DEF PopSms, campaignVars
<1>3. pc'[w] = "seq" /\ \A v \in Workers : v # w => pc'[v] = pc[v]
  BY GotoMoves DEF PopSms
<1>4. wSms'[w] = sendQueue[1] /\ \A v \in Workers : v # w => wSms'[v] = wSms[v]
  BY <1>1 DEF TypeOK
<1>5. \A i, j \in Queued' : i + 1 = j + 1 => i = j
  BY DEF Queued
<1>6. ASSUME NEW i \in Queued'
      PROVE  /\ sendQueue'[i] \in Sms \ toSend'
             /\ \A c \in Campaigns : Pushes(c)' => cSms'[c] # sendQueue'[i]
             /\ \A j \in Queued' : sendQueue'[i] = sendQueue'[j] => i = j
  BY <1>1, <1>2, <1>5 DEF Traces, RowsApart, Pushes
<1>7. ASSUME NEW v \in Workers, HasSms(v)'
      PROVE  /\ wSms'[v] \notin toSend'
             /\ \A c \in Campaigns : Pushes(c)' => cSms'[c] # wSms'[v]
             /\ \A i \in Queued' : sendQueue'[i] # wSms'[v]
             /\ pc'[v] = "seq" => wSms'[v] \in Sms
             /\ v # w => wSms'[v] # wSms'[w]
  BY <1>1, <1>2, <1>3, <1>4, <1>7 DEF Traces, RowsApart, Pushes, HasSms,
     HasNumber
<1>8. ASSUME NEW u \in Workers, NEW v \in Workers, HasSms(u)', HasSms(v)',
             wSms'[u] = wSms'[v], wSms'[u] # NoSms
      PROVE  u = v
  BY <1>3, <1>4, <1>7, <1>8 DEF Traces, RowsApart, HasSms, HasNumber
<1>9. \A v \in Workers : pc'[v] = "seq" => wSms'[v] \in Sms
  BY <1>7 DEF HasSms
<1> QED BY <1>2, <1>6, <1>7, <1>8, <1>9 DEF Traces, RowsApart, Pushes

(* The frame a worker pops, and those it leaves. *)
LEMMA FramePopped ==
  ASSUME TypeOK, NEW w \in Workers, PopPdu(w)
  PROVE  /\ 1 \in Read /\ receiveQueue[1] \in Answer
         /\ \A i \in Read : receiveQueue[i] \in Answer
         /\ \A i \in Read' : i + 1 \in Read /\ i \in Nat \ {0}
                            /\ receiveQueue'[i] = receiveQueue[i + 1]
         /\ pc'[w] = IF receiveQueue[1].kind = "full" THEN "unregpdu"
                                                      ELSE "pause"
         /\ wSms'[w] = receiveQueue[1].sms /\ wSeq'[w] = receiveQueue[1].seq
         /\ wTry'[w] = receiveQueue[1].try
         /\ \A v \in Workers : v # w => /\ pc'[v] = pc[v] /\ wSms'[v] = wSms[v]
                                       /\ wSeq'[v] = wSeq[v]
                                       /\ wTry'[v] = wTry[v]
<1>1. /\ receiveQueue # << >> /\ receiveQueue' = Tail(receiveQueue)
      /\ wSms' = [wSms EXCEPT ![w] = Head(receiveQueue).sms]
      /\ wSeq' = [wSeq EXCEPT ![w] = Head(receiveQueue).seq]
      /\ wTry' = [wTry EXCEPT ![w] = Head(receiveQueue).try]
      /\ Goto(w, IF Head(receiveQueue).kind = "full" THEN "unregpdu"
                                                     ELSE "pause")
      /\ receiveQueue \in Seq(Answer)
  BY DEF PopPdu, TypeOK
<1>2. /\ Head(receiveQueue) = receiveQueue[1]
      /\ Len(receiveQueue') = Len(receiveQueue) - 1
      /\ Len(receiveQueue) \in Nat \ {0}
      /\ \A i \in 1 .. Len(receiveQueue') :
           receiveQueue'[i] = receiveQueue[i + 1]
  BY <1>1, HeadTailProperties, EmptySeq
<1>3. \A i \in Read : receiveQueue[i] \in Answer
  BY <1>1 DEF Read
<1> QED BY <1>1, <1>2, <1>3, GotoMoves DEF Read, TypeOK

LEMMA PopPduRows ==
  ASSUME TypeOK, Traces, NEW w \in Workers, PopPdu(w)
  PROVE  RowsApart'
<1> DEFINE p == receiveQueue[1]
<1>1. /\ 1 \in Read /\ p \in Answer /\ wSms'[w] = p.sms
      /\ HasNumber(w)' /\ pc'[w] # "seq"
      /\ \A v \in Workers : v # w => pc'[v] = pc[v] /\ wSms'[v] = wSms[v]
  BY FramePopped DEF HasNumber, AnswerPcs
<1>2. UNCHANGED <<toSend, cpc, cSms, sendQueue>>
  BY DEF PopPdu, campaignVars
<1>3. p.sms \in Sms => submits[p.sms] >= 1
  BY <1>1 DEF Traces, Accounts, AccountFits, Written, Answer
<1>4. p.sms \in Data /\ NoSms \notin toSend /\ NoSms \notin Sms
  BY <1>1, ConstantsAssumption DEF Answer, TypeOK
<1> HIDE DEF p
<1>5. /\ p.sms \notin toSend
      /\ \A c \in Campaigns : Pushes(c) => cSms[c] # p.sms
      /\ \A i \in Queued : sendQueue[i] # p.sms
      /\ \A v \in Workers : pc[v] = "seq" => wSms[v] # p.sms
  BY <1>3, <1>4 DEF Traces, RowsApart, Accounts, AccountFits, Data, TypeOK
<1>6. \A v \in Workers : HasNumber(v) /\ p.sms # NoSms => wSms[v] # p.sms
  BY <1>1 DEF Traces, ParcelsApart, Alike, p
<1>7. ASSUME NEW v \in Workers, HasSms(v)'
      PROVE  /\ wSms'[v] \notin toSend'
             /\ \A c \in Campaigns : Pushes(c)' => cSms'[c] # wSms'[v]
             /\ \A i \in Queued' : sendQueue'[i] # wSms'[v]
             /\ pc'[v] = "seq" => wSms'[v] \in Sms
             /\ v # w /\ wSms'[w] # NoSms => wSms'[v] # wSms'[w]
  BY <1>1, <1>2, <1>5, <1>6, <1>7 DEF Traces, RowsApart, Pushes, Queued,
     HasSms, HasNumber
<1>8. ASSUME NEW u \in Workers, NEW v \in Workers, HasSms(u)', HasSms(v)',
             wSms'[u] = wSms'[v], wSms'[u] # NoSms
      PROVE  u = v
  BY <1>1, <1>7, <1>8 DEF Traces, RowsApart, HasSms, HasNumber
<1>9. \A v \in Workers : pc'[v] = "seq" => wSms'[v] \in Sms
  BY <1>7 DEF HasSms
<1> QED BY <1>2, <1>7, <1>8, <1>9 DEF Traces, RowsApart, Pushes, Queued

(* What a resend takes out of the map is the SMS it answers, or a blank. *)
LEMMA ResendsItsSms ==
  ASSUME TypeOK, Traces, NEW w \in Workers, BareGetSms(w)
  PROVE  /\ wSms'[w] \in {wSms[w], NoSms}
         /\ wTry[w] # 1 => wSms'[w] = NoSms
         /\ \A v \in Workers : v # w => wSms'[v] = wSms[v]
<1>1. pc[w] = "xget" /\ wSms' = [wSms EXCEPT ![w] = Lookup(wSeq[w])]
  BY DEF BareGetSms
<1>2. EntryIs(wSeq[w], wSms[w], wTry[w])
  BY <1>1 DEF Traces, Filed, FiledFor, FramesFiled, HasNumber, AnswerPcs
<1> QED BY <1>1, <1>2 DEF EntryIs, Lookup, TypeOK

LEMMA StepKeepsRows ==
  ASSUME TypeOK, Traces, [Next]_vars
  PROVE  RowsApart'
<1>1. RowsApart
  BY DEF Traces
<1>2. ASSUME NEW c \in Campaigns, Campaign(c) PROVE RowsApart'
  <2>1. CASE SendSmsPost(c) \/ PauseQueueing(c)
    <3>1. /\ UNCHANGED <<toSend, cSms, sendQueue, pc, wSms>>
          /\ \A d \in Campaigns : Pushes(d)' => Pushes(d)
      BY <2>1 DEF SendSmsPost, PauseQueueing, TypeOK, Pushes, vars,
         campaignVars, queueVars, workerVars
    <3> QED BY <1>1, <3>1 DEF RowsApart, Queued, HasSms, HasNumber
  <2> QED BY <1>2, <2>1, PassGateRows, PushRows DEF Campaign
<1>3. ASSUME NEW w \in Workers, Worker(w) PROVE RowsApart'
  <2> USE DEF HasSms, HasNumber, SubmitOrReg, AnswerPcs, campaignVars,
        queueVars
  <2>1. CASE \/ TakeSendTask(w) \/ TakeRecvTask(w) \/ CheckSendable(w)
             \/ EnqueueMissedEvent(w) \/ CheckSendQueue(w)
             \/ TakeSequenceNumber(w) \/ RegisterSms(w)
    <3>1. /\ UNCHANGED <<toSend, cpc, cSms, sendQueue, wSms>>
          /\ \A v \in Workers : HasSms(v)' => HasSms(v)
          /\ \A v \in Workers : pc'[v] = "seq" => pc[v] = "seq"
      BY <2>1 DEF TakeSendTask, TakeRecvTask, CheckSendable, TypeOK, Goto,
         EnqueueMissedEvent, CheckSendQueue, TakeSequenceNumber, RegisterSms
    <3> QED BY <1>1, <3>1, RowsStay
  <2>2. CASE SendSubmitSm(w)
    <3>1. /\ UNCHANGED <<toSend, cpc, cSms, sendQueue, wSms>>
          /\ \A v \in Workers : HasSms(v)' => HasSms(v)
          /\ \A v \in Workers : pc'[v] = "seq" => pc[v] = "seq"
      BY <2>2 DEF SendSubmitSm, SubmitCheckState, SubmitRegisterPdu, Goto,
         SubmitWrite, SubmitFindSms, SubmitGetSms, TypeOK
    <3> QED BY <1>1, <3>1, RowsStay
  <2>3. CASE \/ CheckReceiveQueue(w) \/ AnswerUnRegisterPdu(w)
             \/ AnswerFindSms(w) \/ AnswerUpdate(w) \/ AnswerUnRegisterSms(w)
             \/ AnswerResume(w) \/ BarePause(w) \/ BareFindSms(w)
             \/ BareUnRegisterSms(w)
    <3>1. /\ UNCHANGED <<toSend, cpc, cSms, sendQueue, wSms>>
          /\ \A v \in Workers : HasSms(v)' => HasSms(v)
          /\ \A v \in Workers : pc'[v] = "seq" => pc[v] = "seq"
      BY <2>3 DEF CheckReceiveQueue, AnswerUnRegisterPdu, AnswerFindSms, Goto,
         AnswerUpdate, AnswerUnRegisterSms, AnswerResume, BarePause,
         BareFindSms, BareUnRegisterSms, TypeOK
    <3> QED BY <1>1, <3>1, RowsStay
  <2>4. CASE BareGetSms(w)
    <3>1. UNCHANGED <<toSend, cpc, cSms, sendQueue>>
      BY <2>4 DEF BareGetSms
    <3>2. \A v \in Workers : /\ HasSms(v)' => HasSms(v)
                             /\ pc'[v] = "seq" => pc[v] = "seq" /\ v # w
      BY <2>4 DEF BareGetSms, TypeOK, Goto
    <3>3. \A v \in Workers : wSms'[v] \in {wSms[v], NoSms}
                             /\ (v # w => wSms'[v] = wSms[v])
      BY <2>4, ResendsItsSms
    <3> HIDE DEF HasSms
    <3> QED BY <1>1, <3>1, <3>2, <3>3, RowsStay
  <2> QED
    BY <1>3, <2>1, <2>2, <2>3, <2>4, PopSmsRows, PopPduRows
       DEF Worker, SendOneSms, OnReceivePdu
<1>4. CASE Reader \/ Session \/ SmscAnswer \/ ConnectionLost
           \/ Finished \/ UNCHANGED vars
  <2>1. UNCHANGED <<toSend, cpc, cSms, sendQueue, pc, wSms>>
    BY <1>4 DEF Reader, ReadPush, ReadPost, ReadEnd, Session, SessionStop,
       SessionStart, SessionBound, SmscAnswer, ConnectionLost, Finished, vars,
       campaignVars, queueVars, workerVars
  <2> QED BY <1>1, <2>1 DEF RowsApart, Pushes, Queued, HasSms, HasNumber
<1> QED BY <1>2, <1>3, <1>4 DEF Next

-----------------------------------------------------------------------------
(* Numbers and SMS under way stay apart. *)

LEMMA ParcelsStay ==
  ASSUME ParcelsApart, UNCHANGED receiveQueue, Flying' \subseteq Flying,
         \A w \in Workers : HasNumber(w)' =>
           HasNumber(w) /\ wSeq'[w] = wSeq[w] /\ wSms'[w] \in {wSms[w], NoSms}
  PROVE  ParcelsApart'
<1>1. \A w \in Workers : HasNumber(w)' => \A p \in Flying' :
        ~Alike(wSms'[w], wSeq'[w], p.sms, p.seq)
  BY DEF ParcelsApart, Alike
<1>2. \A w \in Workers : HasNumber(w)' => \A i \in Read' :
        ~Alike(wSms'[w], wSeq'[w], receiveQueue'[i].sms, receiveQueue'[i].seq)
  BY DEF ParcelsApart, Alike, Read
<1> QED BY <1>1, <1>2 DEF ParcelsApart, Read

(* A new number: nobody has it, and nobody else has the SMS. *)
LEMMA NumberParcels ==
  ASSUME TypeOK, Traces, NEW w \in Workers, TakeSequenceNumber(w), ~wrapped'
  PROVE  ParcelsApart'
<1>1. /\ UNCHANGED <<receiveQueue, atSmsc, inbound, wSms>> /\ pc[w] = "seq"
      /\ wSeq'[w] = nextSeq /\ pc'[w] = "reg"
      /\ \A v \in Workers : v # w => pc'[v] = pc[v] /\ wSeq'[v] = wSeq[v]
  BY DEF TakeSequenceNumber, TypeOK, Goto, queueVars, netVars
<1>2. wSms[w] \in Sms /\ submits[wSms[w]] = 0 /\ nextSeq \in Nat
  BY <1>1 DEF Traces, RowsApart, Accounts, AccountFits, TypeOK, Seqs
<1>3. ASSUME NEW p \in Flying PROVE ~Alike(wSms[w], nextSeq, p.sms, p.seq)
  <2>1. p.sms # wSms[w] /\ p.seq < nextSeq /\ p.seq \in Nat
    BY <1>2, <1>3 DEF Traces, Accounts, AccountFits, Written, Filed, FiledFor,
       FramesFiled, TypeOK, Flying, Submit,
       Answer, Seqs
  <2> QED BY <1>2, <2>1 DEF Alike
<1>4. ASSUME NEW i \in Read
      PROVE  ~Alike(wSms[w], nextSeq, receiveQueue[i].sms, receiveQueue[i].seq)
  <2>1. receiveQueue[i] \in Answer
    BY DEF Read, TypeOK
  <2>2. receiveQueue[i].sms # wSms[w] /\ receiveQueue[i].seq < nextSeq
        /\ receiveQueue[i].seq \in Nat
    BY <1>2, <2>1 DEF Traces, Accounts, AccountFits, Written, Filed, FiledFor,
       FramesFiled, Answer, Seqs
  <2> QED BY <1>2, <2>2 DEF Alike
<1>5. ASSUME NEW v \in Workers, HasNumber(v) PROVE wSeq[v] # nextSeq
  <2>1. wSeq[v] < nextSeq /\ wSeq[v] \in Nat
    BY <1>5 DEF Traces, Filed, FiledFor, FramesFiled, TypeOK, Seqs
  <2> QED BY <2>1, <1>2
<1>6. /\ Flying' = Flying /\ Read' = Read /\ receiveQueue' = receiveQueue
      /\ \A v \in Workers : v # w => (HasNumber(v)' <=> HasNumber(v))
  BY <1>1 DEF Flying, Read, HasNumber
<1>7. \A u, v \in Workers : HasNumber(u)' /\ HasNumber(v)'
                            /\ wSeq'[u] = wSeq'[v] => u = v
  BY <1>1, <1>5, <1>6 DEF Traces, ParcelsApart
<1>8. \A v \in Workers : HasNumber(v)' =>
        /\ \A p \in Flying : ~Alike(wSms'[v], wSeq'[v], p.sms, p.seq)
        /\ \A i \in Read : ~Alike(wSms'[v], wSeq'[v],
                                  receiveQueue[i].sms, receiveQueue[i].seq)
  BY <1>1, <1>3, <1>4, <1>6 DEF Traces, ParcelsApart
<1> QED BY <1>6, <1>7, <1>8 DEF Traces, ParcelsApart

(* What a write puts on the way is what its worker had. *)
LEMMA WriteParcels ==
  ASSUME TypeOK, Traces, NEW w \in Workers, SubmitWrite(w)
  PROVE  ParcelsApart'
<1> DEFINE m == [seq |-> wSeq[w], sms |-> wSms[w], try |-> wTry[w]]
<1>1. /\ UNCHANGED <<receiveQueue, inbound, wSms, wSeq>> /\ pc[w] = "write"
      /\ pc'[w] = "find" /\ \A v \in Workers : v # w => pc'[v] = pc[v]
      /\ atSmsc' \subseteq atSmsc \union {m}
  BY DEF SubmitWrite, TypeOK, Goto, queueVars
<1>2. m.sms = wSms[w] /\ m.seq = wSeq[w]
  OBVIOUS
<1> HIDE DEF m
<1>3. /\ Flying' \subseteq Flying \union {m} /\ Read' = Read
      /\ ~HasNumber(w)' /\ HasNumber(w) /\ HasSms(w)
      /\ \A v \in Workers : HasNumber(v)' => HasNumber(v) /\ HasSms(v) /\ v # w
  BY <1>1 DEF Flying, Read, HasNumber, HasSms, SubmitOrReg, AnswerPcs
<1>4. \A v \in Workers : HasNumber(v)'
        => ~Alike(wSms[v], wSeq[v], m.sms, m.seq)
  BY <1>2, <1>3 DEF Traces, ParcelsApart, RowsApart, Alike
<1>5. /\ \A p \in Flying : ~Alike(m.sms, m.seq, p.sms, p.seq)
                           /\ ~Alike(p.sms, p.seq, m.sms, m.seq)
      /\ \A i \in Read :
           ~Alike(m.sms, m.seq, receiveQueue[i].sms, receiveQueue[i].seq)
  BY <1>2, <1>3 DEF Traces, ParcelsApart, Alike
<1> HIDE DEF Alike
<1> QED BY <1>1, <1>3, <1>4, <1>5 DEF Traces, ParcelsApart

LEMMA AnswerParcels ==
  ASSUME TypeOK, Traces, SmscAnswer
  PROVE  ParcelsApart'
<1>1. PICK m \in atSmsc, kind \in {"full", "bare"} :
        /\ atSmsc' = atSmsc \ {m}
        /\ inbound' = inbound \union
             {[kind |-> kind, seq |-> m.seq, sms |-> m.sms, try |-> m.try]}
  BY DEF SmscAnswer
<1> DEFINE r == [kind |-> kind, seq |-> m.seq, sms |-> m.sms, try |-> m.try]
<1>2. r.seq = m.seq /\ r.sms = m.sms
  OBVIOUS
<1>3. m \notin inbound
  <2>1. m \in Submit /\ inbound \subseteq Answer
    BY DEF TypeOK
  <2>2. SUFFICES ASSUME m \in Answer PROVE FALSE
    BY <2>1
  <2>3. DOMAIN m = {"seq", "sms", "try"}
    BY <2>1 DEF Submit
  <2>4. DOMAIN m = {"kind", "seq", "sms", "try"}
    BY <2>2 DEF Answer
  <2>5. "kind" \in DOMAIN m
    BY <2>4
  <2>6. "kind" \notin {"seq", "sms", "try"}
    OBVIOUS
  <2> QED BY <2>3, <2>5, <2>6
<1> HIDE DEF r
<1>4. /\ UNCHANGED <<receiveQueue, pc, wSms, wSeq>>
      /\ Flying' \subseteq (Flying \ {m}) \union {r} /\ m \in Flying
  BY <1>1, <1>3 DEF SmscAnswer, queueVars, workerVars, Flying, r
<1>5. /\ \A p \in Flying \ {m} : ~Alike(r.sms, r.seq, p.sms, p.seq)
                                 /\ ~Alike(p.sms, p.seq, r.sms, r.seq)
      /\ \A i \in Read :
           ~Alike(r.sms, r.seq, receiveQueue[i].sms, receiveQueue[i].seq)
      /\ \A w \in Workers : HasNumber(w)
           => ~Alike(wSms[w], wSeq[w], r.sms, r.seq)
  BY <1>2, <1>4 DEF Traces, ParcelsApart, Alike
<1> QED BY <1>4, <1>5 DEF Traces, ParcelsApart, Read, HasNumber

LEMMA ReadParcels ==
  ASSUME TypeOK, Traces, ReadPush
  PROVE  ParcelsApart'
<1>1. PICK p \in inbound : /\ receiveQueue' = Append(receiveQueue, p)
                           /\ inbound' = inbound \ {p}
  BY DEF ReadPush
<1>2. /\ Read' = Read \union {Len(receiveQueue) + 1}
      /\ receiveQueue'[Len(receiveQueue) + 1] = p
      /\ \A i \in Read : receiveQueue'[i] = receiveQueue[i]
  <2>1. receiveQueue \in Seq(Answer) /\ p \in Answer
    BY DEF TypeOK
  <2> QED BY <1>1, <2>1, AppendProperties DEF Read
<1>3. p \notin atSmsc
  <2>1. atSmsc \subseteq Submit /\ p \in Answer
    BY DEF TypeOK
  <2>2. SUFFICES ASSUME p \in Submit PROVE FALSE
    BY <2>1
  <2>3. DOMAIN p = {"seq", "sms", "try"}
    BY <2>2 DEF Submit
  <2>4. DOMAIN p = {"kind", "seq", "sms", "try"}
    BY <2>1 DEF Answer
  <2>5. "kind" \in DOMAIN p
    BY <2>4
  <2>6. "kind" \notin {"seq", "sms", "try"}
    OBVIOUS
  <2> QED BY <2>3, <2>5, <2>6
<1>4. /\ UNCHANGED <<pc, wSms, wSeq>> /\ Flying' = Flying \ {p} /\ p \in Flying
  BY <1>1, <1>3 DEF ReadPush, workerVars, Flying
<1>5. /\ \A r \in Flying' : ~Alike(r.sms, r.seq, p.sms, p.seq)
      /\ \A i \in Read : /\ ~Alike(p.sms, p.seq, receiveQueue[i].sms,
                                   receiveQueue[i].seq)
                         /\ ~Alike(receiveQueue[i].sms, receiveQueue[i].seq,
                                   p.sms, p.seq)
      /\ \A w \in Workers : HasNumber(w)
           => ~Alike(wSms[w], wSeq[w], p.sms, p.seq)
  BY <1>4 DEF Traces, ParcelsApart, Alike
<1> QED BY <1>2, <1>4, <1>5 DEF Traces, ParcelsApart, HasNumber

LEMMA PopParcels ==
  ASSUME TypeOK, Traces, NEW w \in Workers, PopPdu(w)
  PROVE  ParcelsApart'
<1> DEFINE p == receiveQueue[1]
<1>1. /\ 1 \in Read /\ wSms'[w] = p.sms /\ wSeq'[w] = p.seq
      /\ \A i \in Read' : /\ i + 1 \in Read /\ i + 1 # 1
                          /\ receiveQueue'[i] = receiveQueue[i + 1]
      /\ \A i, j \in Read' : i + 1 = j + 1 => i = j
  BY FramePopped
<1>2. \A v \in Workers : v # w => /\ HasNumber(v)' => HasNumber(v)
                                  /\ wSms'[v] = wSms[v] /\ wSeq'[v] = wSeq[v]
  BY FramePopped DEF HasNumber
<1>3. Flying' = Flying
  BY DEF PopPdu, Flying, netVars
<1>4. /\ \A r \in Flying : ~Alike(p.sms, p.seq, r.sms, r.seq)
      /\ \A v \in Workers : HasNumber(v)
           => ~Alike(wSms[v], wSeq[v], p.sms, p.seq)
      /\ \A i \in Read' : ~Alike(p.sms, p.seq, receiveQueue'[i].sms,
                                 receiveQueue'[i].seq)
  BY <1>1 DEF Traces, ParcelsApart, Alike
<1> HIDE DEF p
<1>5. \A u, v \in Workers : HasNumber(u)' /\ HasNumber(v)'
                            /\ wSeq'[u] = wSeq'[v] => u = v
  BY <1>1, <1>2, <1>4 DEF Traces, ParcelsApart, Alike
<1>6. \A v \in Workers : HasNumber(v)' =>
        /\ \A r \in Flying' : ~Alike(wSms'[v], wSeq'[v], r.sms, r.seq)
        /\ \A i \in Read' : ~Alike(wSms'[v], wSeq'[v], receiveQueue'[i].sms,
                                   receiveQueue'[i].seq)
  BY <1>1, <1>2, <1>3, <1>4 DEF Traces, ParcelsApart
<1>7. /\ \A q \in Flying', r \in Flying' :
           Alike(q.sms, q.seq, r.sms, r.seq) => q = r
      /\ \A r \in Flying', i \in Read' :
           ~Alike(r.sms, r.seq, receiveQueue'[i].sms, receiveQueue'[i].seq)
      /\ \A i, j \in Read' :
           Alike(receiveQueue'[i].sms, receiveQueue'[i].seq,
                 receiveQueue'[j].sms, receiveQueue'[j].seq) => i = j
  BY <1>1, <1>3 DEF Traces, ParcelsApart
<1> QED BY <1>5, <1>6, <1>7 DEF ParcelsApart

LEMMA StepKeepsParcels ==
  ASSUME TypeOK, Traces, [Next]_vars, ~wrapped'
  PROVE  ParcelsApart'
<1>1. ParcelsApart
  BY DEF Traces
<1>2. CASE (\E c \in Campaigns : Campaign(c)) \/ Finished \/ UNCHANGED vars
  <2>1. UNCHANGED <<receiveQueue, atSmsc, inbound, pc, wSms, wSeq>>
    BY <1>2 DEF Campaign, PassGate, PauseQueueing, SendSmsPush, SendSmsPost,
       Finished, vars, queueVars, workerVars, netVars
  <2> QED BY <1>1, <2>1 DEF ParcelsApart, Flying, Read, HasNumber
<1>3. ASSUME NEW w \in Workers, Worker(w) PROVE ParcelsApart'
  <2> USE DEF HasNumber, SubmitOrReg, AnswerPcs
  <2>1. CASE \/ TakeSendTask(w) \/ TakeRecvTask(w) \/ CheckSendable(w)
             \/ EnqueueMissedEvent(w) \/ CheckSendQueue(w) \/ PopSms(w)
             \/ RegisterSms(w)
    <3>1. /\ UNCHANGED <<receiveQueue, atSmsc, inbound, wSeq>>
          /\ \A v \in Workers : HasNumber(v)'
               => HasNumber(v) /\ wSms'[v] = wSms[v]
      BY <2>1 DEF TakeSendTask, TakeRecvTask, CheckSendable, TypeOK, Goto,
         EnqueueMissedEvent, CheckSendQueue, PopSms, RegisterSms, queueVars,
         netVars
    <3> QED BY <1>1, <3>1, ParcelsStay DEF Flying
  <2>2. CASE \/ SubmitCheckState(w) \/ SubmitRegisterPdu(w) \/ SubmitFindSms(w)
             \/ SubmitGetSms(w)
    <3>1. /\ UNCHANGED <<receiveQueue, atSmsc, inbound, wSeq, wSms>>
          /\ \A v \in Workers : HasNumber(v)' => HasNumber(v)
      BY <2>2 DEF SubmitCheckState, SubmitRegisterPdu, SubmitFindSms,
         SubmitGetSms, TypeOK, Goto, queueVars, netVars
    <3> QED BY <1>1, <3>1, ParcelsStay DEF Flying
  <2>3. CASE \/ CheckReceiveQueue(w) \/ AnswerUnRegisterPdu(w)
             \/ AnswerFindSms(w) \/ AnswerUpdate(w) \/ AnswerUnRegisterSms(w)
             \/ AnswerResume(w) \/ BarePause(w) \/ BareFindSms(w)
             \/ BareUnRegisterSms(w)
    <3>1. /\ UNCHANGED <<receiveQueue, atSmsc, inbound, wSeq, wSms>>
          /\ \A v \in Workers : HasNumber(v)' => HasNumber(v)
      BY <2>3 DEF CheckReceiveQueue, AnswerUnRegisterPdu, AnswerFindSms, Goto,
         AnswerUpdate, AnswerUnRegisterSms, AnswerResume, BarePause,
         BareFindSms, BareUnRegisterSms, TypeOK, queueVars, netVars
    <3> QED BY <1>1, <3>1, ParcelsStay DEF Flying
  <2>4. CASE BareGetSms(w)
    <3>1. /\ UNCHANGED <<receiveQueue, atSmsc, inbound, wSeq>>
          /\ \A v \in Workers : HasNumber(v)' => HasNumber(v)
      BY <2>4 DEF BareGetSms, TypeOK, Goto, queueVars, netVars
    <3>2. \A v \in Workers : wSms'[v] \in {wSms[v], NoSms}
      BY <2>4, ResendsItsSms
    <3> QED BY <1>1, <3>1, <3>2, ParcelsStay DEF Flying
  <2> QED
    BY <1>3, <2>1, <2>2, <2>3, <2>4, NumberParcels, WriteParcels, PopParcels
       DEF Worker, SendOneSms, SendSubmitSm, OnReceivePdu
<1>4. CASE ReadPost \/ ReadEnd \/ Session \/ ConnectionLost
  <2>1. /\ UNCHANGED <<receiveQueue, pc, wSms, wSeq>>
        /\ atSmsc' \subseteq atSmsc /\ inbound' \subseteq inbound
    BY <1>4 DEF ReadPost, ReadEnd, Session, SessionStop, SessionStart,
       SessionBound, ConnectionLost, queueVars, workerVars, netVars
  <2> QED BY <1>1, <2>1, ParcelsStay DEF Flying, HasNumber
<1> QED
  BY <1>2, <1>3, <1>4, ReadParcels, AnswerParcels DEF Next, Reader

-----------------------------------------------------------------------------
(* The accounts. *)

LEMMA AccountsStay ==
  ASSUME TypeOK, Accounts, UNCHANGED <<submits, toSend, receiveQueue>>,
         \A c \in Campaigns : Pushes(c)' => Pushes(c) /\ cSms'[c] = cSms[c],
         \A i \in Queued' : \E j \in Queued : sendQueue'[i] = sendQueue[j],
         Flying' \subseteq Flying, inbound' \subseteq inbound,
         \A w \in Workers : AccountFits(w)'
  PROVE  Accounts'
BY DEF Accounts, AccountFits, Read, Written

(* Workers whose place, SMS and try do not matter or do not change. *)
LEMMA AccountsKept ==
  ASSUME TypeOK, Accounts, NEW label, NEW w \in Workers, Goto(w, label),
         UNCHANGED <<submits, campaignVars, sendQueue, receiveQueue, netVars,
                     wSms, wTry>>,
         \/ label \notin {"seq"} \union SubmitOrReg \union AnswerPcs
         \/ pc[w] \in SubmitOrReg /\ label \in SubmitOrReg
         \/ /\ pc[w] \in AnswerPcs /\ label \in AnswerPcs \ {"xunreg"}
            /\ label \in {"pause", "xfind", "xget"} =>
                 pc[w] \in {"pause", "xfind", "xget"}
  PROVE  Accounts'
<1>1. pc'[w] = label /\ \A v \in Workers : v # w => pc'[v] = pc[v]
  BY GotoMoves
<1>2. ASSUME NEW v \in Workers
      PROVE  AccountFits(v)'
  <2>1. CASE v # w
    BY <1>1, <2>1 DEF Accounts, AccountFits, Written
  <2>2. CASE v = w
    BY <1>1, <2>2 DEF Accounts, AccountFits, Written, SubmitOrReg, AnswerPcs
  <2> QED BY <2>1, <2>2
<1> QED BY <1>2, AccountsStay DEF Pushes, Queued, Flying, campaignVars, netVars

LEMMA CampaignAccounts ==
  ASSUME TypeOK, Traces, NEW c \in Campaigns, Campaign(c)
  PROVE  Accounts'
<1> USE DEF Traces, Accounts, AccountFits, Written, Flying, Read
<1>1. CASE PassGate(c)
  BY <1>1 DEF PassGate, TypeOK, Pushes, Queued, queueVars, workerVars, netVars,
     logVars
<1>2. CASE SendSmsPush(c)
  <2>1. /\ Len(sendQueue') = Len(sendQueue) + 1 /\ Len(sendQueue) \in Nat
        /\ sendQueue'[Len(sendQueue) + 1] = cSms[c]
        /\ \A i \in Queued : sendQueue'[i] = sendQueue[i]
    BY <1>2, AppendProperties DEF TypeOK, SendSmsPush, Queued
  <2>2. Queued' = Queued \union {Len(sendQueue) + 1}
    BY <2>1 DEF Queued
  <2>3. /\ Pushes(c) /\ \A d \in Campaigns : Pushes(d)' => Pushes(d)
        /\ UNCHANGED <<toSend, cSms, receiveQueue, workerVars, netVars,
             logVars>>
    BY <1>2 DEF TypeOK, SendSmsPush, Pushes
  <2> QED BY <2>1, <2>2, <2>3 DEF workerVars, netVars, logVars
<1>3. CASE SendSmsPost(c)
  <2>1. /\ \A d \in Campaigns : Pushes(d)' => Pushes(d)
        /\ UNCHANGED <<toSend, cSms, sendQueue, receiveQueue, workerVars,
                       netVars, logVars>>
    BY <1>3 DEF TypeOK, SendSmsPost, Pushes
  <2> QED BY <2>1 DEF workerVars, netVars, logVars, Queued
<1>4. CASE PauseQueueing(c)
  BY <1>4 DEF PauseQueueing, vars, campaignVars, queueVars, workerVars,
     netVars,
     logVars, Pushes, Queued
<1> QED BY <1>1, <1>2, <1>3, <1>4 DEF Campaign

LEMMA PopSmsAccounts ==
  ASSUME TypeOK, Traces, NEW w \in Workers, PopSms(w)
  PROVE  Accounts'
<1>1. /\ Len(sendQueue') = Len(sendQueue) - 1 /\ Len(sendQueue) \in Nat \ {0}
      /\ \A i \in Queued' :
           i + 1 \in Queued /\ sendQueue'[i] = sendQueue[i + 1]
      /\ 1 \in Queued /\ wSms' = [wSms EXCEPT ![w] = sendQueue[1]]
  BY HeadTailProperties, EmptySeq DEF TypeOK, PopSms, Queued
<1>2. pc'[w] = "seq" /\ \A v \in Workers : v # w => pc'[v] = pc[v]
  BY GotoMoves DEF PopSms
<1>3. wSms'[w] = sendQueue[1] /\ \A v \in Workers : v # w => wSms'[v] = wSms[v]
  BY <1>1 DEF TypeOK
<1>4. Accounts /\ submits[sendQueue[1]] = 0
  BY <1>1 DEF Traces, Accounts, AccountFits
<1>5. UNCHANGED <<toSend, cpc, cSms, receiveQueue, wTry, submits, atSmsc,
        inbound>>
  BY DEF PopSms, campaignVars, netVars, logVars
<1>6. ASSUME NEW v \in Workers
      PROVE  AccountFits(v)'
  <2>1. CASE v # w
    BY <1>2, <1>3, <1>4, <1>5, <2>1 DEF Accounts, AccountFits, Written
  <2>2. CASE v = w
    BY <1>2, <1>3, <1>4, <1>5, <2>2 DEF AccountFits, Written, SubmitOrReg,
       AnswerPcs
  <2> QED BY <2>1, <2>2
<1> QED BY <1>1, <1>4, <1>5, <1>6, AccountsStay DEF Pushes, Flying

LEMMA NumberAccounts ==
  ASSUME TypeOK, Traces, NEW w \in Workers, TakeSequenceNumber(w)
  PROVE  Accounts'
<1>1. /\ pc[w] = "seq" /\ pc'[w] = "reg" /\ wTry'[w] = 1
      /\ \A v \in Workers : v # w => pc'[v] = pc[v] /\ wTry'[v] = wTry[v]
  BY DEF TakeSequenceNumber, TypeOK, Goto
<1>2. UNCHANGED <<toSend, cpc, cSms, sendQueue, receiveQueue, wSms, submits,
                  atSmsc, inbound>>
  BY DEF TakeSequenceNumber, campaignVars, queueVars, netVars, logVars
<1>3. Accounts /\ wSms[w] \in Sms /\ submits[wSms[w]] = 0
  BY <1>1 DEF Traces, RowsApart, Accounts, AccountFits
<1>4. ASSUME NEW v \in Workers
      PROVE  AccountFits(v)'
  <2>1. CASE v # w
    BY <1>1, <1>2, <1>3, <2>1 DEF Accounts, AccountFits, Written
  <2>2. CASE v = w
    BY <1>1, <1>2, <1>3, <2>2 DEF AccountFits, SubmitOrReg, AnswerPcs, Written
  <2> QED BY <2>1, <2>2
<1> QED BY <1>2, <1>3, <1>4, AccountsStay DEF Pushes, Queued, Flying

LEMMA WriteAccounts ==
  ASSUME TypeOK, Traces, NEW w \in Workers, SubmitWrite(w)
  PROVE  Accounts'
<1> DEFINE s == wSms[w]
           m == [seq |-> wSeq[w], sms |-> s, try |-> wTry[w]]
<1>1. /\ pc[w] = "write" /\ pc'[w] = "find"
      /\ \A v \in Workers : v # w => pc'[v] = pc[v]
      /\ UNCHANGED <<toSend, cpc, cSms, sendQueue, receiveQueue, wSms, wTry,
                     inbound>>
  BY DEF SubmitWrite, TypeOK, Goto, campaignVars, queueVars
<1>2. Accounts /\ RowsApart /\ ParcelsApart
  BY DEF Traces
<1>3. CASE UNCHANGED <<atSmsc, submits>>
  BY <1>1, <1>2, <1>3 DEF Accounts, AccountFits, Flying, Queued, Read, Pushes,
     Written,
     SubmitOrReg, AnswerPcs
<1>4. CASE /\ atSmsc' = atSmsc \union {m}
           /\ submits' = IF s = NoSms THEN submits
                         ELSE [submits EXCEPT ![s] = @ + 1]
  <2>1. HasNumber(w) /\ HasSms(w) /\ Written(s, wTry[w], wTry[w] - 1)
        /\ s \in Data /\ wTry[w] \in Nat /\ m.sms = s /\ m.try = wTry[w]
    BY <1>1, <1>2 DEF HasNumber, HasSms, SubmitOrReg, Accounts, AccountFits,
       TypeOK
  <2> HIDE DEF m, s
  <2>2. Flying' = Flying \union {m}
    BY <1>1, <1>4 DEF Flying
  <2>3. \A t \in Sms : t # s => submits'[t] = submits[t]
    BY <1>4 DEF TypeOK
  <2>4. s \in Sms => submits'[s] = wTry[w] /\ wTry[w] <= 2
    BY <1>4, <2>1, ConstantsAssumption DEF Written, TypeOK
  <2>5. Written(s, wTry[w], wTry[w])'
    BY <1>1, <2>1, <2>4 DEF Written, s
  <2>6. /\ s \notin toSend
        /\ \A c \in Campaigns : Pushes(c) => cSms[c] # s /\ cSms[c] \in Sms
        /\ \A i \in Queued : sendQueue[i] # s /\ sendQueue[i] \in Sms
    BY <1>2, <2>1 DEF RowsApart, s
  <2>7. ASSUME NEW v \in Workers, v # w, HasSms(v)
        PROVE  wSms[v] \in Sms => wSms[v] # s
    BY <1>2, <2>1, <2>7, ConstantsAssumption DEF RowsApart, s
  <2>8. /\ \A p \in Flying : p.sms \in Sms => p.sms # s
        /\ \A i \in Read : receiveQueue[i].sms \in Sms
             => receiveQueue[i].sms # s
    BY <1>2, <2>1, ConstantsAssumption DEF ParcelsApart, Alike, s
  <2>9. ASSUME NEW v \in Workers, v # w
        PROVE  AccountFits(v)'
    <3>1. pc[v] = "seq" => wSms[v] \in Sms
      BY <1>2 DEF RowsApart
    <3> QED BY <1>1, <1>2, <2>3, <2>7, <2>9, <3>1
          DEF Accounts, AccountFits, Written, HasSms, HasNumber
  <2>10. /\ \A t \in toSend' : submits'[t] = 0
         /\ \A c \in Campaigns : Pushes(c)' => submits'[cSms'[c]] = 0
         /\ \A i \in Queued' : submits'[sendQueue'[i]] = 0
         /\ \A t \in Sms : submits'[t] <= 2
    BY <1>1, <1>2, <2>3, <2>4, <2>6 DEF Accounts, AccountFits, Pushes, Queued,
       TypeOK
  <2>11. \A p \in Flying' : Written(p.sms, p.try, p.try)'
    BY <1>2, <2>1, <2>2, <2>3, <2>5, <2>8, <1>1
       DEF Accounts, AccountFits, Written, s
  <2>12. \A i \in Read' : Written(receiveQueue[i].sms, receiveQueue[i].try,
                                  receiveQueue[i].try)'
    BY <1>1, <1>2, <2>3, <2>8 DEF Accounts, AccountFits, Written, Read
  <2>13. /\ \A p \in inbound' : p.kind = "bare" => p.try <= MaxBare
         /\ \A i \in Read' :
              receiveQueue'[i].kind = "bare" => receiveQueue'[i].try <= MaxBare
    BY <1>1, <1>2 DEF Accounts, AccountFits, Read
  <2>14. pc'[w] \notin {"seq", "xunreg"} \union SubmitOrReg \union AnswerPcs
    BY <1>1 DEF SubmitOrReg, AnswerPcs
  <2> QED
    BY <2>9, <2>10, <2>11, <2>12, <2>13, <2>14
       DEF Accounts, AccountFits, AnswerPcs
<1> QED BY <1>3, <1>4 DEF SubmitWrite
LEMMA ResendAccounts ==
  ASSUME TypeOK, Traces, NEW w \in Workers,
         BareGetSms(w) \/ BareUnRegisterSms(w)
  PROVE  Accounts'
<1>1. UNCHANGED <<toSend, cpc, cSms, sendQueue, receiveQueue, submits,
                  atSmsc, inbound>>
  BY DEF BareGetSms, BareUnRegisterSms, campaignVars, queueVars, netVars,
     logVars
<1>2. Accounts /\ NoSms \notin Sms /\ MaxBare \in Nat
  BY ConstantsAssumption DEF Traces
<1>3. ASSUME NEW v \in Workers
      PROVE  AccountFits(v)'
  <2>1. CASE v # w
    <3>1. pc'[v] = pc[v] /\ wSms'[v] = wSms[v] /\ wTry'[v] = wTry[v]
      BY <2>1 DEF BareGetSms, BareUnRegisterSms, Goto, TypeOK
    <3> QED BY <1>1, <1>2, <3>1 DEF Accounts, AccountFits, Written
  <2>2. CASE v = w /\ BareGetSms(w)
    <3>1. pc[w] = "xget" /\ pc'[w] = "xunreg" /\ wTry' = wTry
      BY <2>2 DEF BareGetSms, Goto, TypeOK
    <3>2. wSms'[w] \in {wSms[w], NoSms} /\ (wTry[w] # 1 => wSms'[w] = NoSms)
      BY <2>2, ResendsItsSms
    <3>3. wTry[w] = 1 => wSms'[w] = wSms[w]
      <4>1. EntryIs(wSeq[w], wSms[w], wTry[w])
        BY <3>1 DEF Traces, Filed, FiledFor, FramesFiled, HasNumber, AnswerPcs
      <4> QED BY <2>2, <4>1 DEF EntryIs, BareGetSms, Lookup, TypeOK
    <3>4. Written(wSms[w], wTry[w], wTry[w]) /\ wTry[w] <= MaxBare
      BY <1>2, <3>1 DEF Accounts, AccountFits, AnswerPcs
    <3> QED
      BY <1>1, <1>2, <2>2, <3>1, <3>2, <3>3, <3>4
      DEF AccountFits, SubmitOrReg, AnswerPcs, Written
  <2>3. CASE v = w /\ BareUnRegisterSms(w)
    <3>1. pc[w] = "xunreg" /\ pc'[w] = "state" /\ wSms' = wSms
          /\ wTry' = [wTry EXCEPT ![w] = IF @ <= MaxBare THEN @ + 1 ELSE @]
      BY <2>3 DEF BareUnRegisterSms, Goto, TypeOK
    <3>2. /\ Written(wSms[w], wTry[w], wTry[w]) /\ wTry[w] <= MaxBare
          /\ wTry[w] = 1 \/ wSms[w] = NoSms
      BY <1>2, <3>1 DEF Accounts, AccountFits, AnswerPcs
    <3>3. wTry[w] \in Nat \ {0} /\ wTry'[w] = wTry[w] + 1
      BY <1>2, <3>1, <3>2 DEF TypeOK
    <3> QED
      BY <1>1, <1>2, <2>3, <3>1, <3>2, <3>3
      DEF AccountFits, SubmitOrReg, AnswerPcs, Written
  <2> QED BY <2>1, <2>2, <2>3
<1> QED BY <1>1, <1>2, <1>3, AccountsStay DEF Pushes, Queued, Flying

LEMMA PopPduAccounts ==
  ASSUME TypeOK, Traces, NEW w \in Workers, PopPdu(w)
  PROVE  Accounts'
<1> DEFINE p == receiveQueue[1]
<1>1. /\ 1 \in Read /\ wSms'[w] = p.sms /\ wTry'[w] = p.try
      /\ pc'[w] = IF p.kind = "full" THEN "unregpdu" ELSE "pause"
      /\ p.kind \in {"full", "bare"}
      /\ \A i \in Read' :
           i + 1 \in Read /\ receiveQueue'[i] = receiveQueue[i + 1]
  BY FramePopped DEF Answer
<1>2. \A v \in Workers : v # w => /\ pc'[v] = pc[v] /\ wTry'[v] = wTry[v]
                                  /\ wSms'[v] = wSms[v]
  BY FramePopped
<1>3. UNCHANGED <<toSend, cpc, cSms, sendQueue, submits, atSmsc, inbound>>
  BY DEF PopPdu, campaignVars, netVars, logVars
<1>4. Accounts /\ Written(p.sms, p.try, p.try)
      /\ (p.kind = "bare" => p.try <= MaxBare)
  BY <1>1 DEF Traces, Accounts, AccountFits
<1> HIDE DEF p
<1>5. ASSUME NEW v \in Workers
      PROVE  AccountFits(v)'
  <2>1. CASE v # w
    BY <1>2, <1>3, <1>4, <2>1 DEF Accounts, AccountFits, Written
  <2>2. CASE v = w
    BY <1>1, <1>3, <1>4, <2>2 DEF AccountFits, Written, SubmitOrReg, AnswerPcs
  <2> QED BY <2>1, <2>2
<1> QED
  BY <1>1, <1>3, <1>4, <1>5 DEF Accounts, AccountFits, Pushes, Queued, Flying,
     Written

(* The frames' own steps change no account. *)
LEMMA FrameAccounts ==
  ASSUME TypeOK, Traces, SmscAnswer \/ ReadPush
  PROVE  Accounts'
<1>1. UNCHANGED <<toSend, cpc, cSms, sendQueue, submits, pc, wSms, wTry>>
  BY DEF SmscAnswer, ReadPush, campaignVars, queueVars, workerVars, logVars
<1>2. Accounts
  BY DEF Traces
<1>3. /\ \A p \in Flying' : Written(p.sms, p.try, p.try)
      /\ \A p \in inbound' : p.kind = "bare" => p.try <= MaxBare
      /\ \A i \in Read' :
           /\ Written(receiveQueue'[i].sms, receiveQueue'[i].try,
                      receiveQueue'[i].try)
           /\ receiveQueue'[i].kind = "bare" => receiveQueue'[i].try <= MaxBare
  <2>1. CASE SmscAnswer
    <3>1. PICK m \in atSmsc, kind \in {"full", "bare"} :
            /\ kind = "bare" => m.try <= MaxBare
            /\ atSmsc' = atSmsc \ {m}
            /\ inbound' = inbound \union
                 {[kind |-> kind, seq |-> m.seq, sms |-> m.sms, try |-> m.try]}
      BY <2>1 DEF SmscAnswer
    <3>2. receiveQueue' = receiveQueue /\ Written(m.sms, m.try, m.try)
      BY <1>2, <2>1 DEF SmscAnswer, queueVars, Accounts, AccountFits, Flying
    <3> QED BY <1>2, <3>1, <3>2 DEF Accounts, AccountFits, Flying, Read
  <2>2. CASE ReadPush
    <3>1. PICK p \in inbound : /\ receiveQueue' = Append(receiveQueue, p)
                               /\ inbound' = inbound \ {p}
      BY <2>2 DEF ReadPush
    <3>2. /\ Read' = Read \union {Len(receiveQueue) + 1}
          /\ receiveQueue'[Len(receiveQueue) + 1] = p
          /\ \A i \in Read : receiveQueue'[i] = receiveQueue[i]
      <4>1. receiveQueue \in Seq(Answer) /\ p \in Answer
        BY DEF TypeOK
      <4> QED BY <3>1, <4>1, AppendProperties DEF Read
    <3>3. Flying' \subseteq Flying /\ p \in Flying
      BY <2>2, <3>1 DEF ReadPush, Flying
    <3> QED BY <1>2, <3>1, <3>2, <3>3 DEF Accounts, AccountFits
  <2> QED BY <2>1, <2>2
<1> QED BY <1>1, <1>2, <1>3 DEF Accounts, AccountFits, Pushes, Queued, Written

LEMMA StepKeepsAccounts ==
  ASSUME TypeOK, Traces, [Next]_vars
  PROVE  Accounts'
<1>1. Accounts
  BY DEF Traces
<1>2. ASSUME NEW w \in Workers, Worker(w) PROVE Accounts'
  <2> USE DEF SubmitOrReg, AnswerPcs, queueVars
  <2>1. CASE TakeSendTask(w) \/ TakeRecvTask(w) \/ CheckSendable(w)
             \/ EnqueueMissedEvent(w) \/ CheckSendQueue(w)
    <3>1. UNCHANGED <<submits, campaignVars, sendQueue, receiveQueue, netVars,
                      wSms, wTry>>
      BY <2>1 DEF TakeSendTask, TakeRecvTask, CheckSendable,
         EnqueueMissedEvent, CheckSendQueue, logVars
    <3>2. \E label \in {"check", "rempty", "empty", "idle", "pop"} :
            Goto(w, label)
      BY <2>1 DEF TakeSendTask, TakeRecvTask, CheckSendable,
         EnqueueMissedEvent, CheckSendQueue
    <3> QED BY <1>1, <3>1, <3>2, AccountsKept
  <2>2. CASE RegisterSms(w) \/ SubmitCheckState(w) \/ SubmitRegisterPdu(w)
             \/ SubmitFindSms(w) \/ SubmitGetSms(w)
    <3>1. UNCHANGED <<submits, campaignVars, sendQueue, receiveQueue, netVars,
                      wSms, wTry>>
      BY <2>2 DEF RegisterSms, SubmitCheckState, SubmitRegisterPdu,
         SubmitFindSms, SubmitGetSms, logVars
    <3>2. \E label : /\ Goto(w, label)
                     /\ \/ label \in {"get", "idle"}
                        \/ /\ pc[w] \in {"reg", "state", "regpdu"}
                           /\ label \in {"state", "regpdu", "write"}
      BY <2>2 DEF RegisterSms, SubmitCheckState, SubmitRegisterPdu,
         SubmitFindSms, SubmitGetSms
    <3> QED BY <1>1, <3>1, <3>2, AccountsKept
  <2>3. CASE \/ CheckReceiveQueue(w) \/ AnswerUnRegisterPdu(w)
             \/ AnswerFindSms(w) \/ AnswerUpdate(w) \/ AnswerUnRegisterSms(w)
             \/ AnswerResume(w) \/ BarePause(w) \/ BareFindSms(w)
    <3>1. UNCHANGED <<submits, campaignVars, sendQueue, receiveQueue, netVars,
                      wSms, wTry>>
      BY <2>3 DEF CheckReceiveQueue, AnswerUnRegisterPdu, AnswerFindSms,
         AnswerUpdate, AnswerUnRegisterSms, AnswerResume, BarePause,
         BareFindSms, logVars
    <3>2. \E label : /\ Goto(w, label)
                     /\ \/ label \in {"idle", "rpop"}
                        \/ /\ pc[w] \in {"unregpdu", "ufind", "uget", "unreg"}
                           /\ label \in {"ufind", "uget", "unreg", "resume"}
                        \/ pc[w] \in {"pause", "xfind"}
                             /\ label \in {"xfind", "xget"}
      BY <2>3 DEF CheckReceiveQueue, AnswerUnRegisterPdu, AnswerFindSms,
         AnswerUpdate, AnswerUnRegisterSms, AnswerResume, BarePause,
         BareFindSms
    <3> QED BY <1>1, <3>1, <3>2, AccountsKept
  <2> QED
    BY <1>2, <2>1, <2>2, <2>3, PopSmsAccounts, NumberAccounts, WriteAccounts,
       ResendAccounts, PopPduAccounts
       DEF Worker, SendOneSms, SendSubmitSm, OnReceivePdu
<1>3. CASE ReadPost \/ ReadEnd \/ Session \/ ConnectionLost \/ Finished
           \/ UNCHANGED vars
  <2>1. /\ UNCHANGED <<toSend, cpc, cSms, sendQueue, receiveQueue, submits, pc,
                       wSms, wTry>>
        /\ atSmsc' \subseteq atSmsc /\ inbound' \subseteq inbound
    BY <1>3 DEF ReadPost, ReadEnd, Session, SessionStop, SessionStart, vars,
       SessionBound, ConnectionLost, Finished, campaignVars, queueVars,
       workerVars, netVars, logVars
  <2> QED
    BY <1>1, <2>1 DEF Accounts, AccountFits, Pushes, Queued, Read, Flying,
       Written
<1> QED
  BY <1>2, <1>3, CampaignAccounts, FrameAccounts DEF Next, Reader

-----------------------------------------------------------------------------
(* The map. *)

(* A blank inserted by operator[] changes no entry that an answer counts   *)
(* on: a filed SMS is kept, and a missing one may as well be blank.        *)
LEMMA BlankInserted ==
  ASSUME TypeOK, NEW q \in Seqs, LookupInserts(q)
  PROVE  /\ DOMAIN sendSmsMap' = DOMAIN sendSmsMap \union {q}
         /\ \A k \in Seqs, s \in Data, t \in Nat :
              EntryIs(k, s, t) => EntryIs(k, s, t)'
BY DEF TypeOK, LookupInserts, RegisterSmsData, Registered, EntryIs

LEMMA EntryErased ==
  ASSUME TypeOK, NEW q \in Seqs, UnRegisterSmsData(q)
  PROVE  /\ DOMAIN sendSmsMap' = DOMAIN sendSmsMap \ {q}
         /\ \A k \in Seqs, s \in Data, t \in Nat :
              k # q \/ t # 1 => (EntryIs(k, s, t) => EntryIs(k, s, t)')
BY DEF TypeOK, UnRegisterSmsData, Registered, EntryIs

LEMMA EntryMade ==
  ASSUME TypeOK, NEW q \in Seqs, NEW d \in Data, RegisterSmsData(q, d),
         ~Registered(q)
  PROVE  /\ DOMAIN sendSmsMap' = DOMAIN sendSmsMap \union {q}
         /\ sendSmsMap'[q] = d
         /\ \A k \in Seqs, s \in Data, t \in Nat :
              k # q => (EntryIs(k, s, t) => EntryIs(k, s, t)')
BY DEF TypeOK, RegisterSmsData, Registered, EntryIs

LEMMA FramesStayFiled ==
  ASSUME TypeOK, FramesFiled, nextSeq' \in Nat, nextSeq <= nextSeq',
         UNCHANGED receiveQueue, Flying' \subseteq Flying,
         NEW K \in SUBSET Seqs,
         \A k \in K, s \in Data, t \in Nat :
           EntryIs(k, s, t) => EntryIs(k, s, t)',
         \A p \in Flying : p.seq \in K,
         \A i \in Read : receiveQueue[i].seq \in K
  PROVE  FramesFiled'
<1>1. \A p \in Flying : p.seq \in Nat /\ p.sms \in Data /\ p.try \in Nat
  BY DEF TypeOK, Flying, Submit, Answer, Seqs
<1>2. \A i \in Read : receiveQueue[i] \in Answer
  BY DEF TypeOK, Read
<1>3. \A i \in Read : /\ receiveQueue[i].seq \in Nat
                     /\ receiveQueue[i].sms \in Data
                      /\ receiveQueue[i].try \in Nat
  BY <1>2 DEF Answer, Seqs
<1>4. nextSeq \in Nat
  BY DEF TypeOK, Seqs
<1>5. ASSUME NEW p \in Flying'
      PROVE  p.seq < nextSeq' /\ EntryIs(p.seq, p.sms, p.try)'
  BY <1>1, <1>4 DEF FramesFiled
<1>6. ASSUME NEW i \in Read'
      PROVE  /\ receiveQueue'[i].seq < nextSeq'
             /\ EntryIs(receiveQueue[i].seq, receiveQueue[i].sms,
                        receiveQueue[i].try)'
  BY <1>3, <1>4 DEF FramesFiled, Read
<1> QED BY <1>5, <1>6 DEF FramesFiled, Read

(* One worker moves; the others' SMS, numbers and tries do not.            *)
LEMMA OthersFiled ==
  ASSUME TypeOK, Filed, nextSeq' \in Nat, nextSeq <= nextSeq',
         NEW w \in Workers, NEW v \in Workers, v # w,
         pc'[v] = pc[v], wSms'[v] = wSms[v], wSeq'[v] = wSeq[v],
         wTry'[v] = wTry[v],
         HasNumber(v) => \A s \in Data, t \in Nat :
                           EntryIs(wSeq[v], s, t) => EntryIs(wSeq[v], s, t)',
         pc[v] = "reg" => /\ Registered(wSeq[v])' => Registered(wSeq[v])
                          /\ pc'[w] \in {"find", "get"} => wSeq'[w] # wSeq[v]
                          /\ \A u \in Workers : u # w => /\ pc'[u] = pc[u]
                                                        /\ wSeq'[u] = wSeq[u]
  PROVE  FiledFor(v)'
<1>1. /\ wSms[v] \in Data /\ wSeq[v] \in Nat /\ wTry[v] \in Nat
      /\ nextSeq \in Nat
  BY DEF TypeOK, Seqs
<1>2. FiledFor(v)
  BY DEF Filed
<1>3. HasNumber(v)' <=> HasNumber(v)
  BY DEF HasNumber
<1>4. (HasNumber(v) \/ pc[v] \in {"find", "get"} => wSeq[v] < nextSeq)'
  BY <1>1, <1>2, <1>3 DEF FiledFor
<1>5. pc[v] = "reg" => /\ wTry'[v] = 1 /\ ~Registered(wSeq[v])'
                       /\ \A u \in Workers : pc'[u] \in {"find", "get"} =>
                            wSeq'[u] # wSeq'[v]
  BY <1>2 DEF FiledFor
<1>6. HasNumber(v)' /\ pc'[v] \notin {"reg", "resume"} =>
        EntryIs(wSeq[v], wSms[v], wTry[v])'
  BY <1>1, <1>2, <1>3 DEF FiledFor
<1>7. Registered(wSeq[v])' <=> wSeq'[v] \in DOMAIN sendSmsMap'
  BY DEF Registered
<1> QED BY <1>4, <1>5, <1>6, <1>7 DEF FiledFor, Registered, EntryIs

(* The number of the worker that moves is nobody else's. *)
LEMMA OwnNumber ==
  ASSUME TypeOK, Traces, NEW w \in Workers
  PROVE  /\ HasNumber(w) => /\ \A p \in Flying : p.seq # wSeq[w]
                            /\ \A i \in Read : receiveQueue[i].seq # wSeq[w]
         /\ \A v \in Workers : v # w /\ HasNumber(v) /\ HasNumber(w)
                               => wSeq[v] # wSeq[w]
         /\ \A v \in Workers : pc[v] = "reg" /\ pc[w] \in {"find", "get"}
                               => wSeq[v] # wSeq[w]
<1>1. ParcelsApart /\ \A v \in Workers : FiledFor(v)
  BY DEF Traces, Filed
<1> QED BY <1>1 DEF ParcelsApart, Alike, FiledFor

LEMMA MoveFiled ==
  ASSUME TypeOK, Traces, NEW w \in Workers,
         \A v \in Workers : v # w => /\ pc'[v] = pc[v] /\ wSms'[v] = wSms[v]
                                     /\ wSeq'[v] = wSeq[v]
                                     /\ wTry'[v] = wTry[v],
         nextSeq' = nextSeq, wSeq'[w] = wSeq[w],
         UNCHANGED receiveQueue, Flying' \subseteq Flying, FiledFor(w)',
         \/ /\ HasNumber(w)
            /\ DOMAIN sendSmsMap' \subseteq DOMAIN sendSmsMap \union {wSeq[w]}
            /\ \A k \in Seqs, s \in Data, t \in Nat :
                 k # wSeq[w] => (EntryIs(k, s, t) => EntryIs(k, s, t)')
         \/ /\ pc[w] \in {"find", "get"}
            /\ DOMAIN sendSmsMap' \subseteq DOMAIN sendSmsMap \union {wSeq[w]}
            /\ \A k \in Seqs, s \in Data, t \in Nat :
                 EntryIs(k, s, t) => EntryIs(k, s, t)'
         \/ UNCHANGED sendSmsMap /\ pc'[w] \notin {"find", "get"}
  PROVE  Filed'
<1> DEFINE K == IF HasNumber(w) THEN Seqs \ {wSeq[w]} ELSE Seqs
<1>1. \A k \in K, s \in Data, t \in Nat : EntryIs(k, s, t) => EntryIs(k, s, t)'
  BY DEF EntryIs, Registered
<1>2. nextSeq \in Nat /\ Filed /\ wSeq[w] \in Seqs /\ FiledFor(w)
  BY DEF TypeOK, Seqs, Traces, Filed
<1>3. /\ \A p \in Flying : p.seq \in Seqs
      /\ \A i \in Read : receiveQueue[i].seq \in Seqs
  <2>1. \A i \in Read : receiveQueue[i] \in Answer
    BY DEF TypeOK, Read
  <2> QED BY <2>1 DEF TypeOK, Flying, Submit, Answer
<1>4. /\ \A p \in Flying : p.seq \in K
      /\ \A i \in Read : receiveQueue[i].seq \in K
  BY <1>3, OwnNumber
<1>5. FramesFiled'
  <2>1. K \in SUBSET Seqs /\ nextSeq <= nextSeq'
    BY <1>2
  <2> HIDE DEF K
  <2> QED BY <1>1, <1>2, <1>4, <2>1, FramesStayFiled DEF Filed
<1>6. \A q \in DOMAIN sendSmsMap' : q < nextSeq'
  BY <1>2 DEF Filed, FiledFor
<1>7. ASSUME NEW v \in Workers, v # w PROVE FiledFor(v)'
  <2>1. wSeq[v] \in Seqs
    BY DEF TypeOK
  <2>2. HasNumber(v) => wSeq[v] \in K
    BY <1>7, <2>1, OwnNumber
  <2>3. HasNumber(v) => \A s \in Data, t \in Nat :
                          EntryIs(wSeq[v], s, t) => EntryIs(wSeq[v], s, t)'
    BY <1>1, <2>2
  <2>4. pc[v] = "reg" => HasNumber(v)
    BY DEF HasNumber, SubmitOrReg
  <2>5. pc[v] = "reg" =>
          /\ wSeq[v] \in DOMAIN sendSmsMap' => wSeq[v] \in DOMAIN sendSmsMap
          /\ pc'[w] \in {"find", "get"} => wSeq'[w] # wSeq[v]
    BY <1>7, <2>4, OwnNumber
  <2>6. wSeq'[v] = wSeq[v] /\ nextSeq <= nextSeq'
    BY <1>2, <1>7
  <2> HIDE DEF K
  <2> QED BY <1>2, <1>7, <2>3, <2>5, <2>6, OthersFiled DEF Registered
<1> QED BY <1>5, <1>6, <1>7 DEF Filed
(* A step of a worker that leaves the map, the counter and the frames.     *)
LEMMA QuietFiled ==
  ASSUME TypeOK, Traces, NEW w \in Workers, NEW label, Goto(w, label),
         UNCHANGED <<wSeq, wTry, nextSeq, sendSmsMap, receiveQueue, atSmsc,
           inbound>>,
         \A v \in Workers : v # w => wSms'[v] = wSms[v],
         \/ label \notin {"find", "get"} \union SubmitOrReg \union AnswerPcs
         \/ label = "get" /\ pc[w] = "find"
         \/ /\ label \in (SubmitOrReg \union AnswerPcs) \ {"reg"}
            /\ HasNumber(w) /\ pc[w] \notin {"reg", "resume"}
            /\ wSms'[w] = wSms[w]
  PROVE  Filed'
<1>1. pc'[w] = label /\ \A v \in Workers : v # w => pc'[v] = pc[v]
  BY GotoMoves
<1>2. FiledFor(w) /\ Flying' = Flying
  BY DEF Traces, Filed, Flying
<1>3. FiledFor(w)'
  BY <1>1, <1>2 DEF FiledFor, HasNumber, EntryIs, Registered, SubmitOrReg,
     AnswerPcs
<1>4. \A k \in Seqs, s \in Data, t \in Nat :
        EntryIs(k, s, t) => EntryIs(k, s, t)'
  BY DEF EntryIs, Registered
<1>5. label \in {"find", "get"} => pc[w] \in {"find", "get"}
  BY DEF SubmitOrReg, AnswerPcs
<1> QED BY <1>1, <1>2, <1>3, <1>4, <1>5, MoveFiled

(* The steps that give out a new number. *)
LEMMA NumberFiled ==
  ASSUME TypeOK, Traces, NEW w \in Workers, TakeSequenceNumber(w), ~wrapped'
  PROVE  Filed'
<1>1. /\ UNCHANGED <<receiveQueue, atSmsc, inbound, wSms, sendSmsMap>>
      /\ wSeq'[w] = nextSeq /\ wTry'[w] = 1 /\ pc'[w] = "reg" /\ pc[w] = "seq"
      /\ \A v \in Workers : v # w => /\ pc'[v] = pc[v] /\ wSeq'[v] = wSeq[v]
                                     /\ wTry'[v] = wTry[v]
  BY DEF TakeSequenceNumber, TypeOK, Goto, queueVars, netVars, mapVars
<1>2. nextSeq \in Nat /\ nextSeq' = nextSeq + 1
  BY NumbersGrow, SMTT(30) DEF TakeSequenceNumber, TypeOK, Seqs
<1>3. Filed /\ (\A q \in DOMAIN sendSmsMap : q < nextSeq /\ q \in Nat)
  BY DEF Traces, Filed, TypeOK, Seqs
<1>4. \A k \in Seqs, s \in Data, t \in Nat :
        EntryIs(k, s, t) => EntryIs(k, s, t)'
  BY <1>1 DEF EntryIs, Registered
<1>5. FramesFiled'
  <2>1. \A i \in Read : receiveQueue[i] \in Answer
    BY DEF TypeOK, Read
  <2>2. /\ \A p \in Flying : p.seq \in Seqs
        /\ \A i \in Read : receiveQueue[i].seq \in Seqs
    BY <2>1 DEF TypeOK, Flying, Submit, Answer
  <2>3. nextSeq <= nextSeq' /\ nextSeq' \in Nat /\ Flying' \subseteq Flying
    BY <1>1, <1>2 DEF Flying
  <2> QED BY <1>1, <1>3, <1>4, <2>2, <2>3, FramesStayFiled DEF Filed
<1>6. \A q \in DOMAIN sendSmsMap' : q < nextSeq'
  BY <1>1, <1>2, <1>3
<1>7. ASSUME NEW v \in Workers, v # w PROVE FiledFor(v)'
  <2>1. nextSeq <= nextSeq' /\ nextSeq' \in Nat /\ wSeq[v] \in Seqs
    BY <1>2 DEF TypeOK
  <2> QED BY <1>1, <1>3, <1>4, <1>7, <2>1, OthersFiled DEF Registered
<1>8. FiledFor(w)'
  <2>1. ~Registered(wSeq[w])'
    BY <1>1, <1>2, <1>3 DEF Registered
  <2>2. ASSUME NEW v \in Workers, pc'[v] \in {"find", "get"}
        PROVE  wSeq'[v] # nextSeq
    <3>1. v # w /\ wSeq'[v] = wSeq[v] /\ pc[v] \in {"find", "get"}
      BY <1>1, <2>2
    <3>2. wSeq[v] < nextSeq /\ wSeq[v] \in Nat
      BY <1>3, <3>1 DEF Filed, FiledFor, TypeOK, Seqs
    <3> QED BY <1>2, <3>1, <3>2
  <2> QED BY <1>1, <1>2, <2>1, <2>2 DEF FiledFor, EntryIs, HasNumber
<1> QED BY <1>5, <1>6, <1>7, <1>8 DEF Filed

LEMMA StartFiled ==
  ASSUME TypeOK, Traces, SessionStart, ~wrapped'
  PROVE  Filed'
<1>1. UNCHANGED <<receiveQueue, atSmsc, inbound, workerVars, sendSmsMap>>
  BY DEF SessionStart, queueVars, mapVars
<1>2. nextSeq \in Nat /\ nextSeq' = nextSeq + 1
  BY NumbersGrow DEF SessionStart, TypeOK, Seqs
<1>3. /\ \A p \in Flying : p.seq \in Nat
      /\ \A i \in Read : receiveQueue[i].seq \in Nat
      /\ \A w \in Workers : wSeq[w] \in Nat
      /\ DOMAIN sendSmsMap \subseteq Nat
  <2>1. \A i \in Read : receiveQueue[i] \in Answer
    BY DEF TypeOK, Read
  <2> QED BY <2>1 DEF TypeOK, Flying, Submit, Answer, Seqs
<1>4. \A q \in Nat : q < nextSeq => q < nextSeq'
  BY <1>2
<1> QED
  BY <1>1, <1>3, <1>4 DEF Traces, Filed, FramesFiled, FiledFor, EntryIs,
     HasNumber,
     Registered, Flying, Read, workerVars
(* The steps that change the map, each at the number of its worker. *)
LEMMA MapStepFiled ==
  ASSUME TypeOK, Traces, NEW w \in Workers,
         \/ RegisterSms(w) \/ SubmitGetSms(w) \/ AnswerUpdate(w)
         \/ BareGetSms(w) \/ AnswerUnRegisterSms(w) \/ BareUnRegisterSms(w)
  PROVE  Filed'
<1> DEFINE q == wSeq[w]
<1>1. /\ UNCHANGED <<receiveQueue, atSmsc, inbound, nextSeq, wSeq>>
      /\ \A v \in Workers : v # w => /\ pc'[v] = pc[v] /\ wSms'[v] = wSms[v]
                                     /\ wTry'[v] = wTry[v]
  BY DEF RegisterSms, SubmitGetSms, AnswerUpdate, BareGetSms,
     AnswerUnRegisterSms, BareUnRegisterSms, TypeOK, Goto, queueVars, netVars,
     seqVars
<1>2. Filed /\ FiledFor(w) /\ Accounts /\ AccountFits(w)
  BY DEF Traces, Filed, Accounts
<1>3. q \in Seqs /\ wSms[w] \in Data /\ wTry[w] \in Nat /\ Flying' = Flying
  BY <1>1 DEF TypeOK, Flying
<1>4. CASE RegisterSms(w)
  <2>1. /\ pc[w] = "reg" /\ pc'[w] = "state" /\ UNCHANGED <<wSms, wTry>>
        /\ RegisterSmsData(q, wSms[w])
    BY <1>4 DEF RegisterSms, TypeOK, Goto
  <2>2. HasNumber(w) /\ ~Registered(q) /\ wTry[w] = 1 /\ q < nextSeq
    BY <1>2, <2>1 DEF FiledFor, HasNumber, SubmitOrReg
  <2>3. /\ DOMAIN sendSmsMap' = DOMAIN sendSmsMap \union {q}
        /\ sendSmsMap'[q] = wSms[w]
        /\ \A k \in Seqs, s \in Data, t \in Nat :
             k # q => (EntryIs(k, s, t) => EntryIs(k, s, t)')
    BY <1>3, <2>1, <2>2, EntryMade, Zenon
  <2>4. EntryIs(wSeq[w], wSms[w], wTry[w])'
    BY <1>1, <2>1, <2>2, <2>3 DEF EntryIs, Registered
  <2>5. FiledFor(w)'
    BY <1>1, <2>1, <2>2, <2>4 DEF FiledFor
  <2> QED BY <1>1, <1>3, <2>2, <2>3, <2>5, MoveFiled
<1>5. CASE SubmitGetSms(w) \/ AnswerUpdate(w) \/ BareGetSms(w)
  <2>1. LookupInserts(q)
    BY <1>5 DEF SubmitGetSms, AnswerUpdate, BareGetSms
  <2>2. /\ DOMAIN sendSmsMap' = DOMAIN sendSmsMap \union {q}
        /\ \A k \in Seqs, s \in Data, t \in Nat :
             EntryIs(k, s, t) => EntryIs(k, s, t)'
    BY <1>3, <2>1, BlankInserted, Zenon
  <2>3. CASE SubmitGetSms(w)
    <3>1. pc[w] = "get" /\ pc'[w] = "idle"
      BY <2>3 DEF SubmitGetSms, TypeOK, Goto
    <3>2. FiledFor(w)'
      BY <3>1 DEF FiledFor, HasNumber, SubmitOrReg, AnswerPcs
    <3> QED BY <1>1, <1>3, <2>2, <3>1, <3>2, MoveFiled
  <2>4. CASE AnswerUpdate(w) \/ BareGetSms(w)
    <3>1. /\ \/ pc[w] = "uget" /\ pc'[w] = "unreg"
             \/ pc[w] = "xget" /\ pc'[w] = "xunreg"
          /\ wTry' = wTry
      BY <2>4 DEF AnswerUpdate, BareGetSms, TypeOK, Goto
    <3>2. HasNumber(w) /\ q < nextSeq /\ EntryIs(q, wSms[w], wTry[w])
      BY <1>2, <3>1 DEF FiledFor, HasNumber, AnswerPcs
    <3>3. wTry[w] = 1 => wSms'[w] = wSms[w]
      <4>1. CASE AnswerUpdate(w)
        BY <4>1 DEF AnswerUpdate
      <4>2. CASE BareGetSms(w)
        BY <3>2, <4>2 DEF BareGetSms, Lookup, EntryIs, TypeOK
      <4> QED BY <2>4, <4>1, <4>2
    <3>4. EntryIs(q, wSms[w], wTry[w])'
      <4>1. Registered(q) => q \in DOMAIN sendSmsMap'
                             /\ sendSmsMap'[q] = sendSmsMap[q]
        BY <2>1 DEF LookupInserts, RegisterSmsData, Registered
      <4>2. ~Registered(q) => sendSmsMap'[q] = NoSms
        BY <2>1 DEF LookupInserts, RegisterSmsData, Registered
      <4> QED BY <1>1, <3>1, <3>2, <3>3, <4>1, <4>2 DEF EntryIs, Registered
    <3>5. FiledFor(w)'
      BY <1>1, <3>1, <3>2, <3>4 DEF FiledFor
    <3> QED BY <1>1, <1>3, <2>2, <3>2, <3>5, MoveFiled
  <2> QED BY <1>5, <2>3, <2>4
<1>6. CASE AnswerUnRegisterSms(w) \/ BareUnRegisterSms(w)
  <2>1. /\ UnRegisterSmsData(q) /\ UNCHANGED wSms
        /\ \/ pc[w] = "unreg" /\ pc'[w] = "resume"
           \/ /\ pc[w] = "xunreg" /\ pc'[w] = "state"
              /\ wTry' = [wTry EXCEPT ![w] = IF @ <= MaxBare THEN @ + 1 ELSE @]
    BY <1>6 DEF AnswerUnRegisterSms, BareUnRegisterSms, TypeOK, Goto
  <2>2. /\ DOMAIN sendSmsMap' = DOMAIN sendSmsMap \ {q}
        /\ \A k \in Seqs, s \in Data, t \in Nat :
             k # q \/ t # 1 => (EntryIs(k, s, t) => EntryIs(k, s, t)')
    BY <1>3, <2>1, EntryErased, Zenon
  <2>3. HasNumber(w) /\ q < nextSeq
    BY <1>2, <2>1 DEF FiledFor, HasNumber, AnswerPcs
  <2>4. pc[w] = "xunreg" => wTry'[w] # 1
    <3>1. pc[w] = "xunreg" => wTry[w] <= MaxBare
      BY <1>2 DEF AccountFits
    <3>2. wTry[w] \in 1 .. MaxBare + 1 /\ MaxBare \in Nat
      BY ConstantsAssumption DEF TypeOK
    <3> QED BY <2>1, <3>1, <3>2 DEF TypeOK
  <2>5. pc[w] = "xunreg" => EntryIs(wSeq[w], wSms[w], wTry[w])'
    BY <1>1, <2>2, <2>4 DEF EntryIs, Registered
  <2>6. FiledFor(w)'
    BY <1>1, <2>1, <2>3, <2>5 DEF FiledFor
  <2> QED BY <1>1, <1>3, <2>2, <2>3, <2>6, MoveFiled
<1> QED BY <1>4, <1>5, <1>6
(* A popped frame brings its number and its entry to the worker.           *)
LEMMA PopFiled ==
  ASSUME TypeOK, Traces, NEW w \in Workers, PopPdu(w)
  PROVE  Filed'
<1> DEFINE p == receiveQueue[1]
<1>1. /\ 1 \in Read /\ wSms'[w] = p.sms /\ wSeq'[w] = p.seq /\ wTry'[w] = p.try
      /\ pc'[w] \in {"unregpdu", "pause"}
      /\ \A i \in Read' :
           i + 1 \in Read /\ receiveQueue'[i] = receiveQueue[i + 1]
      /\ \A v \in Workers : v # w => /\ pc'[v] = pc[v] /\ wSms'[v] = wSms[v]
                                     /\ wSeq'[v] = wSeq[v]
                                     /\ wTry'[v] = wTry[v]
  BY FramePopped
<1>2. UNCHANGED <<atSmsc, inbound, nextSeq, sendSmsMap>>
  BY DEF PopPdu, netVars, seqVars, mapVars
<1>3. Filed /\ p.seq < nextSeq /\ EntryIs(p.seq, p.sms, p.try)
  BY <1>1 DEF Traces, Filed, FramesFiled
<1> HIDE DEF p
<1>4. \A k \in Seqs, s \in Data, t \in Nat :
        EntryIs(k, s, t) => EntryIs(k, s, t)'
  BY <1>2 DEF EntryIs, Registered
<1>5. FiledFor(w)'
  BY <1>1, <1>2, <1>3 DEF FiledFor, EntryIs, Registered
<1>6. ASSUME NEW v \in Workers, v # w PROVE FiledFor(v)'
  <2>1. nextSeq' \in Nat /\ nextSeq <= nextSeq' /\ wSeq[v] \in Seqs
    BY <1>2 DEF TypeOK, Seqs
  <2> QED BY <1>1, <1>2, <1>3, <1>4, <1>6, <2>1, OthersFiled DEF Registered
<1>7. FramesFiled'
  BY <1>1, <1>2, <1>3 DEF Filed, FramesFiled, Flying, EntryIs, Registered
<1> QED BY <1>2, <1>3, <1>5, <1>6, <1>7 DEF Filed

LEMMA FrameFiled ==
  ASSUME TypeOK, Traces, SmscAnswer \/ ReadPush
  PROVE  Filed'
<1>1. UNCHANGED <<pc, wSms, wSeq, wTry, nextSeq, sendSmsMap>> /\ Filed
  BY DEF SmscAnswer, ReadPush, workerVars, seqVars, mapVars, Traces
<1>2. CASE SmscAnswer
  <2>1. PICK m \in atSmsc, kind \in {"full", "bare"} :
          /\ atSmsc' = atSmsc \ {m}
          /\ inbound' = inbound \union
               {[kind |-> kind, seq |-> m.seq, sms |-> m.sms, try |-> m.try]}
    BY <1>2 DEF SmscAnswer
  <2>2. UNCHANGED receiveQueue
    BY <1>2 DEF SmscAnswer, queueVars
  <2>3. ASSUME NEW p \in Flying'
        PROVE  p.seq < nextSeq /\ EntryIs(p.seq, p.sms, p.try)
    BY <1>1, <2>1 DEF Filed, FramesFiled, Flying
  <2>4. FramesFiled'
    BY <1>1, <2>2, <2>3 DEF Filed, FramesFiled, Read, EntryIs, Registered
  <2> QED BY <1>1, <2>4 DEF Filed, FiledFor, HasNumber, EntryIs, Registered
<1>3. CASE ReadPush
  <2>1. PICK p \in inbound : /\ receiveQueue' = Append(receiveQueue, p)
                             /\ inbound' = inbound \ {p}
    BY <1>3 DEF ReadPush
  <2>2. /\ Read' = Read \union {Len(receiveQueue) + 1}
        /\ receiveQueue'[Len(receiveQueue) + 1] = p
        /\ \A i \in Read : receiveQueue'[i] = receiveQueue[i]
    <3>1. receiveQueue \in Seq(Answer) /\ p \in Answer
      BY DEF TypeOK
    <3> QED BY <2>1, <3>1, AppendProperties DEF Read
  <2>3. Flying' \subseteq Flying /\ p \in Flying
    BY <1>3, <2>1 DEF ReadPush, Flying
  <2>4. FramesFiled'
    BY <1>1, <2>2, <2>3 DEF Filed, FramesFiled, EntryIs, Registered
  <2> QED BY <1>1, <2>4 DEF Filed, FiledFor, HasNumber, EntryIs, Registered
<1> QED BY <1>2, <1>3

LEMMA WriteFiled ==
  ASSUME TypeOK, Traces, NEW w \in Workers, SubmitWrite(w)
  PROVE  Filed'
<1> DEFINE m == [seq |-> wSeq[w], sms |-> wSms[w], try |-> wTry[w]]
<1>1. /\ UNCHANGED <<receiveQueue, inbound, wSms, wSeq, wTry, nextSeq,
           sendSmsMap>>
      /\ pc[w] = "write" /\ pc'[w] = "find"
      /\ \A v \in Workers : v # w => pc'[v] = pc[v]
      /\ atSmsc' \subseteq atSmsc \union {m}
  BY DEF SubmitWrite, TypeOK, Goto, queueVars, seqVars, mapVars
<1>2. /\ Filed /\ HasNumber(w) /\ wSeq[w] < nextSeq
      /\ EntryIs(wSeq[w], wSms[w], wTry[w])
  BY <1>1 DEF Traces, Filed, FiledFor, HasNumber, SubmitOrReg
<1>3. m.seq = wSeq[w] /\ m.sms = wSms[w] /\ m.try = wTry[w]
  OBVIOUS
<1> HIDE DEF m
<1>4. ASSUME NEW p \in Flying'
      PROVE  p.seq < nextSeq /\ EntryIs(p.seq, p.sms, p.try)
  BY <1>1, <1>2, <1>3 DEF Filed, FramesFiled, Flying
<1>5. FramesFiled'
  BY <1>1, <1>2, <1>4 DEF Filed, FramesFiled, Read, EntryIs, Registered
<1>6. FiledFor(w)'
  BY <1>1, <1>2 DEF FiledFor, HasNumber, SubmitOrReg, AnswerPcs
<1>7. \A k \in Seqs, s \in Data, t \in Nat :
        EntryIs(k, s, t) => EntryIs(k, s, t)'
  BY <1>1 DEF EntryIs, Registered
<1>8. ASSUME NEW v \in Workers, v # w PROVE FiledFor(v)'
  <2>1. nextSeq' \in Nat /\ nextSeq <= nextSeq' /\ wSeq[v] \in Seqs
    BY <1>1 DEF TypeOK, Seqs
  <2>2. pc[v] = "reg" => wSeq[w] # wSeq[v]
    BY <1>2, <1>8, OwnNumber DEF HasNumber, SubmitOrReg
  <2> QED BY <1>1, <1>2, <1>7, <1>8, <2>1, <2>2, OthersFiled DEF Registered
<1> QED BY <1>1, <1>2, <1>5, <1>6, <1>8 DEF Filed

LEMMA StepKeepsFiled ==
  ASSUME TypeOK, Traces, [Next]_vars, ~wrapped'
  PROVE  Filed'
<1>1. Filed
  BY DEF Traces
<1>2. CASE \/ \E c \in Campaigns : Campaign(c)
           \/ Finished \/ UNCHANGED vars
           \/ ReadPost \/ ReadEnd \/ SessionStop \/ SessionBound
           \/ ConnectionLost
  <2>1. /\ UNCHANGED <<receiveQueue, pc, wSms, wSeq, wTry, nextSeq,
             sendSmsMap>>
        /\ Flying' \subseteq Flying
    BY <1>2 DEF Campaign, PassGate, PauseQueueing, SendSmsPush, SendSmsPost,
       Finished, ReadPost, ReadEnd, SessionStop, SessionBound, ConnectionLost,
       Flying, vars, queueVars, workerVars, seqVars, mapVars, netVars
  <2> QED
    BY <1>1, <2>1 DEF Filed, FramesFiled, FiledFor, Read, HasNumber, EntryIs,
       Registered
<1>3. ASSUME NEW w \in Workers, Worker(w) PROVE Filed'
  <2> USE DEF SubmitOrReg, AnswerPcs
  <2>1. CASE \/ TakeSendTask(w) \/ TakeRecvTask(w) \/ CheckSendable(w)
             \/ EnqueueMissedEvent(w) \/ CheckSendQueue(w) \/ PopSms(w)
    <3>1. /\ UNCHANGED <<wSeq, wTry, nextSeq, sendSmsMap, receiveQueue, atSmsc,
                         inbound>>
          /\ \A v \in Workers : v # w => wSms'[v] = wSms[v]
      BY <2>1 DEF TakeSendTask, TakeRecvTask, CheckSendable, PopSms, TypeOK,
         EnqueueMissedEvent, CheckSendQueue, queueVars, seqVars, mapVars,
         netVars
    <3>2. \E label \in {"check", "rempty", "empty", "idle", "pop", "seq"} :
            Goto(w, label)
      BY <2>1 DEF TakeSendTask, TakeRecvTask, CheckSendable, PopSms,
         EnqueueMissedEvent, CheckSendQueue
    <3> QED BY <3>1, <3>2, QuietFiled
  <2>2. CASE SubmitCheckState(w) \/ SubmitRegisterPdu(w) \/ SubmitFindSms(w)
    <3>1. UNCHANGED <<wSms, wSeq, wTry, nextSeq, sendSmsMap, receiveQueue,
            atSmsc,
                      inbound>>
      BY <2>2 DEF SubmitCheckState, SubmitRegisterPdu, SubmitFindSms,
         queueVars,
         seqVars, mapVars, netVars
    <3>2. \E label : /\ Goto(w, label)
                     /\ \/ label = "idle"
                        \/ label = "get" /\ pc[w] = "find"
                        \/ label \in {"regpdu", "write"}
                           /\ pc[w] \in {"state", "regpdu"}
      BY <2>2 DEF SubmitCheckState, SubmitRegisterPdu, SubmitFindSms
    <3> QED BY <3>1, <3>2, QuietFiled DEF HasNumber
  <2>3. CASE \/ CheckReceiveQueue(w) \/ AnswerUnRegisterPdu(w)
             \/ AnswerFindSms(w) \/ AnswerResume(w) \/ BarePause(w)
             \/ BareFindSms(w)
    <3>1. UNCHANGED <<wSms, wSeq, wTry, nextSeq, sendSmsMap, receiveQueue,
            atSmsc,
                      inbound>>
      BY <2>3 DEF CheckReceiveQueue, AnswerUnRegisterPdu, AnswerFindSms,
         AnswerResume, BarePause, BareFindSms, queueVars, seqVars, mapVars,
         netVars
    <3>2. \E label : /\ Goto(w, label)
                     /\ \/ label \in {"idle", "rpop"}
                        \/ /\ label \in {"ufind", "uget", "unreg", "xfind",
                                        "xget"}
                           /\ pc[w] \in {"unregpdu", "ufind", "pause", "xfind"}
      BY <2>3 DEF CheckReceiveQueue, AnswerUnRegisterPdu, AnswerFindSms,
         AnswerResume, BarePause, BareFindSms
    <3> QED BY <3>1, <3>2, QuietFiled DEF HasNumber
  <2> QED
    BY <1>3, <2>1, <2>2, <2>3, NumberFiled, MapStepFiled, PopFiled, WriteFiled
       DEF Worker, SendOneSms, SendSubmitSm, OnReceivePdu
<1> QED
  BY <1>2, <1>3, StartFiled, FrameFiled DEF Next, Reader, Session

-----------------------------------------------------------------------------
(* The log. *)

LEMMA LoggedStays ==
  ASSUME Logged, UNCHANGED <<updates, submits, settled>>,
         \A w \in Workers :
           pc'[w] \in {"unreg", "resume"} /\ wTry'[w] = 1
           => pc[w] \in {"unreg", "resume"} /\ wTry[w] = 1
             /\ wSms'[w] = wSms[w]
  PROVE  Logged'
BY DEF Logged, Recorded

LEMMA UpdateLogged ==
  ASSUME TypeOK, Traces, NEW w \in Workers, AnswerUpdate(w)
  PROVE  Logged'
<1> DEFINE u == [row |-> Lookup(wSeq[w]), answers |-> wSms[w]]
<1>1. /\ updates' = updates \union {u}
      /\ UNCHANGED <<wSms, wTry, submits, settled>>
      /\ pc[w] = "uget" /\ pc'[w] = "unreg"
      /\ \A v \in Workers : v # w => pc'[v] = pc[v]
  BY DEF AnswerUpdate, TypeOK, Goto
<1>2. Logged /\ EntryIs(wSeq[w], wSms[w], wTry[w])
  BY <1>1 DEF Traces, Filed, FiledFor, HasNumber, AnswerPcs
<1>3. u.answers = wSms[w] /\ u.row \in {wSms[w], NoSms}
      /\ (wTry[w] = 1 => u.row = wSms[w])
  BY <1>2 DEF EntryIs, Lookup
<1> HIDE DEF u
<1>4. \A s : Recorded(s) => Recorded(s)'
  BY <1>1 DEF Recorded
<1>5. \A r \in updates' : r.row \in {r.answers, NoSms}
  BY <1>1, <1>2, <1>3 DEF Logged
<1>6. wTry[w] = 1 => \E r \in updates' : r.answers = wSms[w] /\ r.row = wSms[w]
  BY <1>1, <1>3
<1> QED BY <1>1, <1>2, <1>5, <1>6 DEF Logged, Recorded

LEMMA ResumeLogged ==
  ASSUME TypeOK, Traces, NEW w \in Workers, AnswerResume(w)
  PROVE  Logged'
<1>1. /\ settled' = settled \union {wSms[w]}
      /\ UNCHANGED <<updates, submits, wSms, wTry>>
      /\ pc[w] = "resume" /\ \A v \in Workers : v # w => pc'[v] = pc[v]
      /\ pc'[w] = "idle"
  BY DEF AnswerResume, TypeOK, Goto
<1>2. Logged /\ Written(wSms[w], wTry[w], wTry[w])
  BY <1>1 DEF Traces, Accounts, AccountFits, AnswerPcs
<1>3. wSms[w] \in Data /\ wTry[w] \in Nat \ {0}
  BY DEF TypeOK
<1>4. wSms[w] # NoSms => /\ submits[wSms[w]] >= 1
                         /\ submits[wSms[w]] = 1 => Recorded(wSms[w])
  BY <1>1, <1>2, <1>3 DEF Logged, Written, Data
<1> QED BY <1>1, <1>2, <1>4 DEF Logged, Recorded

LEMMA WriteLogged ==
  ASSUME TypeOK, Traces, NEW w \in Workers, SubmitWrite(w)
  PROVE  Logged'
<1>1. /\ UNCHANGED <<updates, settled, wSms, wTry>> /\ pc'[w] = "find"
      /\ \A v \in Workers : v # w => pc'[v] = pc[v]
      /\ \/ submits' = submits
         \/ wSms[w] # NoSms /\ submits' = [submits EXCEPT ![wSms[w]] = @ + 1]
  BY DEF SubmitWrite, TypeOK, Goto
<1>2. Logged
  BY DEF Traces
<1>3. ASSUME NEW s \in settled \ {NoSms}
      PROVE  submits'[s] >= 1 /\ (submits'[s] = 1 => Recorded(s))
  <2>1. s \in Sms /\ wSms[w] \in Data /\ submits \in [Sms -> Nat]
        /\ submits[s] >= 1 /\ (submits[s] = 1 => Recorded(s))
    BY <1>2 DEF Logged, TypeOK, Data
  <2>2. submits'[s] = submits[s] \/ submits'[s] = submits[s] + 1
    BY <1>1, <2>1
  <2>3. submits[s] \in Nat
    BY <2>1
  <2> QED BY <2>1, <2>2, <2>3
<1> QED BY <1>1, <1>2, <1>3 DEF Logged, Recorded

LEMMA StepKeepsLogged ==
  ASSUME TypeOK, Traces, [Next]_vars
  PROVE  Logged'
<1>1. Logged
  BY DEF Traces
<1>2. CASE \/ \E c \in Campaigns : Campaign(c)
           \/ Finished \/ UNCHANGED vars
           \/ Reader \/ Session \/ SmscAnswer \/ ConnectionLost
  <2>1. UNCHANGED <<updates, submits, settled, pc, wSms, wTry>>
    BY <1>2 DEF Campaign, PassGate, PauseQueueing, SendSmsPush, SendSmsPost,
       Finished, Reader, ReadPush, ReadPost, ReadEnd, Session, SessionStop,
       SessionStart, SessionBound, SmscAnswer, ConnectionLost, vars,
       workerVars,
       logVars
  <2> QED BY <1>1, <2>1 DEF Logged, Recorded
<1>3. ASSUME NEW w \in Workers, Worker(w) PROVE Logged'
  <2>1. CASE \/ TakeSendTask(w) \/ TakeRecvTask(w) \/ SendOneSms(w)
    <3>1. /\ UNCHANGED <<updates, submits, settled>>
          /\ pc'[w] \notin {"unreg", "resume"}
          /\ \A v \in Workers : v # w
               => /\ pc'[v] = pc[v] /\ wSms'[v] = wSms[v]
                  /\ wTry'[v] = wTry[v]
      BY <2>1 DEF TakeSendTask, TakeRecvTask, SendOneSms, CheckSendable,
         EnqueueMissedEvent, CheckSendQueue, PopSms, TakeSequenceNumber,
         RegisterSms, TypeOK, Goto, logVars
    <3> QED BY <1>1, <3>1, LoggedStays
  <2>2. CASE \/ SubmitCheckState(w) \/ SubmitRegisterPdu(w) \/ SubmitFindSms(w)
             \/ SubmitGetSms(w) \/ CheckReceiveQueue(w)
             \/ AnswerUnRegisterPdu(w) \/ BarePause(w) \/ BareFindSms(w)
    <3>1. /\ UNCHANGED <<updates, submits, settled, wSms, wTry>>
          /\ pc'[w] \notin {"unreg", "resume"}
          /\ \A v \in Workers : v # w => pc'[v] = pc[v]
      BY <2>2 DEF SubmitCheckState, SubmitRegisterPdu, SubmitFindSms,
         SubmitGetSms, CheckReceiveQueue, AnswerUnRegisterPdu, BarePause,
         BareFindSms, TypeOK, Goto, logVars
    <3> QED BY <1>1, <3>1, LoggedStays
  <2>3. CASE PopPdu(w) \/ BareGetSms(w) \/ BareUnRegisterSms(w)
    <3>1. /\ UNCHANGED <<updates, submits, settled>>
          /\ pc'[w] \notin {"unreg", "resume"}
          /\ \A v \in Workers : v # w
               => /\ pc'[v] = pc[v] /\ wSms'[v] = wSms[v]
                  /\ wTry'[v] = wTry[v]
      BY <2>3 DEF PopPdu, BareGetSms, BareUnRegisterSms, TypeOK, Goto, logVars
    <3> QED BY <1>1, <3>1, LoggedStays
  <2>4. CASE AnswerFindSms(w)
    <3>1. /\ UNCHANGED <<updates, submits, settled, wSms, wTry>>
          /\ \A v \in Workers : v # w => pc'[v] = pc[v]
          /\ pc[w] = "ufind"
          /\ pc'[w] = IF Registered(wSeq[w]) THEN "uget" ELSE "unreg"
      BY <2>4 DEF AnswerFindSms, TypeOK, Goto, logVars
    <3>2. EntryIs(wSeq[w], wSms[w], wTry[w])
      BY <3>1 DEF Traces, Filed, FiledFor, HasNumber, AnswerPcs
    <3>3. wTry[w] = 1 => pc'[w] = "uget"
      BY <3>1, <3>2 DEF EntryIs
    <3> QED BY <1>1, <3>1, <3>3, LoggedStays
  <2>5. CASE AnswerUnRegisterSms(w)
    <3>1. /\ UNCHANGED <<updates, submits, settled, wSms, wTry>>
          /\ \A v \in Workers : v # w => pc'[v] = pc[v]
          /\ pc[w] = "unreg"
      BY <2>5 DEF AnswerUnRegisterSms, TypeOK, Goto, logVars
    <3> QED BY <1>1, <3>1, LoggedStays
  <2> QED
    BY <1>3, <2>1, <2>2, <2>3, <2>4, <2>5, UpdateLogged, ResumeLogged,
       WriteLogged
       DEF Worker, SendSubmitSm, OnReceivePdu
<1> QED BY <1>2, <1>3 DEF Next

-----------------------------------------------------------------------------
(* The counter never comes back from a wrap, so that what holds before a   *)
(* wrap need only be kept by the steps that do not wrap.                   *)
LEMMA WrapIsForGood ==
  ASSUME TypeOK, [Next]_vars, ~wrapped'
  PROVE  ~wrapped
<1>1. CASE SessionStart \/ \E w \in Workers : TakeSequenceNumber(w)
  BY <1>1, NumbersGrow DEF SessionStart, TakeSequenceNumber
<1>2. CASE UNCHANGED wrapped
  BY <1>2
<1>3. ASSUME NEW w \in Workers, Worker(w), ~TakeSequenceNumber(w)
      PROVE  UNCHANGED wrapped
  BY <1>3 DEF Worker, TakeSendTask, TakeRecvTask, SendOneSms, CheckSendable,
     EnqueueMissedEvent, CheckSendQueue, PopSms, RegisterSms, SendSubmitSm,
     SubmitCheckState, SubmitRegisterPdu, SubmitWrite, SubmitFindSms,
     SubmitGetSms, OnReceivePdu, CheckReceiveQueue, PopPdu,
     AnswerUnRegisterPdu,
     AnswerFindSms, AnswerUpdate, AnswerUnRegisterSms, AnswerResume, BarePause,
     BareFindSms, BareGetSms, BareUnRegisterSms, seqVars
<1>4. CASE \/ \E c \in Campaigns : Campaign(c)
           \/ Finished \/ UNCHANGED vars
           \/ Reader \/ SessionStop \/ SessionBound \/ SmscAnswer
           \/ ConnectionLost
  BY <1>2, <1>4 DEF Campaign, PassGate, PauseQueueing, SendSmsPush,
     SendSmsPost,
     Finished, Reader, ReadPush, ReadPost, ReadEnd, SessionStop, SessionBound,
     SmscAnswer, ConnectionLost, vars, seqVars
<1> QED BY <1>1, <1>2, <1>3, <1>4 DEF Next, Session

LEMMA InitTraces ==
  ASSUME Init
  PROVE  Traces
<1> USE DEF Init
<1>1. Len(sendQueue) = 0 /\ Len(receiveQueue) = 0
  BY EmptySeq
<1>2. Queued = {} /\ Read = {} /\ Flying = {}
  BY <1>1 DEF Queued, Read, Flying
<1>3. \A w \in Workers : ~HasSms(w) /\ ~HasNumber(w) /\ pc[w] = "idle"
  BY DEF HasSms, HasNumber, SubmitOrReg, AnswerPcs
<1>4. \A c \in Campaigns : ~Pushes(c)
  BY DEF Pushes
<1>5. RowsApart
  BY <1>2, <1>3, <1>4 DEF RowsApart
<1>6. ParcelsApart
  BY <1>2, <1>3 DEF ParcelsApart
<1>7. Accounts
  BY <1>2, <1>3, <1>4 DEF Accounts, AccountFits, SubmitOrReg, AnswerPcs
<1>8. Filed
  BY <1>2, <1>3 DEF Filed, FramesFiled, FiledFor
<1>9. Logged
  BY <1>3 DEF Logged
<1> QED BY <1>5, <1>6, <1>7, <1>8, <1>9 DEF Traces

(* The inductive invariant: until the counter wraps, every row, number,    *)
(* entry, account and update is where the pipeline's steps left it.        *)
THEOREM TracesAreKept == Spec => []Traced
<1>1. Init => Traced
  BY InitTraces DEF Traced
<1>2. TypeOK /\ Traced /\ [Next]_vars => Traced'
  <2> SUFFICES ASSUME TypeOK, Traced, [Next]_vars, ~wrapped' PROVE Traces'
    BY DEF Traced
  <2>1. Traces
    BY WrapIsForGood DEF Traced
  <2> QED
    BY <2>1, StepKeepsRows, StepKeepsParcels, StepKeepsAccounts,
       StepKeepsFiled, StepKeepsLogged DEF Traces
<1> QED BY <1>1, <1>2, TypeCorrect, PTL DEF Spec
(* An answer finds its SMS, and its update names its SMS's row or none.    *)
THEOREM AnswersAreTheirOwn == Spec => []NeverMisattributed
<1>1. Traced => NeverMisattributed
  <2> SUFFICES ASSUME Traces PROVE FirstAnswerFindsItsSms /\ NoForeignUpdate
    BY DEF Traced, NeverMisattributed, FirstAnswerFindsItsSms, NoForeignUpdate
  <2>1. \A p \in atSmsc \union inbound \union RangeOf(receiveQueue) :
          p.try = 1 => Registered(p.seq) /\ sendSmsMap[p.seq] = p.sms
    BY DEF Traces, Filed, FramesFiled, Flying, Read, RangeOf, EntryIs
  <2>2. \A w \in Workers : Handling(w) /\ wTry[w] = 1
          => Registered(wSeq[w]) /\ sendSmsMap[wSeq[w]] = wSms[w]
    BY DEF Traces, Filed, FiledFor, Handling, HasNumber, AnswerPcs, EntryIs
  <2> QED
    BY <2>1, <2>2 DEF FirstAnswerFindsItsSms, NoForeignUpdate, Traces, Logged
<1> QED BY <1>1, TracesAreKept, PTL

(* However many bare headers the SMSC answers with, an SMS is written at   *)
(* most twice: the resend erases the entry that a further resend needs.    *)
THEOREM ResendsAreBounded == Spec => []AtMostOneResend
<1>1. Traced => AtMostOneResend
  BY DEF Traced, Traces, Accounts, AtMostOneResend
<1> QED BY <1>1, TracesAreKept, PTL

(* An SMS that was written once and whose answer was decoded and processed *)
(* has had its update queued.                                              *)
THEOREM AcceptedAreRecorded == Spec => []AcceptedIsRecorded
<1>1. Traced => AcceptedIsRecorded
  BY DEF Traced, Traces, Logged, Recorded, AcceptedIsRecorded
<1> QED BY <1>1, TracesAreKept, PTL

-----------------------------------------------------------------------------
(* No SMS is forgotten. *)

(* While no connection was ever lost, the session stays up and bound, so   *)
(* SendSubmitSm drops nothing.                                             *)
THEOREM NeverDownUndropped == Spec => []DownOnlyAfterDrop
<1>1. Init => DownOnlyAfterDrop
  BY DEF Init, DownOnlyAfterDrop
<1>2. TypeOK /\ DownOnlyAfterDrop /\ [Next]_vars => DownOnlyAfterDrop'
  <2> SUFFICES ASSUME TypeOK, DownOnlyAfterDrop, [Next]_vars
               PROVE  DownOnlyAfterDrop'
    OBVIOUS
  <2> USE DEF DownOnlyAfterDrop, netVars, sessionVars
  <2>1. ASSUME NEW w \in Workers, Worker(w) PROVE DownOnlyAfterDrop'
    <3>1. CASE SubmitWrite(w)
      BY <3>1 DEF SubmitWrite
    <3>2. CASE ~SubmitWrite(w)
      BY <2>1, <3>2 DEF Worker, TakeSendTask, TakeRecvTask, SendOneSms,
         CheckSendable, EnqueueMissedEvent, CheckSendQueue, PopSms,
         TakeSequenceNumber, RegisterSms, SendSubmitSm, SubmitCheckState,
         SubmitRegisterPdu, SubmitFindSms, SubmitGetSms, OnReceivePdu,
         CheckReceiveQueue, PopPdu, AnswerUnRegisterPdu, AnswerFindSms,
         AnswerUpdate, AnswerUnRegisterSms, AnswerResume, BarePause,
         BareFindSms, BareGetSms, BareUnRegisterSms
    <3> QED BY <3>1, <3>2
  <2>2. CASE ConnectionLost
    <3>1. drops \in 0 .. MaxDrops /\ drops' = drops + 1 /\ MaxDrops \in Nat
      BY <2>2, ConstantsAssumption DEF ConnectionLost, TypeOK
    <3> QED BY <3>1
  <2>3. CASE \/ \E c \in Campaigns : Campaign(c)
             \/ Finished \/ UNCHANGED vars \/ SmscAnswer \/ Reader
    BY <2>3 DEF Campaign, PassGate, PauseQueueing, SendSmsPush, SendSmsPost,
       Finished, Reader, ReadPush, ReadPost, ReadEnd, SmscAnswer, vars
  <2>4. CASE Session
    BY <2>4 DEF Session, SessionStop, SessionStart, SessionBound
  <2> QED BY <2>1, <2>2, <2>3, <2>4 DEF Next
<1> QED BY <1>1, <1>2, TypeCorrect, PTL DEF Spec

FiledSms == {sendSmsMap[q] : q \in DOMAIN sendSmsMap}
InSight(s) == \/ submits[s] > 0
              \/ HeldByCampaign(s) \/ HeldByWorker(s)
              \/ s \in RangeOf(sendQueue)
              \/ drops > 0 /\ s \in FiledSms

(* The map loses an SMS only with the answer to it. *)
LEMMA FiledUntilAnswered ==
  ASSUME TypeOK, Traces, NEW w \in Workers, NEW s \in Sms, UNCHANGED submits,
         wSms[w] \in Data, HasNumber(w), pc[w] \in AnswerPcs \ {"resume"},
         UnRegisterSmsData(wSeq[w]), s \in FiledSms
  PROVE  s \in FiledSms' \/ submits'[s] > 0
<1>1. PICK q \in DOMAIN sendSmsMap : sendSmsMap[q] = s
  BY DEF FiledSms
<1>2. CASE q # wSeq[w]
  BY <1>1, <1>2 DEF UnRegisterSmsData, FiledSms
<1>3. CASE q = wSeq[w]
  <2>1. /\ EntryIs(wSeq[w], wSms[w], wTry[w])
        /\ Written(wSms[w], wTry[w], wTry[w])
    BY DEF Traces, Filed, FiledFor, Accounts, AccountFits, AnswerPcs
  <2>2. wTry[w] = 1 /\ wSms[w] = s
    BY <1>1, <1>3, <2>1, ConstantsAssumption DEF EntryIs, Registered
  <2> QED BY <2>1, <2>2 DEF Written
<1> QED BY <1>2, <1>3

(* What SendSubmitSm drops has been written before, or is filed. *)
LEMMA DroppedIsFiled ==
  ASSUME TypeOK, Traces, DownOnlyAfterDrop, NEW w \in Workers,
         pc[w] \in {"state", "write"}, ~conn \/ esmeState # "ST_BIND",
         wSms[w] \in Sms
  PROVE  submits[wSms[w]] > 0 \/ (drops > 0 /\ wSms[w] \in FiledSms)
<1>1. /\ EntryIs(wSeq[w], wSms[w], wTry[w])
      /\ Written(wSms[w], wTry[w], wTry[w] - 1)
  BY DEF Traces, Filed, FiledFor, Accounts, AccountFits, HasNumber, SubmitOrReg
<1>2. wTry[w] \in Nat \ {0} /\ submits[wSms[w]] \in Nat
  BY DEF TypeOK
<1>3. CASE wTry[w] = 1
  BY <1>1, <1>3 DEF EntryIs, Registered, FiledSms, DownOnlyAfterDrop
<1>4. CASE wTry[w] # 1
  BY <1>1, <1>2, <1>4 DEF Written
<1> QED BY <1>3, <1>4
(* An SMS in sight stays in sight, wherever it is: counted as written ...  *)
LEMMA CountersGrow ==
  ASSUME TypeOK, NEW s \in Sms, [Next]_vars
  PROVE  /\ submits[s] > 0 => submits'[s] > 0
         /\ drops > 0 => drops' > 0
<1> USE DEF logVars, netVars
<1>1. submits[s] \in Nat /\ drops \in Nat
  BY ConstantsAssumption DEF TypeOK
<1>2. ASSUME NEW w \in Workers, SubmitWrite(w)
      PROVE  (submits[s] > 0 => submits'[s] > 0) /\ drops' = drops
  <2>1. drops' = drops /\ (\/ submits' = submits
                           \/ submits' = [submits EXCEPT ![wSms[w]] = @ + 1])
    BY <1>2 DEF SubmitWrite
  <2>2. submits'[s] = submits[s] \/ submits'[s] = submits[s] + 1
    BY <2>1 DEF TypeOK
  <2> QED BY <1>1, <2>1, <2>2
<1>3. CASE ConnectionLost
  BY <1>1, <1>3 DEF ConnectionLost
<1>4. ASSUME NEW w \in Workers, Worker(w), ~SubmitWrite(w)
      PROVE  UNCHANGED <<submits, drops>>
  BY <1>4 DEF Worker, TakeSendTask, TakeRecvTask, SendOneSms, CheckSendable,
     EnqueueMissedEvent, CheckSendQueue, PopSms, TakeSequenceNumber,
     RegisterSms,
     SendSubmitSm, SubmitCheckState, SubmitRegisterPdu, SubmitFindSms,
     SubmitGetSms, OnReceivePdu, CheckReceiveQueue, PopPdu,
     AnswerUnRegisterPdu,
     AnswerFindSms, AnswerUpdate, AnswerUnRegisterSms, AnswerResume, BarePause,
     BareFindSms, BareGetSms, BareUnRegisterSms
<1>5. CASE \/ \E c \in Campaigns : Campaign(c)
           \/ Finished \/ UNCHANGED vars \/ Reader \/ Session \/ SmscAnswer
  BY <1>5 DEF Campaign, PassGate, PauseQueueing, SendSmsPush, SendSmsPost,
     Finished, Reader, ReadPush, ReadPost, ReadEnd, Session, SessionStop,
     SessionStart, SessionBound, SmscAnswer, vars
<1> QED BY <1>2, <1>3, <1>4, <1>5 DEF Next

(* ... filed in sendSmsMap ...                                             *)
LEMMA FiledStays ==
  ASSUME TypeOK, Traces, NEW s \in Sms, [Next]_vars, s \in FiledSms
  PROVE  s \in FiledSms' \/ submits'[s] > 0
<1>1. CASE UNCHANGED sendSmsMap
  BY <1>1 DEF FiledSms
<1>2. ASSUME NEW w \in Workers,
             \/ RegisterSms(w) \/ SubmitGetSms(w) \/ AnswerUpdate(w)
             \/ BareGetSms(w)
      PROVE  s \in FiledSms'
  <2>1. PICK d : RegisterSmsData(wSeq[w], d)
    BY <1>2 DEF RegisterSms, SubmitGetSms, AnswerUpdate, BareGetSms,
       LookupInserts
  <2>2. PICK q \in DOMAIN sendSmsMap : sendSmsMap[q] = s
    BY DEF FiledSms
  <2>3. q \in DOMAIN sendSmsMap' /\ sendSmsMap'[q] = s
    BY <2>1, <2>2 DEF RegisterSmsData, Registered
  <2> QED BY <2>3 DEF FiledSms
<1>3. ASSUME NEW w \in Workers, AnswerUnRegisterSms(w) \/ BareUnRegisterSms(w)
      PROVE  s \in FiledSms' \/ submits'[s] > 0
  <2>1. /\ UnRegisterSmsData(wSeq[w]) /\ UNCHANGED submits
        /\ pc[w] \in {"unreg", "xunreg"}
    BY <1>3 DEF AnswerUnRegisterSms, BareUnRegisterSms, logVars
  <2>2. wSms[w] \in Data /\ HasNumber(w) /\ pc[w] \in AnswerPcs \ {"resume"}
    BY <2>1 DEF TypeOK, HasNumber, AnswerPcs
  <2> QED BY <2>1, <2>2, FiledUntilAnswered
<1>4. ASSUME NEW w \in Workers, Worker(w),
             ~RegisterSms(w), ~SubmitGetSms(w), ~AnswerUpdate(w),
             ~BareGetSms(w), ~AnswerUnRegisterSms(w), ~BareUnRegisterSms(w)
      PROVE  UNCHANGED sendSmsMap
  BY <1>4 DEF Worker, TakeSendTask, TakeRecvTask, SendOneSms, CheckSendable,
     EnqueueMissedEvent, CheckSendQueue, PopSms, TakeSequenceNumber,
     SendSubmitSm, SubmitCheckState, SubmitRegisterPdu, SubmitWrite,
     SubmitFindSms, OnReceivePdu, CheckReceiveQueue, PopPdu,
     AnswerUnRegisterPdu, AnswerFindSms, AnswerResume, BarePause, BareFindSms,
     mapVars
<1>5. CASE \/ \E c \in Campaigns : Campaign(c)
           \/ Finished \/ UNCHANGED vars
           \/ Reader \/ Session \/ SmscAnswer \/ ConnectionLost
  BY <1>1, <1>5 DEF Campaign, PassGate, PauseQueueing, SendSmsPush,
     SendSmsPost,
     Finished, Reader, ReadPush, ReadPost, ReadEnd, Session, SessionStop,
     SessionStart, SessionBound, SmscAnswer, ConnectionLost, vars, mapVars
<1> QED BY <1>1, <1>2, <1>3, <1>4, <1>5 DEF Next

(* ... with a campaign thread or in sendQueue ...                          *)
LEMMA QueuedStays ==
  ASSUME TypeOK, NEW s \in Sms, [Next]_vars,
         HeldByCampaign(s) \/ s \in RangeOf(sendQueue)
  PROVE  InSight(s)'
<1>1. SUFFICES \/ HeldByCampaign(s)' \/ s \in RangeOf(sendQueue')
               \/ HeldByWorker(s)'
  BY DEF InSight
<1>2. CASE UNCHANGED <<toSend, cpc, cSms, sendQueue>>
  BY <1>2 DEF HeldByCampaign
<1>3. ASSUME NEW c \in Campaigns, PassGate(c)
      PROVE  \/ HeldByCampaign(s)' \/ s \in RangeOf(sendQueue')
  <2>1. PICK r \in toSend : toSend' = toSend \ {r}
                            /\ cSms' = [cSms EXCEPT ![c] = r]
    BY <1>3 DEF PassGate
  <2>2. /\ cpc[c] = "gate" /\ cpc' = [cpc EXCEPT ![c] = "push"]
        /\ UNCHANGED sendQueue
    BY <1>3 DEF PassGate, queueVars
  <2> QED BY <2>1, <2>2 DEF HeldByCampaign, TypeOK
<1>4. ASSUME NEW c \in Campaigns, SendSmsPush(c)
      PROVE  \/ HeldByCampaign(s)' \/ s \in RangeOf(sendQueue')
  <2>1. /\ Len(sendQueue') = Len(sendQueue) + 1 /\ Len(sendQueue) \in Nat
        /\ sendQueue'[Len(sendQueue) + 1] = cSms[c]
        /\ \A i \in 1 .. Len(sendQueue) : sendQueue'[i] = sendQueue[i]
    BY <1>4, AppendProperties DEF TypeOK, SendSmsPush
  <2>2. \A i \in 1 .. Len(sendQueue) : i \in 1 .. Len(sendQueue')
    BY <2>1
  <2>3. Len(sendQueue) + 1 \in 1 .. Len(sendQueue')
    BY <2>1
  <2>4. UNCHANGED <<toSend, cSms>> /\ \A d \in Campaigns : d # c
          => cpc'[d] = cpc[d]
    BY <1>4 DEF SendSmsPush, TypeOK
  <2> QED BY <2>1, <2>2, <2>3, <2>4 DEF HeldByCampaign, RangeOf
<1>5. ASSUME NEW c \in Campaigns, SendSmsPost(c)
      PROVE  \/ HeldByCampaign(s)' \/ s \in RangeOf(sendQueue')
  BY <1>5 DEF SendSmsPost, HeldByCampaign, TypeOK
<1>6. ASSUME NEW w \in Workers, PopSms(w)
      PROVE  \/ HeldByCampaign(s)' \/ s \in RangeOf(sendQueue')
                  \/ HeldByWorker(s)'
  <2>1. /\ Len(sendQueue') = Len(sendQueue) - 1 /\ Len(sendQueue) \in Nat \ {0}
        /\ \A i \in 1 .. Len(sendQueue') : sendQueue'[i] = sendQueue[i + 1]
        /\ wSms' = [wSms EXCEPT ![w] = sendQueue[1]]
    BY <1>6, HeadTailProperties, EmptySeq DEF TypeOK, PopSms
  <2>2. pc'[w] = "seq" /\ wSms'[w] = sendQueue[1]
    BY <1>6, <2>1 DEF PopSms, TypeOK, Goto
  <2>3. ASSUME NEW i \in 1 .. Len(sendQueue), sendQueue[i] = s
        PROVE  s \in RangeOf(sendQueue') \/ HeldByWorker(s)'
    <3>1. CASE i = 1
      BY <2>2, <2>3, <3>1 DEF HeldByWorker
    <3>2. CASE i # 1
      <4>1. i - 1 \in 1 .. Len(sendQueue') /\ (i - 1) + 1 = i
        BY <2>1, <3>2
      <4>2. sendQueue'[i - 1] = s
        BY <2>1, <2>3, <4>1
      <4> QED BY <4>1, <4>2 DEF RangeOf
    <3> QED BY <3>1, <3>2
  <2>4. UNCHANGED <<toSend, cpc, cSms>>
    BY <1>6 DEF PopSms, campaignVars
  <2> QED BY <2>3, <2>4 DEF HeldByCampaign, RangeOf
<1>7. ASSUME NEW w \in Workers, Worker(w), ~PopSms(w)
      PROVE  UNCHANGED <<toSend, cpc, cSms, sendQueue>>
  BY <1>7 DEF Worker, TakeSendTask, TakeRecvTask, SendOneSms, CheckSendable,
     EnqueueMissedEvent, CheckSendQueue, TakeSequenceNumber, RegisterSms,
     SendSubmitSm, SubmitCheckState, SubmitRegisterPdu, SubmitWrite,
     SubmitFindSms, SubmitGetSms, OnReceivePdu, CheckReceiveQueue, PopPdu,
     AnswerUnRegisterPdu, AnswerFindSms, AnswerUpdate, AnswerUnRegisterSms,
     AnswerResume, BarePause, BareFindSms, BareGetSms, BareUnRegisterSms,
     campaignVars, queueVars
<1>8. CASE \/ \E c \in Campaigns : PauseQueueing(c)
           \/ Finished \/ UNCHANGED vars
           \/ Reader \/ Session \/ SmscAnswer \/ ConnectionLost
  BY <1>2, <1>8 DEF PauseQueueing, Finished, Reader, ReadPush, ReadPost,
     ReadEnd,
     Session, SessionStop, SessionStart, SessionBound, SmscAnswer,
     ConnectionLost, vars, campaignVars, queueVars
<1> QED BY <1>2, <1>3, <1>4, <1>5, <1>6, <1>7, <1>8 DEF Next, Campaign
(* ... or with a worker, until it is written or dropped.                   *)
LEMMA WorkerHolds ==
  ASSUME TypeOK, Traces, DownOnlyAfterDrop, NEW s \in Sms, [Next]_vars,
         HeldByWorker(s)
  PROVE  InSight(s)'
<1>1. PICK w \in Workers :
        wSms[w] = s /\ pc[w] \in {"seq", "reg", "state", "regpdu", "write"}
  BY DEF HeldByWorker
<1>2. CASE pc'[w] = pc[w] /\ wSms'[w] = wSms[w]
  BY <1>1, <1>2 DEF InSight, HeldByWorker
<1>3. ASSUME NEW v \in Workers, Worker(v), v # w
      PROVE  pc'[w] = pc[w] /\ wSms'[w] = wSms[w]
  BY <1>3 DEF Worker, TakeSendTask, TakeRecvTask, SendOneSms, CheckSendable,
     EnqueueMissedEvent, CheckSendQueue, PopSms, TakeSequenceNumber,
     RegisterSms,
     SendSubmitSm, SubmitCheckState, SubmitRegisterPdu, SubmitWrite,
     SubmitFindSms, SubmitGetSms, OnReceivePdu, CheckReceiveQueue, PopPdu,
     AnswerUnRegisterPdu, AnswerFindSms, AnswerUpdate, AnswerUnRegisterSms,
     AnswerResume, BarePause, BareFindSms, BareGetSms, BareUnRegisterSms,
     TypeOK, Goto
<1>4. CASE Worker(w)
  <2>1. CASE TakeSequenceNumber(w) \/ RegisterSms(w) \/ SubmitRegisterPdu(w)
    <3>1. pc'[w] \in {"reg", "state", "write"} /\ wSms' = wSms
      BY <2>1 DEF TakeSequenceNumber, RegisterSms, SubmitRegisterPdu, TypeOK,
         Goto
    <3> QED BY <1>1, <3>1 DEF InSight, HeldByWorker
  <2>2. CASE SubmitCheckState(w)
    <3>1. /\ pc[w] = "state" /\ UNCHANGED <<submits, drops, sendSmsMap, wSms>>
          /\ pc'[w] = IF esmeState = "ST_BIND" THEN "regpdu" ELSE "idle"
      BY <2>2 DEF SubmitCheckState, TypeOK, Goto, logVars, netVars, mapVars
    <3>2. CASE esmeState = "ST_BIND"
      BY <1>1, <3>1, <3>2 DEF InSight, HeldByWorker
    <3>3. CASE esmeState # "ST_BIND"
      BY <1>1, <3>1, <3>3, DroppedIsFiled DEF InSight, FiledSms
    <3> QED BY <3>2, <3>3
  <2>3. CASE SubmitWrite(w)
    <3>1. /\ pc[w] = "write" /\ UNCHANGED <<drops, sendSmsMap>>
          /\ \/ submits' = [submits EXCEPT ![s] = @ + 1]
             \/ ~conn /\ submits' = submits
      BY <1>1, <2>3, ConstantsAssumption DEF SubmitWrite, mapVars
    <3>2. CASE submits' = [submits EXCEPT ![s] = @ + 1]
      <4>1. submits[s] \in Nat /\ submits'[s] = submits[s] + 1
        BY <3>2 DEF TypeOK
      <4> QED BY <4>1 DEF InSight
    <3>3. CASE ~conn /\ submits' = submits
      BY <1>1, <3>1, <3>3, DroppedIsFiled DEF InSight, FiledSms
    <3> QED BY <3>1, <3>2, <3>3
  <2> QED
    BY <1>1, <1>4, <2>1, <2>2, <2>3 DEF Worker, TakeSendTask, TakeRecvTask,
       SendOneSms, CheckSendable, EnqueueMissedEvent, CheckSendQueue, PopSms,
       SendSubmitSm, SubmitFindSms, SubmitGetSms, OnReceivePdu,
       CheckReceiveQueue, PopPdu, AnswerUnRegisterPdu, AnswerFindSms,
       AnswerUpdate, AnswerUnRegisterSms, AnswerResume, BarePause,
       BareFindSms, BareGetSms, BareUnRegisterSms
<1>5. CASE \/ \E c \in Campaigns : Campaign(c)
           \/ Finished \/ UNCHANGED vars
           \/ Reader \/ Session \/ SmscAnswer \/ ConnectionLost
  BY <1>2, <1>5 DEF Campaign, PassGate, PauseQueueing, SendSmsPush,
     SendSmsPost,
     Finished, Reader, ReadPush, ReadPost, ReadEnd, Session, SessionStop,
     SessionStart, SessionBound, SmscAnswer, ConnectionLost, vars, workerVars
<1> QED BY <1>2, <1>3, <1>4, <1>5 DEF Next

(* An SMS that was not written yet is with a thread or in sendQueue, or a  *)
(* connection was lost and it is still filed in sendSmsMap.                *)
THEOREM NoneIsForgotten == Spec => []NoSmsForgotten
<1>1. NoSmsForgotten <=> (~wrapped => \A s \in Sms : InSight(s))
  BY DEF NoSmsForgotten, InSight, FiledSms
<1>2. Init => NoSmsForgotten
  BY <1>1 DEF Init, InSight, HeldByCampaign
<1>3. TypeOK /\ Traced /\ DownOnlyAfterDrop /\ NoSmsForgotten /\ [Next]_vars
      => NoSmsForgotten'
  <2> SUFFICES ASSUME TypeOK, Traced, DownOnlyAfterDrop, NoSmsForgotten,
                      [Next]_vars, ~wrapped', NEW s \in Sms
               PROVE  InSight(s)'
    BY DEF NoSmsForgotten, InSight, FiledSms
  <2>1. Traces /\ InSight(s)
    BY <1>1, WrapIsForGood DEF Traced
  <2>2. CASE HeldByCampaign(s) \/ s \in RangeOf(sendQueue)
    BY <2>2, QueuedStays
  <2>3. CASE HeldByWorker(s)
    BY <2>1, <2>3, WorkerHolds
  <2>4. CASE submits[s] > 0
    BY <2>4, CountersGrow DEF InSight
  <2>5. CASE drops > 0 /\ s \in FiledSms
    BY <2>1, <2>5, CountersGrow, FiledStays DEF InSight
  <2> QED BY <2>1, <2>2, <2>3, <2>4, <2>5 DEF InSight
<1> QED
  BY <1>2, <1>3, TypeCorrect, TracesAreKept, NeverDownUndropped, PTL DEF Spec
=============================================================================
