------------------------ MODULE SmsPipeline_proofs -------------------------
(* Proofs about SmsPipeline for any number of rows, campaign threads and   *)
(* pool workers, any queue limit, and any number of lost connections and   *)
(* header-only answers.                                                    *)
EXTENDS SmsPipeline, FiniteSetTheorems, SequenceTheorems, TLAPS

(* The number after Max - 1 is 1: the counter never leaves its range. *)
LEMMA SequenceNumberInRange ==
  ASSUME nextSeq \in Seqs, wrapped \in BOOLEAN, GetNewSequenceNumber
  PROVE  nextSeq' \in Seqs /\ wrapped' \in BOOLEAN
<1>1. nextSeq' \in Seqs
  BY ConstantsAssumption DEF GetNewSequenceNumber, Seqs
<1>2. wrapped' \in BOOLEAN
  BY DEF GetNewSequenceNumber
<1> QED
  BY <1>1, <1>2

(* Every step leaves the variables in their types: queues hold SMS and     *)
(* frames, sequence numbers stay below Max across the wrap, the maps are   *)
(* keyed by sequence numbers.                                              *)
THEOREM TypeCorrect == Spec => []TypeOK
<1>1. Init => TypeOK
  <2> SUFFICES ASSUME Init PROVE TypeOK
    OBVIOUS
  <2>1. 1 \in Seqs /\ 1 \in 1 .. MaxBare + 1 /\ 0 \in 0 .. MaxDrops
    BY ConstantsAssumption DEF Seqs
  <2>2. << >> \in Seq(Data) /\ << >> \in Seq(Answer)
    BY EmptySeq
  <2>3. /\ DOMAIN sendSmsMap \subseteq Seqs
        /\ sendSmsMap \in [DOMAIN sendSmsMap -> Data]
    BY DEF Init
  <2> QED
    BY <2>1, <2>2, <2>3 DEF Init, TypeOK, Data
<1>2. TypeOK /\ [Next]_vars => TypeOK'
  <2> SUFFICES ASSUME TypeOK, [Next]_vars PROVE TypeOK'
    OBVIOUS
  <2> USE ConstantsAssumption
  <2>1. ASSUME NEW c \in Campaigns, PassGate(c) PROVE TypeOK'
    BY <2>1 DEF TypeOK, PassGate, queueVars, workerVars, seqVars, mapVars,
       sessionVars, netVars, logVars, Data
  <2>2. ASSUME NEW c \in Campaigns, SendSmsPush(c) PROVE TypeOK'
    BY <2>2 DEF TypeOK, SendSmsPush, workerVars, seqVars, mapVars,
       sessionVars, netVars, logVars
  <2>3. ASSUME NEW c \in Campaigns, SendSmsPost(c) PROVE TypeOK'
    BY <2>3, SMTT(30) DEF TypeOK, SendSmsPost, workerVars, seqVars, mapVars,
       sessionVars, netVars, logVars
  <2>4. ASSUME NEW w \in Workers, SendOneSms(w) PROVE TypeOK'
    <3> USE DEF TypeOK, SendPcs, SubmitPcs, campaignVars, queueVars, seqVars,
        mapVars, sessionVars, netVars, logVars, Goto
    <3>1. CASE CheckSendable(w)
      BY <3>1 DEF CheckSendable
    <3>2. CASE EnqueueMissedEvent(w)
      BY <3>2, SMTT(30) DEF EnqueueMissedEvent
    <3>3. CASE CheckSendQueue(w)
      BY <3>3 DEF CheckSendQueue
    <3>4. CASE PopSms(w)
      BY <3>4, SMTT(30) DEF PopSms
    <3>5. CASE TakeSequenceNumber(w)
      <4>1. nextSeq' \in Seqs /\ wrapped' \in BOOLEAN
        BY <3>5, SequenceNumberInRange DEF TakeSequenceNumber
      <4>2. 1 \in 1 .. MaxBare + 1
        OBVIOUS
      <4> QED
        BY <3>5, <4>1, <4>2 DEF TakeSequenceNumber
    <3>6. CASE RegisterSms(w)
      BY <3>6 DEF RegisterSms, RegisterSmsData, Registered
    <3> QED
      BY <2>4, <3>1, <3>2, <3>3, <3>4, <3>5, <3>6 DEF SendOneSms
  <2>5. ASSUME NEW w \in Workers, SendSubmitSm(w) PROVE TypeOK'
    <3> USE DEF TypeOK, SubmitPcs, campaignVars, queueVars, seqVars, mapVars,
        sessionVars, netVars, logVars, Goto
    <3>1. CASE SubmitCheckState(w)
      BY <3>1 DEF SubmitCheckState
    <3>2. CASE SubmitRegisterPdu(w)
      BY <3>2 DEF SubmitRegisterPdu, RegisterPdu
    <3>3. CASE SubmitWrite(w)
      <4>1. [seq |-> wSeq[w], sms |-> wSms[w], try |-> wTry[w]] \in Submit
        BY DEF Submit
      <4>2. wSms[w] # NoSms => wSms[w] \in Sms
        BY DEF Data
      <4>3. submits' \in [Sms -> Nat]
        <5>1. CASE submits' = submits
          BY <5>1
        <5>2. CASE /\ wSms[w] \in Sms
                   /\ submits' = [submits EXCEPT ![wSms[w]] = @ + 1]
          BY <5>2
        <5> QED
          BY <3>3, <4>2, <5>1, <5>2 DEF SubmitWrite
      <4> QED
        BY <3>3, <4>1, <4>3 DEF SubmitWrite
    <3>4. CASE SubmitFindSms(w)
      BY <3>4 DEF SubmitFindSms
    <3>5. CASE SubmitGetSms(w)
      BY <3>5 DEF SubmitGetSms, LookupInserts, RegisterSmsData, Registered, Data
    <3> QED
      BY <2>5, <3>1, <3>2, <3>3, <3>4, <3>5 DEF SendSubmitSm
  <2>6. ASSUME NEW w \in Workers, OnReceivePdu(w) PROVE TypeOK'
    <3> USE DEF TypeOK, RecvPcs, campaignVars, queueVars, seqVars, mapVars,
        sessionVars, netVars, logVars, Goto
    <3>1. CASE CheckReceiveQueue(w)
      BY <3>1 DEF CheckReceiveQueue
    <3>2. CASE PopPdu(w)
      <4>1. Head(receiveQueue) \in Answer /\ Tail(receiveQueue) \in Seq(Answer)
        BY <3>2, HeadTailProperties DEF PopPdu
      <4>2. /\ Head(receiveQueue).sms \in Data /\ Head(receiveQueue).seq \in Seqs
            /\ Head(receiveQueue).try \in 1 .. MaxBare + 1
        BY <4>1 DEF Answer
      <4>3. pc' \in [Workers -> {"idle"} \union SendPcs \union SubmitPcs
                                \union RecvPcs]
        BY <3>2 DEF PopPdu
      <4>4. /\ wSms' \in [Workers -> Data] /\ wSeq' \in [Workers -> Seqs]
            /\ wTry' \in [Workers -> 1 .. MaxBare + 1]
        BY <3>2, <4>2 DEF PopPdu
      <4> QED
        BY <3>2, <4>1, <4>3, <4>4 DEF PopPdu
    <3>3. CASE AnswerUnRegisterPdu(w)
      BY <3>3 DEF AnswerUnRegisterPdu, UnRegisterPdu
    <3>4. CASE AnswerFindSms(w)
      BY <3>4 DEF AnswerFindSms
    <3>5. CASE AnswerUpdate(w)
      BY <3>5, SMTT(30) DEF AnswerUpdate, Lookup, LookupInserts, RegisterSmsData,
         Registered, Data
    <3>6. CASE AnswerUnRegisterSms(w)
      BY <3>6 DEF AnswerUnRegisterSms, UnRegisterSmsData
    <3>7. CASE AnswerResume(w)
      BY <3>7 DEF AnswerResume
    <3>8. CASE BarePause(w)
      BY <3>8 DEF BarePause
    <3>9. CASE BareFindSms(w)
      BY <3>9 DEF BareFindSms
    <3>10. CASE BareGetSms(w)
      BY <3>10 DEF BareGetSms, Lookup, LookupInserts, RegisterSmsData,
         Registered, Data
    <3>11. CASE BareUnRegisterSms(w)
      BY <3>11, SMTT(30) DEF BareUnRegisterSms, UnRegisterSmsData, SubmitPcs
    <3> QED
      BY <2>6, <3>1, <3>2, <3>3, <3>4, <3>5, <3>6, <3>7, <3>8, <3>9, <3>10,
         <3>11 DEF OnReceivePdu
  <2>7. ASSUME NEW w \in Workers, TakeSendTask(w) \/ TakeRecvTask(w)
        PROVE TypeOK'
    <3> USE DEF TypeOK, SendPcs, RecvPcs, campaignVars, seqVars, mapVars,
        sessionVars, netVars, logVars, Goto
    <3>1. CASE TakeSendTask(w)
      BY <3>1, SMTT(30) DEF TakeSendTask
    <3>2. CASE TakeRecvTask(w)
      BY <3>2, SMTT(30) DEF TakeRecvTask
    <3> QED
      BY <2>7, <3>1, <3>2
  <2>8. CASE Reader
    <3> USE DEF TypeOK, campaignVars, queueVars, workerVars, seqVars, mapVars,
        sessionVars, netVars, logVars
    <3>1. CASE ReadPush
      BY <3>1 DEF ReadPush
    <3>2. CASE ReadPost
      BY <3>2, SMTT(30) DEF ReadPost
    <3>3. CASE ReadEnd
      BY <3>3 DEF ReadEnd
    <3> QED
      BY <2>8, <3>1, <3>2, <3>3 DEF Reader
  <2>9. CASE Session
    <3> USE DEF TypeOK, campaignVars, queueVars, workerVars, seqVars, mapVars,
        sessionVars, netVars, logVars
    <3>1. CASE SessionStop
      BY <3>1 DEF SessionStop
    <3>2. CASE SessionStart
      <4>1. nextSeq' \in Seqs /\ wrapped' \in BOOLEAN
        BY <3>2, SequenceNumberInRange DEF SessionStart
      <4> QED
        BY <3>2, <4>1 DEF SessionStart
    <3>3. CASE SessionBound
      BY <3>3 DEF SessionBound
    <3> QED
      BY <2>9, <3>1, <3>2, <3>3 DEF Session
  <2>10. CASE SmscAnswer
    BY <2>10, SMTT(30) DEF SmscAnswer, TypeOK, Submit, Answer, campaignVars, queueVars,
       workerVars, seqVars, mapVars, sessionVars, logVars
  <2>11. CASE ConnectionLost
    <3>1. drops' \in 0 .. MaxDrops
      BY <2>11 DEF ConnectionLost, TypeOK
    <3> QED
      BY <2>11, <3>1 DEF ConnectionLost, TypeOK, campaignVars, queueVars,
         workerVars, seqVars, mapVars, sessionVars, logVars
  <2>12. CASE UNCHANGED vars
    BY <2>12 DEF TypeOK, vars, campaignVars, queueVars, workerVars, seqVars,
       mapVars, sessionVars, netVars, logVars
  <2> QED
    BY <2>1, <2>2, <2>3, <2>4, <2>5, <2>6, <2>7, <2>8, <2>9, <2>10, <2>11,
       <2>12 DEF Next, Campaign, PauseQueueing, Worker, Finished
<1> QED
  BY <1>1, <1>2, PTL DEF Spec
-----------------------------------------------------------------------------
(* How a set's size moves when one element may enter or leave it. *)
LEMMA OneElementMoves ==
  ASSUME NEW W, IsFiniteSet(W), NEW w \in W,
         NEW A \in SUBSET W, NEW B \in SUBSET W, A \ {w} = B \ {w}
  PROVE  /\ Cardinality(A) \in Nat /\ Cardinality(B) \in Nat
         /\ w \in A => Cardinality(A) > 0
         /\ (w \in A <=> w \in B) => Cardinality(B) = Cardinality(A)
         /\ w \notin A /\ w \in B => Cardinality(B) = Cardinality(A) + 1
         /\ w \in A /\ w \notin B => Cardinality(B) = Cardinality(A) - 1
<1>1. IsFiniteSet(A) /\ IsFiniteSet(B)
  BY FS_Subset
<1>2. Cardinality(A) \in Nat /\ Cardinality(B) \in Nat
  BY <1>1, FS_CardinalityType
<1>3. w \in A => Cardinality(A) > 0
  BY <1>1, <1>2, FS_EmptySet
<1>4. ASSUME w \in A <=> w \in B PROVE Cardinality(B) = Cardinality(A)
  <2>1. A = B
    BY <1>4
  <2> QED
    BY <2>1
<1>5. ASSUME w \notin A, w \in B PROVE Cardinality(B) = Cardinality(A) + 1
  <2>1. B = A \union {w}
    BY <1>5
  <2> QED
    BY <1>1, <1>5, <2>1, FS_AddElement
<1>6. ASSUME w \in A, w \notin B PROVE Cardinality(B) = Cardinality(A) - 1
  <2>1. B = A \ {w}
    BY <1>6
  <2> QED
    BY <1>1, <1>6, <2>1, FS_RemoveElement
<1> QED
  BY <1>2, <1>3, <1>4, <1>5, <1>6

(* A worker that jumps to a label moves the two sets of task holders by at *)
(* most itself.                                                            *)
LEMMA GotoMovesHolders ==
  ASSUME TypeOK, NEW w \in Workers, NEW label, Goto(w, label)
  PROVE  /\ SendHolders \in SUBSET Workers /\ SendHolders' \in SUBSET Workers
         /\ RecvHolders \in SUBSET Workers /\ RecvHolders' \in SUBSET Workers
         /\ SendHolders \ {w} = SendHolders' \ {w}
         /\ RecvHolders \ {w} = RecvHolders' \ {w}
         /\ w \in SendHolders <=> pc[w] \in {"check", "empty", "pop"}
         /\ w \in SendHolders' <=> label \in {"check", "empty", "pop"}
         /\ w \in RecvHolders <=> pc[w] \in {"rempty", "rpop"}
         /\ w \in RecvHolders' <=> label \in {"rempty", "rpop"}
<1>1. /\ pc'[w] = label
      /\ \A v \in Workers : v # w => pc'[v] = pc[v]
  BY DEF TypeOK, Goto
<1> QED
  BY <1>1 DEF SendHolders, RecvHolders

(* The same for a campaign thread and the set of those about to post. *)
LEMMA CampaignMovesPosting ==
  ASSUME TypeOK, NEW c \in Campaigns, NEW label,
         cpc' = [cpc EXCEPT ![c] = label]
  PROVE  /\ Posting \in SUBSET Campaigns /\ Posting' \in SUBSET Campaigns
         /\ Posting \ {c} = Posting' \ {c}
         /\ c \in Posting <=> cpc[c] = "post"
         /\ c \in Posting' <=> label = "post"
<1>1. /\ cpc'[c] = label
      /\ \A d \in Campaigns : d # c => cpc'[d] = cpc[d]
  BY DEF TypeOK
<1> QED
  BY <1>1 DEF Posting

LEMMA CountsAreNaturals ==
  /\ Cardinality(SendHolders) \in Nat
  /\ Cardinality(RecvHolders) \in Nat
  /\ Cardinality(Posting) \in Nat
<1>1. /\ SendHolders \subseteq Workers /\ RecvHolders \subseteq Workers
      /\ Posting \subseteq Campaigns
  BY DEF SendHolders, RecvHolders, Posting
<1> QED
  BY <1>1, ConstantsAssumption, FS_Subset, FS_CardinalityType

(* One worker step keeps the count of tasks and of queue elements equal.   *)
LEMMA WorkerKeepsCount ==
  ASSUME TypeOK, OneTaskPerItem, NEW w \in Workers, Worker(w)
  PROVE  OneTaskPerItem'
<1> DEFINE SH == Cardinality(SendHolders)
           RH == Cardinality(RecvHolders)
<1>1. ASSUME NEW label, Goto(w, label)
      PROVE  /\ SH \in Nat /\ SH' \in Nat /\ RH \in Nat /\ RH' \in Nat
             /\ pc[w] \in {"check", "empty", "pop"} => SH > 0
             /\ pc[w] \in {"rempty", "rpop"} => RH > 0
             /\ (pc[w] \in {"check", "empty", "pop"}
                 <=> label \in {"check", "empty", "pop"}) => SH' = SH
             /\ pc[w] \notin {"check", "empty", "pop"}
                /\ label \in {"check", "empty", "pop"} => SH' = SH + 1
             /\ pc[w] \in {"check", "empty", "pop"}
                /\ label \notin {"check", "empty", "pop"} => SH' = SH - 1
             /\ (pc[w] \in {"rempty", "rpop"} <=> label \in {"rempty", "rpop"})
                => RH' = RH
             /\ pc[w] \notin {"rempty", "rpop"} /\ label \in {"rempty", "rpop"}
                => RH' = RH + 1
             /\ pc[w] \in {"rempty", "rpop"} /\ label \notin {"rempty", "rpop"}
                => RH' = RH - 1
  <2>1. IsFiniteSet(Workers)
    BY ConstantsAssumption
  <2> HIDE DEF SH, RH
  <2>2. /\ SendHolders \in SUBSET Workers /\ SendHolders' \in SUBSET Workers
        /\ RecvHolders \in SUBSET Workers /\ RecvHolders' \in SUBSET Workers
        /\ SendHolders \ {w} = SendHolders' \ {w}
        /\ RecvHolders \ {w} = RecvHolders' \ {w}
        /\ w \in SendHolders <=> pc[w] \in {"check", "empty", "pop"}
        /\ w \in SendHolders' <=> label \in {"check", "empty", "pop"}
        /\ w \in RecvHolders <=> pc[w] \in {"rempty", "rpop"}
        /\ w \in RecvHolders' <=> label \in {"rempty", "rpop"}
    BY <1>1, GotoMovesHolders
  <2>3. /\ SH \in Nat /\ SH' \in Nat
        /\ w \in SendHolders => SH > 0
        /\ (w \in SendHolders <=> w \in SendHolders') => SH' = SH
        /\ w \notin SendHolders /\ w \in SendHolders' => SH' = SH + 1
        /\ w \in SendHolders /\ w \notin SendHolders' => SH' = SH - 1
    BY <2>1, <2>2, OneElementMoves DEF SH
  <2>4. /\ RH \in Nat /\ RH' \in Nat
        /\ w \in RecvHolders => RH > 0
        /\ (w \in RecvHolders <=> w \in RecvHolders') => RH' = RH
        /\ w \notin RecvHolders /\ w \in RecvHolders' => RH' = RH + 1
        /\ w \in RecvHolders /\ w \notin RecvHolders' => RH' = RH - 1
    BY <2>1, <2>2, OneElementMoves DEF RH
  <2> QED
    BY <2>2, <2>3, <2>4
<1>2. Cardinality(Posting) \in Nat
  BY CountsAreNaturals
<1>3. /\ sendTasks \in Nat /\ recvTasks \in Nat
      /\ Len(sendQueue) \in Nat /\ Len(receiveQueue) \in Nat
      /\ Len(sendQueue) = sendTasks + SH + Cardinality(Posting)
      /\ Len(receiveQueue) = recvTasks + RH + (IF rpc = "post" THEN 1 ELSE 0)
  BY DEF TypeOK, OneTaskPerItem
<1> HIDE DEF SH, RH
<1> SUFFICES /\ Len(sendQueue') = sendTasks' + SH' + Cardinality(Posting)'
             /\ Len(receiveQueue')
                   = recvTasks' + RH' + (IF rpc' = "post" THEN 1 ELSE 0)
  BY DEF OneTaskPerItem, SH, RH
<1>4. cpc' = cpc /\ rpc' = rpc
  BY DEF Worker, TakeSendTask, TakeRecvTask, SendOneSms, SendSubmitSm,
     OnReceivePdu, CheckSendable, EnqueueMissedEvent, CheckSendQueue, PopSms,
     TakeSequenceNumber, RegisterSms, SubmitCheckState, SubmitRegisterPdu,
     SubmitWrite, SubmitFindSms, SubmitGetSms, CheckReceiveQueue, PopPdu,
     AnswerUnRegisterPdu, AnswerFindSms, AnswerUpdate, AnswerUnRegisterSms,
     AnswerResume, BarePause, BareFindSms, BareGetSms, BareUnRegisterSms,
     campaignVars, netVars
<1>5. Cardinality(Posting)' = Cardinality(Posting)
  BY <1>4 DEF Posting
<1>6. CASE TakeSendTask(w)
  <2>1. Goto(w, "check") /\ pc[w] = "idle"
    BY <1>6 DEF TakeSendTask
  <2>2. SH' = SH + 1 /\ RH' = RH /\ SH \in Nat /\ RH \in Nat
    BY <1>1, <2>1
  <2> QED
    BY <1>2, <1>3, <1>4, <1>5, <1>6, <2>2 DEF TakeSendTask
<1>7. CASE TakeRecvTask(w)
  <2>1. Goto(w, "rempty") /\ pc[w] = "idle"
    BY <1>7 DEF TakeRecvTask
  <2>2. SH' = SH /\ RH' = RH + 1 /\ SH \in Nat /\ RH \in Nat
    BY <1>1, <2>1
  <2> QED
    BY <1>2, <1>3, <1>4, <1>5, <1>7, <2>2 DEF TakeRecvTask
<1>8. CASE EnqueueMissedEvent(w)
  <2>1. Goto(w, "idle") /\ pc[w] = "check"
    BY <1>8 DEF EnqueueMissedEvent
  <2>2. SH' = SH - 1 /\ RH' = RH
    BY <1>1, <2>1
  <2> QED
    BY <1>2, <1>3, <1>4, <1>5, <1>8, <2>2, <1>1, <2>1 DEF EnqueueMissedEvent
<1>9. CASE CheckSendQueue(w)
  <2>1. sendQueue # << >>
    <3>1. Goto(w, IF sendQueue = << >> THEN "idle" ELSE "pop")
          /\ pc[w] = "empty"
      BY <1>9 DEF CheckSendQueue
    <3>2. SH > 0 /\ SH \in Nat
      BY <1>1, <3>1
    <3>3. Len(sendQueue) > 0
      BY <1>2, <1>3, <3>2
    <3> QED
      BY <3>3, EmptySeq
  <2>2. Goto(w, "pop") /\ pc[w] = "empty"
    BY <1>9, <2>1 DEF CheckSendQueue
  <2>3. SH' = SH /\ RH' = RH
    BY <1>1, <2>2
  <2> QED
    BY <1>3, <1>4, <1>5, <1>9, <2>3 DEF CheckSendQueue, queueVars
<1>10. CASE PopSms(w)
  <2>1. Goto(w, "seq") /\ pc[w] = "pop"
    BY <1>10 DEF PopSms
  <2>2. SH' = SH - 1 /\ RH' = RH /\ SH \in Nat
    BY <1>1, <2>1
  <2>3. Len(sendQueue') = Len(sendQueue) - 1
    BY <1>10, HeadTailProperties DEF PopSms, TypeOK
  <2> QED
    BY <1>2, <1>3, <1>4, <1>5, <1>10, <2>2, <2>3 DEF PopSms
<1>11. CASE CheckReceiveQueue(w)
  <2>1. receiveQueue # << >>
    <3>1. Goto(w, IF receiveQueue = << >> THEN "idle" ELSE "rpop")
          /\ pc[w] = "rempty"
      BY <1>11 DEF CheckReceiveQueue
    <3>2. RH > 0 /\ RH \in Nat
      BY <1>1, <3>1
    <3>3. Len(receiveQueue) > 0
      BY <1>3, <3>2
    <3> QED
      BY <3>3, EmptySeq
  <2>2. Goto(w, "rpop") /\ pc[w] = "rempty"
    BY <1>11, <2>1 DEF CheckReceiveQueue
  <2>3. SH' = SH /\ RH' = RH
    BY <1>1, <2>2
  <2> QED
    BY <1>3, <1>4, <1>5, <1>11, <2>3 DEF CheckReceiveQueue, queueVars
<1>12. CASE PopPdu(w)
  <2>1. PICK label \in {"unregpdu", "pause"} : Goto(w, label)
    BY <1>12 DEF PopPdu
  <2>2. pc[w] = "rpop"
    BY <1>12 DEF PopPdu
  <2>3. SH' = SH /\ RH' = RH - 1 /\ RH \in Nat
    BY <1>1, <2>1, <2>2
  <2>4. Len(receiveQueue') = Len(receiveQueue) - 1
    BY <1>12, HeadTailProperties DEF PopPdu, TypeOK
  <2> QED
    BY <1>2, <1>3, <1>4, <1>5, <1>12, <2>3, <2>4 DEF PopPdu
<1>13. CASE CheckSendable(w)
  <2>1. Goto(w, "empty") /\ pc[w] = "check"
    BY <1>13 DEF CheckSendable
  <2>2. SH' = SH /\ RH' = RH
    BY <1>1, <2>1
  <2> QED
    BY <1>3, <1>4, <1>5, <1>13, <2>2 DEF CheckSendable, queueVars
<1>14. ASSUME /\ UNCHANGED queueVars
              /\ pc[w] \notin {"check", "empty", "pop", "rempty", "rpop"}
              /\ \E label : /\ Goto(w, label)
                            /\ label \notin {"check", "empty", "pop",
                                             "rempty", "rpop"}
       PROVE  /\ Len(sendQueue') = sendTasks' + SH' + Cardinality(Posting)'
              /\ Len(receiveQueue')
                    = recvTasks' + RH' + (IF rpc' = "post" THEN 1 ELSE 0)
  <2>1. PICK label : /\ Goto(w, label)
                     /\ label \notin {"check", "empty", "pop", "rempty", "rpop"}
    BY <1>14
  <2>2. SH' = SH /\ RH' = RH
    BY <1>1, <1>14, <2>1
  <2> QED
    BY <1>3, <1>4, <1>5, <1>14, <2>2 DEF queueVars
<1>15. CASE TakeSequenceNumber(w) \/ RegisterSms(w)
  BY <1>14, <1>15 DEF TakeSequenceNumber, RegisterSms
<1>16. CASE SendSubmitSm(w)
  BY <1>14, <1>16 DEF SendSubmitSm, SubmitCheckState, SubmitRegisterPdu,
     SubmitWrite, SubmitFindSms, SubmitGetSms
<1>17. CASE \/ AnswerUnRegisterPdu(w) \/ AnswerFindSms(w) \/ AnswerUpdate(w)
            \/ AnswerUnRegisterSms(w) \/ AnswerResume(w)
  BY <1>14, <1>17 DEF AnswerUnRegisterPdu, AnswerFindSms, AnswerUpdate,
     AnswerUnRegisterSms, AnswerResume
<1>18. CASE \/ BarePause(w) \/ BareFindSms(w) \/ BareGetSms(w)
            \/ BareUnRegisterSms(w)
  BY <1>14, <1>18 DEF BarePause, BareFindSms, BareGetSms, BareUnRegisterSms
<1> QED
  BY <1>6, <1>7, <1>8, <1>9, <1>10, <1>11, <1>12, <1>13, <1>15, <1>16, <1>17,
     <1>18 DEF Worker, SendOneSms, OnReceivePdu

(* Every SMS in sendQueue and every frame in receiveQueue has exactly one   *)
(* task: the campaigns, the reader and the workers that post, hold and      *)
(* consume tasks never let the two counts drift, for any number of each.    *)
THEOREM TasksMatchQueues == Spec => []OneTaskPerItem
<1>1. Init => OneTaskPerItem
  <2> SUFFICES ASSUME Init PROVE OneTaskPerItem
    OBVIOUS
  <2>1. SendHolders = {} /\ RecvHolders = {} /\ Posting = {}
    BY DEF Init, SendHolders, RecvHolders, Posting
  <2>2. Cardinality({}) = 0
    BY FS_EmptySet
  <2> QED
    BY <2>1, <2>2 DEF Init, OneTaskPerItem
<1>2. TypeOK /\ OneTaskPerItem /\ [Next]_vars => OneTaskPerItem'
  <2> SUFFICES ASSUME TypeOK, OneTaskPerItem, [Next]_vars
               PROVE  OneTaskPerItem'
    OBVIOUS
  <2>1. /\ Cardinality(SendHolders) \in Nat /\ Cardinality(RecvHolders) \in Nat
        /\ Cardinality(Posting) \in Nat
    BY CountsAreNaturals
  <2>2. /\ sendTasks \in Nat /\ recvTasks \in Nat
        /\ Len(sendQueue) \in Nat /\ Len(receiveQueue) \in Nat
    BY DEF TypeOK
  <2>3. ASSUME NEW c \in Campaigns, Campaign(c) PROVE OneTaskPerItem'
    <3>1. CASE UNCHANGED vars
      BY <3>1 DEF OneTaskPerItem, SendHolders, RecvHolders, Posting, vars,
         campaignVars, queueVars, workerVars, netVars
    <3>2. CASE PassGate(c) \/ SendSmsPush(c) \/ SendSmsPost(c)
      <4>1. SendHolders' = SendHolders /\ RecvHolders' = RecvHolders
        BY <3>2 DEF PassGate, SendSmsPush, SendSmsPost, SendHolders,
           RecvHolders, workerVars
      <4>2. rpc' = rpc /\ receiveQueue' = receiveQueue /\ recvTasks' = recvTasks
        BY <3>2 DEF PassGate, SendSmsPush, SendSmsPost, queueVars, netVars
      <4>3. ASSUME NEW label, cpc' = [cpc EXCEPT ![c] = label]
            PROVE  /\ Cardinality(Posting') \in Nat
                   /\ (cpc[c] = "post" <=> label = "post")
                      => Cardinality(Posting') = Cardinality(Posting)
                   /\ cpc[c] # "post" /\ label = "post"
                      => Cardinality(Posting') = Cardinality(Posting) + 1
                   /\ cpc[c] = "post" /\ label # "post"
                      => Cardinality(Posting') = Cardinality(Posting) - 1
        <5>1. /\ Posting \in SUBSET Campaigns /\ Posting' \in SUBSET Campaigns
              /\ Posting \ {c} = Posting' \ {c}
              /\ c \in Posting <=> cpc[c] = "post"
              /\ c \in Posting' <=> label = "post"
          BY <4>3, CampaignMovesPosting
        <5> QED
          BY <5>1, OneElementMoves, ConstantsAssumption
      <4>4. CASE PassGate(c)
        <5>1. /\ cpc' = [cpc EXCEPT ![c] = "push"]
              /\ cpc[c] # "post" /\ "push" # "post"
          BY <4>4 DEF PassGate
        <5>2. Cardinality(Posting') = Cardinality(Posting)
          BY <4>3, <5>1
        <5> QED
          BY <4>1, <4>2, <4>4, <5>2 DEF PassGate, OneTaskPerItem, queueVars
      <4>5. CASE SendSmsPush(c)
        <5>1. cpc[c] = "push" /\ cpc' = [cpc EXCEPT ![c] = "post"]
          BY <4>5 DEF SendSmsPush
        <5>2. Cardinality(Posting') = Cardinality(Posting) + 1
          BY <4>3, <5>1
        <5>3. Len(sendQueue') = Len(sendQueue) + 1
          BY <4>5, AppendProperties DEF SendSmsPush, TypeOK
        <5> QED
          BY <2>1, <2>2, <4>1, <4>2, <4>5, <5>2, <5>3
             DEF SendSmsPush, OneTaskPerItem
      <4>6. CASE SendSmsPost(c)
        <5>1. /\ cpc' = [cpc EXCEPT ![c] = "gate"]
              /\ cpc[c] = "post" /\ "gate" # "post"
          BY <4>6 DEF SendSmsPost
        <5>2. Cardinality(Posting') = Cardinality(Posting) - 1
          BY <4>3, <5>1
        <5> QED
          BY <2>1, <2>2, <4>1, <4>2, <4>6, <5>2 DEF SendSmsPost, OneTaskPerItem
      <4> QED
        BY <3>2, <4>4, <4>5, <4>6
    <3> QED
      BY <2>3, <3>1, <3>2 DEF Campaign, PauseQueueing
  <2>4. ASSUME NEW w \in Workers, Worker(w) PROVE OneTaskPerItem'
    BY <2>4, WorkerKeepsCount
  <2>5. CASE ReadPush \/ ReadPost
    <3>1. /\ SendHolders' = SendHolders /\ RecvHolders' = RecvHolders
          /\ Posting' = Posting /\ sendQueue' = sendQueue
          /\ sendTasks' = sendTasks
      BY <2>5 DEF ReadPush, ReadPost, SendHolders, RecvHolders, Posting,
         workerVars, campaignVars
    <3>2. CASE ReadPush
      <4>1. Len(receiveQueue') = Len(receiveQueue) + 1
        BY <3>2, AppendProperties DEF ReadPush, TypeOK
      <4> QED
        BY <2>1, <2>2, <3>1, <3>2, <4>1 DEF ReadPush, OneTaskPerItem
    <3>3. CASE ReadPost
      BY <2>1, <2>2, <3>1, <3>3 DEF ReadPost, OneTaskPerItem
    <3> QED
      BY <2>5, <3>2, <3>3
  <2>6. CASE \/ ReadEnd \/ Session \/ SmscAnswer \/ ConnectionLost
             \/ Finished \/ UNCHANGED vars
    BY <2>6 DEF ReadEnd, Session, SessionStop, SessionStart, SessionBound,
       SmscAnswer, ConnectionLost, Finished, vars, OneTaskPerItem, SendHolders,
       RecvHolders, Posting, workerVars, campaignVars, queueVars, netVars
  <2> QED
    BY <2>3, <2>4, <2>5, <2>6 DEF Next, Reader
<1> QED
  BY <1>1, <1>2, TypeCorrect, PTL DEF Spec

(* No worker that has passed the unlocked empty() test pops an empty queue. *)
THEOREM PopsAreSafe == Spec => []PopNeverEmpty
<1>1. TypeOK /\ OneTaskPerItem => PopNeverEmpty
  <2> SUFFICES ASSUME TypeOK, OneTaskPerItem, NEW w \in Workers
               PROVE  /\ pc[w] = "pop" => sendQueue # << >>
                      /\ pc[w] = "rpop" => receiveQueue # << >>
    BY DEF PopNeverEmpty
  <2>1. /\ Cardinality(SendHolders) \in Nat /\ Cardinality(RecvHolders) \in Nat
        /\ Cardinality(Posting) \in Nat /\ sendTasks \in Nat /\ recvTasks \in Nat
    BY CountsAreNaturals DEF TypeOK
  <2>2. /\ IsFiniteSet(Workers)
        /\ SendHolders \in SUBSET Workers /\ RecvHolders \in SUBSET Workers
    BY ConstantsAssumption DEF SendHolders, RecvHolders
  <2>3. ASSUME pc[w] = "pop" PROVE sendQueue # << >>
    <3>1. w \in SendHolders
      BY <2>3 DEF SendHolders
    <3>2. Cardinality(SendHolders) > 0
      BY <2>2, <3>1, OneElementMoves
    <3> QED
      BY <2>1, <3>2 DEF OneTaskPerItem
  <2>4. ASSUME pc[w] = "rpop" PROVE receiveQueue # << >>
    <3>1. w \in RecvHolders
      BY <2>4 DEF RecvHolders
    <3>2. Cardinality(RecvHolders) > 0
      BY <2>2, <3>1, OneElementMoves
    <3> QED
      BY <2>1, <3>2 DEF OneTaskPerItem
  <2> QED
    BY <2>3, <2>4
<1> QED
  BY <1>1, TypeCorrect, TasksMatchQueues, PTL

(* Tasks and elements match, so that no pop fails. *)
THEOREM TasksAreMatched == Spec => []TasksMatchItems
<1>1. OneTaskPerItem /\ PopNeverEmpty => TasksMatchItems
  BY DEF TasksMatchItems
<1> QED BY <1>1, TasksMatchQueues, PopsAreSafe, PTL

-----------------------------------------------------------------------------
(* The gate lets a campaign thread through while the queue is within its    *)
(* limit, and the thread pushes later: the inductive form counts the        *)
(* threads that are through and have not pushed.                            *)
Pushing == {c \in Campaigns : cpc[c] = "push"}
GateInv == Len(sendQueue) + Cardinality(Pushing)
             <= QueueLimit + Cardinality(Campaigns)

LEMMA CampaignMovesPushing ==
  ASSUME TypeOK, NEW c \in Campaigns,
         NEW label \in {"gate", "push", "post"},
         cpc' = [cpc EXCEPT ![c] = label]
  PROVE  /\ Cardinality(Pushing) \in Nat /\ Cardinality(Pushing') \in Nat
         /\ (cpc[c] = "push" <=> label = "push")
            => Cardinality(Pushing') = Cardinality(Pushing)
         /\ cpc[c] = "push" /\ label # "push"
            => Cardinality(Pushing') = Cardinality(Pushing) - 1
<1>1. /\ cpc'[c] = label
      /\ \A d \in Campaigns : d # c => cpc'[d] = cpc[d]
  BY DEF TypeOK
<1>2. /\ Pushing \in SUBSET Campaigns /\ Pushing' \in SUBSET Campaigns
      /\ Pushing \ {c} = Pushing' \ {c}
      /\ c \in Pushing <=> cpc[c] = "push"
      /\ c \in Pushing' <=> label = "push"
  BY <1>1 DEF Pushing
<1> QED
  BY <1>2, OneElementMoves, ConstantsAssumption

(* sendQueue exceeds SMS_CAMPAIGN_QUEUE_SIZE by at most one SMS per         *)
(* campaign thread, although the gate's size check takes no lock.           *)
THEOREM QueueStaysBounded == Spec => []SendQueueBounded
<1>1. Init => GateInv
  <2> SUFFICES ASSUME Init PROVE GateInv
    OBVIOUS
  <2>1. Pushing = {}
    BY DEF Init, Pushing
  <2>2. Cardinality({}) = 0 /\ Cardinality(Campaigns) \in Nat
    BY FS_EmptySet, FS_CardinalityType, ConstantsAssumption
  <2> QED
    BY <2>1, <2>2, ConstantsAssumption DEF Init, GateInv
<1>2. TypeOK /\ GateInv /\ [Next]_vars => GateInv'
  <2> SUFFICES ASSUME TypeOK, GateInv, [Next]_vars PROVE GateInv'
    OBVIOUS
  <2>1. /\ Pushing' \subseteq Campaigns /\ Pushing \subseteq Campaigns
        /\ Cardinality(Campaigns) \in Nat /\ Cardinality(Pushing') \in Nat
        /\ Cardinality(Pushing') <= Cardinality(Campaigns)
        /\ Cardinality(Pushing) \in Nat
    <3>1. Pushing' \subseteq Campaigns /\ Pushing \subseteq Campaigns
      BY DEF Pushing
    <3> QED
      BY <3>1, FS_Subset, FS_CardinalityType, ConstantsAssumption
  <2>2. Len(sendQueue) \in Nat
    BY DEF TypeOK
  <2>3. ASSUME NEW c \in Campaigns, PassGate(c) PROVE GateInv'
    BY <2>1, <2>2, <2>3, ConstantsAssumption DEF PassGate, GateInv, queueVars
  <2>4. ASSUME NEW c \in Campaigns, SendSmsPush(c) PROVE GateInv'
    <3>1. cpc[c] = "push" /\ cpc' = [cpc EXCEPT ![c] = "post"]
      BY <2>4 DEF SendSmsPush
    <3>2. Cardinality(Pushing') = Cardinality(Pushing) - 1
      BY <3>1, CampaignMovesPushing
    <3>3. Len(sendQueue') = Len(sendQueue) + 1
      BY <2>4, AppendProperties DEF SendSmsPush, TypeOK
    <3> QED
      BY <2>1, <2>2, <3>2, <3>3 DEF GateInv
  <2>5. ASSUME NEW c \in Campaigns, SendSmsPost(c) PROVE GateInv'
    <3>1. cpc[c] = "post" /\ cpc' = [cpc EXCEPT ![c] = "gate"]
      BY <2>5 DEF SendSmsPost
    <3>2. Cardinality(Pushing') = Cardinality(Pushing)
      BY <3>1, CampaignMovesPushing
    <3> QED
      BY <2>5, <3>2 DEF GateInv, SendSmsPost
  <2>6. ASSUME UNCHANGED cpc,
               \/ UNCHANGED sendQueue
               \/ sendQueue # << >> /\ sendQueue' = Tail(sendQueue)
        PROVE  GateInv'
    <3>1. Pushing' = Pushing
      BY <2>6 DEF Pushing
    <3>2. Len(sendQueue') \in Nat /\ Len(sendQueue') <= Len(sendQueue)
      BY <2>2, <2>6, HeadTailProperties DEF TypeOK
    <3> QED
      BY <2>1, <2>2, <3>1, <3>2, ConstantsAssumption DEF GateInv
  <2>7. ASSUME NEW w \in Workers, Worker(w) PROVE GateInv'
    <3>1. UNCHANGED cpc
      BY <2>7 DEF Worker, TakeSendTask, TakeRecvTask, SendOneSms, SendSubmitSm,
         OnReceivePdu, CheckSendable, EnqueueMissedEvent, CheckSendQueue,
         PopSms, TakeSequenceNumber, RegisterSms, SubmitCheckState,
         SubmitRegisterPdu, SubmitWrite, SubmitFindSms, SubmitGetSms,
         CheckReceiveQueue, PopPdu, AnswerUnRegisterPdu, AnswerFindSms,
         AnswerUpdate, AnswerUnRegisterSms, AnswerResume, BarePause,
         BareFindSms, BareGetSms, BareUnRegisterSms, campaignVars
    <3>2. \/ UNCHANGED sendQueue
          \/ sendQueue # << >> /\ sendQueue' = Tail(sendQueue)
      BY <2>7 DEF Worker, TakeSendTask, TakeRecvTask, SendOneSms, SendSubmitSm,
         OnReceivePdu, CheckSendable, EnqueueMissedEvent, CheckSendQueue,
         PopSms, TakeSequenceNumber, RegisterSms, SubmitCheckState,
         SubmitRegisterPdu, SubmitWrite, SubmitFindSms, SubmitGetSms,
         CheckReceiveQueue, PopPdu, AnswerUnRegisterPdu, AnswerFindSms,
         AnswerUpdate, AnswerUnRegisterSms, AnswerResume, BarePause,
         BareFindSms, BareGetSms, BareUnRegisterSms, queueVars
    <3> QED
      BY <2>6, <3>1, <3>2
  <2>8. CASE \/ Reader \/ Session \/ SmscAnswer \/ ConnectionLost
             \/ Finished \/ UNCHANGED vars \/ \E c \in Campaigns : PauseQueueing(c)
    BY <2>6, <2>8 DEF Reader, ReadPush, ReadPost, ReadEnd, Session,
       SessionStop, SessionStart, SessionBound, SmscAnswer, ConnectionLost,
       Finished, PauseQueueing, vars, campaignVars, queueVars
  <2> QED
    BY <2>3, <2>4, <2>5, <2>7, <2>8 DEF Next, Campaign
<1>3. TypeOK /\ GateInv => SendQueueBounded
  <2> SUFFICES ASSUME TypeOK, GateInv PROVE SendQueueBounded
    OBVIOUS
  <2>1. Pushing \subseteq Campaigns
    BY DEF Pushing
  <2>2. Cardinality(Pushing) \in Nat /\ Cardinality(Campaigns) \in Nat
    BY <2>1, FS_Subset, FS_CardinalityType, ConstantsAssumption
  <2>3. Len(sendQueue) \in Nat
    BY DEF TypeOK
  <2> QED
    BY <2>2, <2>3, ConstantsAssumption DEF GateInv, SendQueueBounded
<1> QED
  BY <1>1, <1>2, <1>3, TypeCorrect, PTL DEF Spec
=============================================================================
