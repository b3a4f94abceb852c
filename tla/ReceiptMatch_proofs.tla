------------------------ MODULE ReceiptMatch_proofs ------------------------
(***************************************************************************)
(* Theorems about ReceiptMatch, for any number of messages, workers and    *)
(* receipts and any size of the update queue.                              *)
(*                                                                         *)
(* A message has at most one answer and one receipt under way, and each is *)
(* in one place (OnePlace).  What is said of a message that was not        *)
(* crossed rests on one more fact: it is in the hands of one worker at a   *)
(* time.                                                                   *)
(***************************************************************************)
EXTENDS ReceiptMatch, FiniteSetTheorems, SequenceTheorems, TLAPS

AnswerTypes == {"ok", "nok"}
ReceiptLabels == {"findId", "takeId", "fileState"}

(* What a worker has in hand fits its place in the code. *)
HandFits(w) ==
  /\ At(w, "idle") <=> wPdu[w] \notin Pdu
  /\ At(w, "findState") => wPdu[w].type \in AnswerTypes
  /\ pc[w] \in {"takeState", "fileId"} => wPdu[w].type = "ok"
  /\ pc[w] \in ReceiptLabels => wPdu[w].type = "receipt"
  /\ At(w, "enqueue") => wQuery[w] \in Query /\ wQuery[w].sms = SmsOf(w)

Types == TypeOK /\ \A w \in Workers : HandFits(w)

-----------------------------------------------------------------------------
(* Types. *)

LEMMA PdusAreKnown ==
  /\ NoPdu \notin Pdu
  /\ \A p \in Pdu : /\ p.sms \in Sms /\ p.type \in AnswerTypes \union {"receipt"}
                    /\ p.type = "receipt" =>
                         p.state \in ReceiptStates /\ p.n \in 1 .. MaxReceipts
<1>1. NoPdu \notin Pdu
  <2>1. NoPdu.type = "none"
    BY DEF NoPdu
  <2> QED BY <2>1 DEF Pdu
<1> QED BY <1>1 DEF Pdu, AnswerTypes

LEMMA StatusesAreNat ==
  ASSUME NEW s \in Sms, NEW state \in ReceiptStates
  PROVE  /\ ReportedStatus(state) \in Nat /\ state \in Nat
         /\ \A v \in Nat : Update(s, v) \in Query /\ InsertError(s, v) \in Query
BY ReceiptAssumption DEF ReportedStatus, SMS_ST_FAILED, Update, InsertError, Query

(* A sequence after Append and after Tail, by index. *)
LEMMA QueueAppended ==
  ASSUME NEW S, NEW q \in Seq(S), NEW e \in S
  PROVE  /\ Append(q, e) \in Seq(S) /\ Len(Append(q, e)) = Len(q) + 1
         /\ \A i \in 1 .. Len(q) : Append(q, e)[i] = q[i]
         /\ Append(q, e)[Len(q) + 1] = e
BY AppendProperties

LEMMA QueueTail ==
  ASSUME NEW S, NEW q \in Seq(S), q # << >>
  PROVE  /\ Tail(q) \in Seq(S) /\ Len(Tail(q)) = Len(q) - 1 /\ Len(q) > 0
         /\ Head(q) = q[1] /\ Head(q) \in S
         /\ \A i \in 1 .. Len(Tail(q)) : Tail(q)[i] = q[i + 1]
BY HeadTailProperties, EmptySeq

LEMMA InitTypes == Init => Types
<1> SUFFICES ASSUME Init PROVE Types
  OBVIOUS
<1>1. TypeOK
  BY ReceiptAssumption DEF Init, TypeOK, SMS_ST_PICKED
<1>2. ASSUME NEW w \in Workers PROVE HandFits(w)
  BY PdusAreKnown DEF Init, HandFits, At, ReceiptLabels
<1> QED BY <1>1, <1>2 DEF Types

LEMMA StepKeepsTypes == Types /\ [Next]_vars => Types'
<1> SUFFICES ASSUME Types, [Next]_vars PROVE Types'
  OBVIOUS
<1> USE PdusAreKnown DEF Types, TypeOK, HandFits, At, SmsOf, ReceiptLabels, AnswerTypes
<1>1. ASSUME NEW s \in Sms, NEW type \in {"ok", "nok"}, Answer(s, type)
      PROVE  Types'
  <2>1. [type |-> type, sms |-> s] \in Pdu
    BY DEF Pdu
  <2> QED BY <1>1, <2>1 DEF Answer, mapVars, dbVars
<1>2. ASSUME NEW s \in Sms, Receipt(s) PROVE Types'
  <2>1. receipts[s] + 1 \in 1 .. MaxReceipts
    BY <1>2, ReceiptAssumption DEF Receipt
  <2>2. ReceiptOf(s, receipts[s] + 1) \in Pdu
    BY <2>1 DEF ReceiptOf, Pdu
  <2> QED BY <1>2, <2>1, <2>2 DEF Receipt, mapVars, dbVars
<1>3. ASSUME NEW w \in Workers, TakePdu(w) PROVE Types'
  <2>1. PICK p \in pdus :
          /\ pdus' = pdus \ {p} /\ wPdu' = [wPdu EXCEPT ![w] = p]
          /\ pc' = [pc EXCEPT ![w] =
                      IF p.type = "receipt" THEN "findId" ELSE "findState"]
          /\ crossed' = crossed \union
               {s \in {p.sms} : \E u \in Workers : Busy(u) /\ SmsOf(u) = s}
    BY <1>3 DEF TakePdu, Goto
  <2>2. p \in Pdu /\ p.sms \in Sms
    OBVIOUS
  <2>3. TypeOK'
    BY <1>3, <2>1, <2>2 DEF TakePdu, smscVars, mapVars, dbVars
  <2>4. ASSUME NEW u \in Workers PROVE HandFits(u)'
    <3>1. CASE u = w
      BY <1>3, <2>1, <2>2, <3>1 DEF TakePdu
    <3>2. CASE u # w
      BY <1>3, <2>1, <3>2 DEF TakePdu
    <3> QED BY <3>1, <3>2
  <2> QED BY <2>3, <2>4
<1>4. ASSUME NEW w \in Workers, FindState(w) PROVE Types'
  <2>1. wPdu[w] \in Pdu /\ SmsOf(w) \in Sms
    BY <1>4 DEF FindState
  <2>2. Update(SmsOf(w), SMS_ST_FAILED) \in Query
        /\ Update(SmsOf(w), SMS_ST_FAILED).sms = SmsOf(w)
    BY <2>1 DEF Update, Query, SMS_ST_FAILED
  <2>5. wQuery' \in [Workers -> Query \union {NoQuery}]
    <3> DEFINE q == Update(SmsOf(w), SMS_ST_FAILED)
    <3>1. q \in Query
      BY <2>2
    <3>2. wQuery' = wQuery \/ wQuery' = [wQuery EXCEPT ![w] = q]
      BY <1>4 DEF FindState
    <3> HIDE DEF q
    <3> QED BY <3>1, <3>2
  <2>6. pc' \in [Workers -> {"idle", "findState", "takeState", "fileId",
                            "findId", "takeId", "fileState", "enqueue"}]
    BY <1>4 DEF FindState, Goto
  <2>3. TypeOK'
    BY <1>4, <2>5, <2>6 DEF FindState, smscVars, mapVars, dbVars
  <2>4. ASSUME NEW u \in Workers PROVE HandFits(u)'
    <3>1. CASE u = w
      BY <1>4, <2>1, <2>2, <3>1 DEF FindState, Goto
    <3>2. CASE u # w
      BY <1>4, <3>2 DEF FindState, Goto
    <3> QED BY <3>1, <3>2
  <2> QED BY <2>3, <2>4
<1>5. ASSUME NEW w \in Workers, TakeState(w) PROVE Types'
  <2> DEFINE q == Update(SmsOf(w), m_vcMsgIdSyncMap[SmsOf(w)])
  <2>1. wPdu[w] \in Pdu /\ SmsOf(w) \in Sms
        /\ m_vcMsgIdSyncMap[SmsOf(w)] \in ReceiptStates
    BY <1>5 DEF TakeState
  <2>2. q \in Query /\ q.sms = SmsOf(w)
    BY <2>1, StatusesAreNat DEF Update
  <2> HIDE DEF q
  <2>5. wQuery' = [wQuery EXCEPT ![w] = q]
    BY <1>5 DEF TakeState, q
  <2>6. wQuery' \in [Workers -> Query \union {NoQuery}]
    BY <2>2, <2>5
  <2>7. DOMAIN m_vcMsgIdSyncMap' \subseteq Sms
        /\ m_vcMsgIdSyncMap' \in [DOMAIN m_vcMsgIdSyncMap' -> ReceiptStates]
    BY <1>5 DEF TakeState
  <2>3. TypeOK'
    BY <1>5, <2>6, <2>7 DEF TakeState, Goto, smscVars, dbVars
  <2>4. ASSUME NEW u \in Workers PROVE HandFits(u)'
    <3>1. wQuery' = [wQuery EXCEPT ![w] = q]
      BY <1>5 DEF TakeState, q
    <3>2. CASE u = w
      BY <1>5, <2>1, <2>2, <3>1, <3>2 DEF TakeState, Goto
    <3>3. CASE u # w
      BY <1>5, <3>1, <3>3 DEF TakeState, Goto
    <3> QED BY <3>2, <3>3
  <2> QED BY <2>3, <2>4
<1>6. ASSUME NEW w \in Workers, FileId(w) PROVE Types'
  <2> DEFINE q == Update(SmsOf(w), SMS_ST_ACKNOWLEDGED)
  <2>1. wPdu[w] \in Pdu /\ SmsOf(w) \in Sms
    BY <1>6 DEF FileId
  <2>2. q \in Query /\ q.sms = SmsOf(w)
    BY <2>1 DEF Update, Query, SMS_ST_ACKNOWLEDGED
  <2> HIDE DEF q
  <2>3. wQuery' = [wQuery EXCEPT ![w] = q]
    BY <1>6 DEF FileId, q
  <2>4. TypeOK'
    BY <1>6, <2>1, <2>2, <2>3 DEF FileId, Goto, smscVars, dbVars
  <2>5. ASSUME NEW u \in Workers PROVE HandFits(u)'
    <3>1. CASE u = w
      BY <1>6, <2>1, <2>2, <2>3, <3>1 DEF FileId, Goto
    <3>2. CASE u # w
      BY <1>6, <2>3, <3>2 DEF FileId, Goto
    <3> QED BY <3>1, <3>2
  <2> QED BY <2>4, <2>5
<1>7. ASSUME NEW w \in Workers, FindId(w) PROVE Types'
  <2>1. wPdu[w] \in Pdu /\ SmsOf(w) \in Sms
    BY <1>7 DEF FindId
  <2>2. TypeOK'
    BY <1>7, <2>1 DEF FindId, Goto, smscVars, mapVars, dbVars
  <2>3. ASSUME NEW u \in Workers PROVE HandFits(u)'
    <3>1. CASE u = w
      BY <1>7, <2>1, <3>1 DEF FindId, Goto
    <3>2. CASE u # w
      BY <1>7, <3>2 DEF FindId, Goto
    <3> QED BY <3>1, <3>2
  <2> QED BY <2>2, <2>3
<1>8. ASSUME NEW w \in Workers, TakeId(w) PROVE Types'
  <2> DEFINE q == Update(SmsOf(w), ReportedStatus(wPdu[w].state))
  <2>1. wPdu[w] \in Pdu /\ SmsOf(w) \in Sms /\ wPdu[w].state \in ReceiptStates
    BY <1>8 DEF TakeId
  <2>2. q \in Query /\ q.sms = SmsOf(w)
    BY <2>1, StatusesAreNat DEF Update
  <2> HIDE DEF q
  <2>3. wQuery' = [wQuery EXCEPT ![w] = q]
    BY <1>8 DEF TakeId, q
  <2>4. TypeOK'
    BY <1>8, <2>1, <2>2, <2>3 DEF TakeId, Goto, smscVars, dbVars
  <2>5. ASSUME NEW u \in Workers PROVE HandFits(u)'
    <3>1. CASE u = w
      BY <1>8, <2>1, <2>2, <2>3, <3>1 DEF TakeId, Goto
    <3>2. CASE u # w
      BY <1>8, <2>3, <3>2 DEF TakeId, Goto
    <3> QED BY <3>1, <3>2
  <2> QED BY <2>4, <2>5
<1>9. ASSUME NEW w \in Workers, FileState(w) PROVE Types'
  <2> DEFINE q == InsertError(SmsOf(w), ReportedStatus(wPdu[w].state))
  <2>1. wPdu[w] \in Pdu /\ SmsOf(w) \in Sms /\ wPdu[w].state \in ReceiptStates
    BY <1>9 DEF FileState
  <2>2. q \in Query /\ q.sms = SmsOf(w)
    BY <2>1, StatusesAreNat DEF InsertError
  <2> HIDE DEF q
  <2>3. wQuery' = [wQuery EXCEPT ![w] = q]
    BY <1>9 DEF FileState, q
  <2>4. TypeOK'
    BY <1>9, <2>1, <2>2, <2>3 DEF FileState, Goto, smscVars, dbVars
  <2>5. ASSUME NEW u \in Workers PROVE HandFits(u)'
    <3>1. CASE u = w
      BY <1>9, <2>1, <2>2, <2>3, <3>1 DEF FileState, Goto
    <3>2. CASE u # w
      BY <1>9, <2>3, <3>2 DEF FileState, Goto
    <3> QED BY <3>1, <3>2
  <2> QED BY <2>4, <2>5
<1>10. ASSUME NEW w \in Workers, EnqueueQuery(w) PROVE Types'
  <2>1. wQuery[w] \in Query
    BY <1>10 DEF EnqueueQuery
  <2>2. updateQueue' \in Seq(Query) /\ Len(updateQueue') <= QueueSize
    BY <1>10, <2>1, QueueAppended, ReceiptAssumption DEF EnqueueQuery
  <2>3. TypeOK'
    BY <1>10, <2>2 DEF EnqueueQuery, Goto, smscVars, mapVars, dbVars
  <2>4. ASSUME NEW u \in Workers PROVE HandFits(u)'
    <3>1. CASE u = w
      BY <1>10, <3>1 DEF EnqueueQuery, Goto
    <3>2. CASE u # w
      BY <1>10, <3>2 DEF EnqueueQuery, Goto
    <3> QED BY <3>1, <3>2
  <2> QED BY <2>3, <2>4
<1>11. CASE ExecuteQuery
  <2>1. Head(updateQueue) \in Query /\ Tail(updateQueue) \in Seq(Query)
        /\ Len(Tail(updateQueue)) <= QueueSize
    BY <1>11, QueueTail, ReceiptAssumption DEF ExecuteQuery
  <2>2. Head(updateQueue).sms \in Sms /\ Head(updateQueue).status \in Nat
    BY <2>1 DEF Query
  <2>3. CASE Head(updateQueue).table = "row"
    BY <1>11, <2>1, <2>2, <2>3 DEF ExecuteQuery, smscVars, mapVars
  <2>4. CASE Head(updateQueue).table # "row"
    <3>1. errors' = errors \union
                      {<<Head(updateQueue).sms, Head(updateQueue).status>>}
      BY <1>11, <2>4 DEF ExecuteQuery
    <3>2. errors' \subseteq Sms \X Nat
      BY <2>2, <3>1
    <3> QED BY <1>11, <2>1, <2>4, <3>2 DEF ExecuteQuery, smscVars, mapVars
  <2> QED BY <2>3, <2>4
<1>12. CASE Finished \/ UNCHANGED vars
  BY <1>12 DEF Finished, vars, smscVars, mapVars, dbVars
<1> QED
  BY <1>1, <1>2, <1>3, <1>4, <1>5, <1>6, <1>7, <1>8, <1>9, <1>10, <1>11, <1>12
  DEF Next, DoDatabaseUpdate

(* Every variable keeps its type, and a worker the PDU its place in        *)
(* DoDatabaseUpdate needs. *)
THEOREM TypeCorrect == Spec => []TypeOK
<1>1. Types => TypeOK
  BY DEF Types
<1> QED BY <1>1, InitTypes, StepKeepsTypes, PTL DEF Spec

-----------------------------------------------------------------------------
(* The PDUs of a message. *)

IsAnswer(p) == p.type \in AnswerTypes
SameKind(p, q) == p.sms = q.sms /\ (IsAnswer(p) <=> IsAnswer(q))

(* The answer of a message tells what the SMSC decided, and a receipt that *)
(* is under way is the last one it issued. *)
Legit(p) ==
  IF IsAnswer(p)
    THEN p.sms \notin unsent /\ (p.type = "ok" <=> p.sms \in accepted)
    ELSE p.n = receipts[p.sms] /\ p.state = report[p.sms]
SmscRecords ==
  /\ accepted \intersect unsent = {}
  /\ \A s \in Sms : receipts[s] > 0 => s \in accepted
  /\ \A p \in pdus : Legit(p)
  /\ \A w \in Workers : Busy(w) => Legit(wPdu[w])

(* A message has at most one answer and one receipt under way, in one place. *)
OnePlace ==
  /\ \A p, q \in pdus : SameKind(p, q) => p = q
  /\ \A w \in Workers : \A p \in pdus : Busy(w) => ~SameKind(p, wPdu[w])
  /\ \A w, u \in Workers :
       Busy(w) /\ Busy(u) /\ SameKind(wPdu[w], wPdu[u]) => w = u

Places == SmscRecords /\ OnePlace

LEMMA InitPlaces == Init => Places
BY DEF Init, Places, SmscRecords, OnePlace, Busy, At

(* Taking a PDU moves it; the other steps of a worker keep its PDU, or, at *)
(* their end, drop it. *)
LEMMA PlacesMove ==
  ASSUME Types, Places, NEW w \in Workers, UNCHANGED smscVars,
         NEW p \in pdus, At(w, "idle"), pdus' = pdus \ {p},
         wPdu' = [wPdu EXCEPT ![w] = p],
         NEW label, label # "idle", pc' = [pc EXCEPT ![w] = label]
  PROVE  Places'
<1> USE DEF Types, TypeOK
<1>1. /\ \A u \in Workers : u # w => wPdu'[u] = wPdu[u] /\ pc'[u] = pc[u]
      /\ wPdu'[w] = p /\ pc'[w] = label
  OBVIOUS
<1>2. SmscRecords'
  BY <1>1 DEF Places, SmscRecords, Legit, IsAnswer, Busy, At, smscVars
<1>3. OnePlace'
  BY <1>1 DEF Places, OnePlace, SameKind, IsAnswer, Busy, At
<1> QED BY <1>2, <1>3 DEF Places

LEMMA PlacesStay ==
  ASSUME Types, Places, NEW w \in Workers, UNCHANGED <<smscVars, pdus>>,
         \A u \in Workers : Busy(u)' => Busy(u) /\ wPdu'[u] = wPdu[u]
  PROVE  Places'
<1>1. SmscRecords'
  BY DEF Places, SmscRecords, Legit, IsAnswer, smscVars
<1>2. OnePlace'
  BY DEF Places, OnePlace, SameKind, IsAnswer
<1> QED BY <1>1, <1>2 DEF Places

LEMMA StepKeepsPlaces == Types /\ Places /\ [Next]_vars => Places'
<1> SUFFICES ASSUME Types, Places, [Next]_vars PROVE Places'
  OBVIOUS
<1> USE PdusAreKnown DEF Types, TypeOK
<1>1. ASSUME NEW s \in Sms, NEW type \in {"ok", "nok"}, Answer(s, type)
      PROVE  Places'
  <2> DEFINE new == [type |-> type, sms |-> s]
  <2>1. /\ s \in unsent /\ unsent' = unsent \ {s}
        /\ accepted' = IF type = "ok" THEN accepted \union {s} ELSE accepted
        /\ pdus' = pdus \union {new}
        /\ UNCHANGED <<receipts, report, pc, wPdu>>
    BY <1>1 DEF Answer
  <2>2. new.sms = s /\ new.type = type /\ IsAnswer(new)
    BY DEF IsAnswer, AnswerTypes
  <2>3. /\ \A p \in pdus : p.sms = s => ~IsAnswer(p)
        /\ \A w \in Workers : Busy(w) /\ SmsOf(w) = s => ~IsAnswer(wPdu[w])
    BY <2>1 DEF Places, SmscRecords, Legit, SmsOf
  <2> HIDE DEF new
  <2>4. SmscRecords'
    <3>1. /\ (accepted \intersect unsent = {})'
          /\ \A v \in Sms : receipts'[v] > 0 => v \in accepted'
      BY <2>1 DEF Places, SmscRecords
    <3>2. ASSUME NEW p \in pdus \union {new} PROVE Legit(p)'
      <4>1. CASE p = new
        BY <2>1, <2>2, <4>1 DEF Legit, IsAnswer, Places, SmscRecords
      <4>2. CASE p # new
        BY <2>1, <2>3, <4>2 DEF Legit, IsAnswer, Places, SmscRecords
      <4> QED BY <4>1, <4>2
    <3>3. ASSUME NEW w \in Workers, Busy(w)' PROVE Legit(wPdu[w])'
      BY <2>1, <2>3, <3>3
      DEF Legit, IsAnswer, Places, SmscRecords, Busy, At, SmsOf
    <3> QED BY <2>1, <3>1, <3>2, <3>3 DEF SmscRecords
  <2>5. OnePlace'
    BY <2>1, <2>2, <2>3 DEF Places, OnePlace, SameKind, IsAnswer, Busy, At, SmsOf
  <2> QED BY <2>4, <2>5 DEF Places
<1>2. ASSUME NEW s \in Sms, Receipt(s) PROVE Places'
  <2> DEFINE new == ReceiptOf(s, receipts[s] + 1)
  <2>1. /\ s \in accepted
        /\ receipts' = [receipts EXCEPT ![s] = receipts[s] + 1]
        /\ pdus' = pdus \union {new}
        /\ UNCHANGED <<unsent, report, accepted, pc, wPdu>>
        /\ \A n \in 1 .. receipts[s] :
             ReceiptOf(s, n) \notin pdus /\ ~InHand(ReceiptOf(s, n))
    BY <1>2 DEF Receipt
  <2>2. /\ new.sms = s /\ new.type = "receipt" /\ ~IsAnswer(new)
        /\ new.n = receipts[s] + 1 /\ new.state = report[s]
    BY DEF ReceiptOf, IsAnswer, AnswerTypes
  <2>3. \A p \in Pdu : p.sms = s /\ Legit(p) /\ ~IsAnswer(p) =>
          p = ReceiptOf(s, receipts[s]) /\ receipts[s] \in 1 .. receipts[s]
    <3> SUFFICES ASSUME NEW p \in Pdu, p.sms = s, Legit(p), ~IsAnswer(p)
                 PROVE  p = ReceiptOf(s, receipts[s])
                        /\ receipts[s] \in 1 .. receipts[s]
      OBVIOUS
    <3>1. /\ p \in [type : {"receipt"}, sms : Sms, state : ReceiptStates,
                    n : 1 .. MaxReceipts]
          /\ p.n = receipts[s] /\ p.state = report[s]
      BY DEF Pdu, IsAnswer, AnswerTypes, Legit
    <3>2. p.type = "receipt" /\ receipts[s] \in 1 .. MaxReceipts
      BY <3>1
    <3> QED BY <3>1, <3>2, ReceiptAssumption DEF ReceiptOf
  <2>4. \A p \in pdus : p.sms = s => IsAnswer(p)
    BY <2>1, <2>3 DEF Places, SmscRecords
  <2>5. \A w \in Workers : Busy(w) /\ SmsOf(w) = s => IsAnswer(wPdu[w])
    <3> SUFFICES ASSUME NEW w \in Workers, Busy(w), SmsOf(w) = s,
                        ~IsAnswer(wPdu[w])
                 PROVE  FALSE
      OBVIOUS
    <3>1. wPdu[w] \in Pdu /\ Legit(wPdu[w])
      BY DEF HandFits, Busy, Places, SmscRecords
    <3>2. wPdu[w] = ReceiptOf(s, receipts[s]) /\ receipts[s] \in 1 .. receipts[s]
      BY <2>3, <3>1 DEF SmsOf
    <3> QED BY <2>1, <3>2 DEF InHand
  <2> HIDE DEF new
  <2>6. SmscRecords'
    <3>1. /\ (accepted \intersect unsent = {})'
          /\ \A v \in Sms : receipts'[v] > 0 => v \in accepted'
      BY <2>1 DEF Places, SmscRecords
    <3>2. ASSUME NEW p \in pdus \union {new} PROVE Legit(p)'
      <4>1. CASE p = new
        BY <2>1, <2>2, <4>1 DEF Legit, IsAnswer
      <4>2. CASE p # new
        BY <2>1, <2>4, <4>2 DEF Legit, IsAnswer, Places, SmscRecords
      <4> QED BY <4>1, <4>2
    <3>3. ASSUME NEW w \in Workers, Busy(w)' PROVE Legit(wPdu[w])'
      <4>1. wPdu[w] \in Pdu /\ Legit(wPdu[w]) /\ wPdu[w].sms \in Sms
        BY <2>1, <3>3 DEF HandFits, Busy, At, Places, SmscRecords
      <4> QED BY <2>1, <2>5, <3>3, <4>1 DEF Legit, IsAnswer, Busy, At, SmsOf
    <3> QED BY <2>1, <3>1, <3>2, <3>3 DEF SmscRecords
  <2>7. OnePlace'
    BY <2>1, <2>2, <2>4, <2>5
    DEF Places, OnePlace, SameKind, IsAnswer, Busy, At, SmsOf
  <2> QED BY <2>6, <2>7 DEF Places
<1>3. ASSUME NEW w \in Workers, TakePdu(w) PROVE Places'
  <2>1. PICK p \in pdus :
          /\ pdus' = pdus \ {p} /\ wPdu' = [wPdu EXCEPT ![w] = p]
          /\ pc' = [pc EXCEPT ![w] =
                      IF p.type = "receipt" THEN "findId" ELSE "findState"]
    BY <1>3 DEF TakePdu, Goto
  <2> DEFINE label == IF p.type = "receipt" THEN "findId" ELSE "findState"
  <2>2. label # "idle" /\ pc' = [pc EXCEPT ![w] = label]
    BY <2>1
  <2> HIDE DEF label
  <2> QED BY <1>3, <2>1, <2>2, PlacesMove DEF TakePdu
<1>4. ASSUME NEW w \in Workers, DoDatabaseUpdate(w) PROVE Places'
  <2>1. UNCHANGED <<smscVars, pdus>>
    BY <1>4 DEF DoDatabaseUpdate, FindState, TakeState, FileId, FindId, TakeId,
                FileState, EnqueueQuery
  <2>2. CASE EnqueueQuery(w)
    <3>1. \A u \in Workers : Busy(u)' => Busy(u) /\ wPdu'[u] = wPdu[u]
      BY <2>2 DEF EnqueueQuery, Goto, Busy, At
    <3> QED BY <2>1, <3>1, PlacesStay
  <2>3. CASE ~EnqueueQuery(w)
    <3>1. UNCHANGED wPdu /\ ~At(w, "idle") /\ \E label : pc' = [pc EXCEPT ![w] = label]
      BY <1>4, <2>3 DEF DoDatabaseUpdate, FindState, TakeState, FileId, FindId,
                        TakeId, FileState, Goto, At
    <3>2. \A u \in Workers : Busy(u)' => Busy(u) /\ wPdu'[u] = wPdu[u]
      BY <3>1 DEF Busy, At
    <3> QED BY <2>1, <3>2, PlacesStay
  <2> QED BY <2>2, <2>3
<1>5. CASE ExecuteQuery \/ Finished \/ UNCHANGED vars
  <2>1. UNCHANGED <<smscVars, pdus, pc, wPdu>>
    BY <1>5 DEF ExecuteQuery, Finished, vars
  <2> QED BY <2>1 DEF Places, SmscRecords, OnePlace, Legit, IsAnswer, SameKind,
                      Busy, At, smscVars
<1> QED BY <1>1, <1>2, <1>3, <1>4, <1>5 DEF Next

-----------------------------------------------------------------------------
(* Statuses on their way to a row. *)

Wanted(s) == {report[s], ReportedStatus(report[s])}
Good(s, status) ==
  \/ status = SMS_ST_ACKNOWLEDGED /\ s \in accepted
  \/ receipts[s] > 0 /\ status \in Wanted(s)
  \/ s \notin accepted \union unsent /\ status = SMS_ST_FAILED
GoodQuery(q) == q.table = "row" => Good(q.sms, q.status)

(* Every status on its way was told by the SMSC. *)
StatusesTold ==
  /\ \A s \in DOMAIN m_vcMsgIdSyncMap :
       receipts[s] > 0 /\ m_vcMsgIdSyncMap[s] = report[s]
  /\ \A w \in Workers : At(w, "enqueue") => GoodQuery(wQuery[w])
  /\ \A i \in 1 .. Len(updateQueue) : GoodQuery(updateQueue[i])
  /\ \A s \in Sms : row[s] = SMS_ST_PICKED \/ Good(s, row[s])


(* What the SMSC does later does not change what it has told. *)
LEMMA GoodStays ==
  ASSUME Types, Places, NEW s \in Sms, NEW status, Good(s, status),
         \/ UNCHANGED smscVars
         \/ \E v \in Sms : Receipt(v) \/ \E type \in {"ok", "nok"} : Answer(v, type)
  PROVE  Good(s, status)'
<1> USE DEF Types, TypeOK
<1>1. CASE UNCHANGED smscVars
  BY <1>1 DEF smscVars, Good, Wanted
<1>2. ASSUME NEW v \in Sms, Receipt(v) PROVE Good(s, status)'
  <2>1. /\ receipts' = [receipts EXCEPT ![v] = receipts[v] + 1]
        /\ UNCHANGED <<unsent, report, accepted>> /\ receipts[v] \in Nat
    BY <1>2, ReceiptAssumption DEF Receipt
  <2>2. receipts[s] > 0 => receipts'[s] > 0
    BY <2>1, ReceiptAssumption
  <2> QED BY <2>1, <2>2 DEF Good, Wanted
<1>3. ASSUME NEW v \in Sms, NEW type \in {"ok", "nok"}, Answer(v, type)
      PROVE  Good(s, status)'
  <2>1. /\ v \in unsent /\ unsent' = unsent \ {v}
        /\ accepted' = IF type = "ok" THEN accepted \union {v} ELSE accepted
        /\ UNCHANGED <<receipts, report>>
    BY <1>3 DEF Answer
  <2> QED BY <2>1 DEF Good, Wanted
<1> QED BY <1>1, <1>2, <1>3

LEMMA InitStatuses == Init => StatusesTold
<1> SUFFICES ASSUME Init PROVE StatusesTold
  OBVIOUS
<1>1. Len(updateQueue) = 0
  BY EmptySeq DEF Init
<1> QED BY <1>1 DEF Init, StatusesTold, At

(* A new query that is Good, in the hands of its worker. *)
LEMMA StatusTaken ==
  ASSUME Types, StatusesTold, NEW w \in Workers, NEW q, GoodQuery(q),
         UNCHANGED <<smscVars, updateQueue, row>>,
         wQuery' = [wQuery EXCEPT ![w] = q],
         \A u \in Workers : u # w => pc'[u] = pc[u],
         \A s \in DOMAIN m_vcMsgIdSyncMap' :
           receipts[s] > 0 /\ m_vcMsgIdSyncMap'[s] = report[s]
  PROVE  StatusesTold'
<1> USE DEF Types, TypeOK
<1>1. ASSUME NEW u \in Workers, At(u, "enqueue")' PROVE GoodQuery(wQuery[u])'
  <2>1. u = w => wQuery'[u] = q
    OBVIOUS
  <2>2. u # w => wQuery'[u] = wQuery[u] /\ At(u, "enqueue")
    BY <1>1 DEF At
  <2> QED BY <2>1, <2>2 DEF StatusesTold, GoodQuery, Good, Wanted, smscVars
<1>2. /\ \A i \in 1 .. Len(updateQueue)' : GoodQuery(updateQueue[i])'
      /\ \A s \in Sms : (row[s] = SMS_ST_PICKED \/ Good(s, row[s]))'
  BY DEF StatusesTold, GoodQuery, Good, Wanted, smscVars
<1> QED BY <1>1, <1>2 DEF StatusesTold, smscVars

LEMMA StepKeepsStatuses ==
  Types /\ Types' /\ Places /\ StatusesTold /\ [Next]_vars => StatusesTold'
<1> SUFFICES ASSUME Types, Types', Places, StatusesTold, [Next]_vars
             PROVE  StatusesTold'
  OBVIOUS
<1> USE PdusAreKnown DEF Types, TypeOK
<1>1. CASE \E v \in Sms : Receipt(v) \/ \E type \in {"ok", "nok"} : Answer(v, type)
  <2>1. UNCHANGED <<m_vcMsgIdSyncMap, pc, wQuery, updateQueue, row, report>>
    BY <1>1 DEF Receipt, Answer, mapVars, dbVars
  <2>2. \A q \in Query : GoodQuery(q) => GoodQuery(q)'
    BY <1>1, GoodStays DEF GoodQuery, Query
  <2>3. \A s \in Sms : receipts[s] > 0 => receipts'[s] > 0
    BY <1>1, ReceiptAssumption DEF Receipt, Answer
  <2>4. \A w \in Workers : At(w, "enqueue") => wQuery[w] \in Query
    BY DEF HandFits
  <2>5. \A i \in 1 .. Len(updateQueue) : updateQueue[i] \in Query
    BY ElementOfSeq
  <2>6. \A s \in Sms : \A status \in Nat : Good(s, status) => Good(s, status)'
    BY <1>1, GoodStays
  <2>7. ASSUME NEW s \in Sms PROVE (row[s] = SMS_ST_PICKED \/ Good(s, row[s]))'
    <3>1. PICK status \in Nat : status = row[s]
      OBVIOUS
    <3>2. status = SMS_ST_PICKED \/ Good(s, status)'
      BY <2>6, <3>1 DEF StatusesTold
    <3> QED BY <2>1, <3>1, <3>2 DEF Good
  <2>8. ASSUME NEW w \in Workers, At(w, "enqueue")' PROVE GoodQuery(wQuery[w])'
    <3>1. PICK q \in Query : q = wQuery[w]
      BY <2>1, <2>4, <2>8 DEF At
    <3>2. GoodQuery(q)'
      BY <2>1, <2>2, <2>8, <3>1 DEF StatusesTold, At
    <3> QED BY <2>1, <3>1, <3>2 DEF GoodQuery, Good
  <2>9. ASSUME NEW i \in 1 .. Len(updateQueue)' PROVE GoodQuery(updateQueue[i])'
    <3>1. PICK q \in Query : q = updateQueue[i]
      BY <2>1, <2>5
    <3>2. GoodQuery(q)'
      BY <2>1, <2>2, <3>1 DEF StatusesTold
    <3> QED BY <2>1, <3>1, <3>2 DEF GoodQuery, Good
  <2> QED BY <2>1, <2>3, <2>7, <2>8, <2>9 DEF StatusesTold
<1>2. ASSUME NEW w \in Workers, TakePdu(w) PROVE StatusesTold'
  <2>1. /\ UNCHANGED <<smscVars, m_vcMsgIdSyncMap, wQuery, updateQueue, row>>
        /\ \A u \in Workers : At(u, "enqueue")' => At(u, "enqueue")
    BY <1>2 DEF TakePdu, Goto, mapVars, dbVars, At
  <2> QED BY <2>1 DEF StatusesTold, GoodQuery, Good, Wanted, smscVars
<1>3. ASSUME NEW w \in Workers, FindState(w) PROVE StatusesTold'
  <2>0. wPdu[w] \in Pdu /\ SmsOf(w) \in Sms /\ IsAnswer(wPdu[w])
    BY <1>3 DEF FindState, HandFits, At, SmsOf, IsAnswer
  <2>1. CASE wPdu[w].type = "nok"
    <3> DEFINE q == Update(SmsOf(w), SMS_ST_FAILED)
    <3>1. Legit(wPdu[w])
      BY <1>3 DEF Places, SmscRecords, FindState, Busy, At
    <3>2. SmsOf(w) \notin accepted \union unsent
      BY <2>0, <2>1, <3>1 DEF Legit, SmsOf
    <3>3. GoodQuery(q)
      BY <3>2 DEF GoodQuery, Good, Update
    <3> HIDE DEF q
    <3>4. /\ wQuery' = [wQuery EXCEPT ![w] = q]
          /\ UNCHANGED <<smscVars, m_vcMsgIdSyncMap, updateQueue, row>>
          /\ \A u \in Workers : u # w => pc'[u] = pc[u]
      BY <1>3, <2>1 DEF FindState, Goto, mapVars, dbVars, q
    <3> QED BY <3>3, <3>4, StatusTaken DEF StatusesTold
  <2>2. CASE wPdu[w].type # "nok"
    <3>1. /\ UNCHANGED <<smscVars, m_vcMsgIdSyncMap, wQuery, updateQueue, row>>
          /\ \A u \in Workers : At(u, "enqueue")' => At(u, "enqueue")
      BY <1>3, <2>2 DEF FindState, Goto, mapVars, dbVars, At
    <3> QED BY <3>1 DEF StatusesTold, GoodQuery, Good, Wanted, smscVars
  <2> QED BY <2>1, <2>2
<1>4. ASSUME NEW w \in Workers, TakeState(w) PROVE StatusesTold'
  <2> DEFINE q == Update(SmsOf(w), m_vcMsgIdSyncMap[SmsOf(w)])
  <2>1. SmsOf(w) \in DOMAIN m_vcMsgIdSyncMap
    BY <1>4 DEF TakeState
  <2>2. GoodQuery(q)
    BY <2>1 DEF StatusesTold, GoodQuery, Good, Wanted, Update
  <2> HIDE DEF q
  <2>3. /\ wQuery' = [wQuery EXCEPT ![w] = q]
        /\ UNCHANGED <<smscVars, updateQueue, row>>
        /\ \A u \in Workers : u # w => pc'[u] = pc[u]
    BY <1>4 DEF TakeState, Goto, dbVars, q
  <2>4. \A s \in DOMAIN m_vcMsgIdSyncMap' :
          receipts[s] > 0 /\ m_vcMsgIdSyncMap'[s] = report[s]
    BY <1>4 DEF TakeState, StatusesTold
  <2> QED BY <2>2, <2>3, <2>4, StatusTaken
<1>5. ASSUME NEW w \in Workers, FileId(w) PROVE StatusesTold'
  <2> DEFINE q == Update(SmsOf(w), SMS_ST_ACKNOWLEDGED)
  <2>1. Legit(wPdu[w]) /\ wPdu[w].type = "ok" /\ IsAnswer(wPdu[w])
    BY <1>5 DEF Places, SmscRecords, FileId, Busy, At, HandFits, IsAnswer, AnswerTypes
  <2>2. GoodQuery(q)
    BY <2>1 DEF Legit, SmsOf, GoodQuery, Good, Update
  <2> HIDE DEF q
  <2>3. /\ wQuery' = [wQuery EXCEPT ![w] = q]
        /\ UNCHANGED <<smscVars, m_vcMsgIdSyncMap, updateQueue, row>>
        /\ \A u \in Workers : u # w => pc'[u] = pc[u]
    BY <1>5 DEF FileId, Goto, dbVars, q
  <2> QED BY <2>2, <2>3, StatusTaken DEF StatusesTold
<1>6. ASSUME NEW w \in Workers, FindId(w) PROVE StatusesTold'
  <2>1. /\ UNCHANGED <<smscVars, m_vcMsgIdSyncMap, wQuery, updateQueue, row>>
        /\ \A u \in Workers : At(u, "enqueue")' => At(u, "enqueue")
    BY <1>6 DEF FindId, Goto, mapVars, dbVars, At
  <2> QED BY <2>1 DEF StatusesTold, GoodQuery, Good, Wanted, smscVars
<1>7. ASSUME NEW w \in Workers, TakeId(w) \/ FileState(w)
      PROVE  /\ wPdu[w].state = report[SmsOf(w)] /\ receipts[SmsOf(w)] > 0
             /\ SmsOf(w) \in Sms
  <2>1. /\ Legit(wPdu[w]) /\ ~IsAnswer(wPdu[w]) /\ wPdu[w] \in Pdu
        /\ wPdu[w].type = "receipt"
    BY <1>7 DEF Places, SmscRecords, TakeId, FileState, Busy, At, HandFits,
                IsAnswer, AnswerTypes, ReceiptLabels
  <2> QED BY <2>1, ReceiptAssumption DEF Legit, SmsOf
<1>8. ASSUME NEW w \in Workers, TakeId(w) PROVE StatusesTold'
  <2> DEFINE q == Update(SmsOf(w), ReportedStatus(wPdu[w].state))
  <2>1. GoodQuery(q)
    BY <1>7, <1>8 DEF GoodQuery, Good, Wanted, Update
  <2> HIDE DEF q
  <2>2. /\ wQuery' = [wQuery EXCEPT ![w] = q]
        /\ UNCHANGED <<smscVars, m_vcMsgIdSyncMap, updateQueue, row>>
        /\ \A u \in Workers : u # w => pc'[u] = pc[u]
    BY <1>8 DEF TakeId, Goto, dbVars, q
  <2> QED BY <2>1, <2>2, StatusTaken DEF StatusesTold
<1>9. ASSUME NEW w \in Workers, FileState(w) PROVE StatusesTold'
  <2> DEFINE q == InsertError(SmsOf(w), ReportedStatus(wPdu[w].state))
  <2>1. GoodQuery(q)
    BY DEF GoodQuery, InsertError
  <2> HIDE DEF q
  <2>2. /\ wQuery' = [wQuery EXCEPT ![w] = q]
        /\ UNCHANGED <<smscVars, updateQueue, row>>
        /\ \A u \in Workers : u # w => pc'[u] = pc[u]
    BY <1>9 DEF FileState, Goto, dbVars, q
  <2>3. \A s \in DOMAIN m_vcMsgIdSyncMap' :
          receipts[s] > 0 /\ m_vcMsgIdSyncMap'[s] = report[s]
    BY <1>7, <1>9 DEF FileState, StatusesTold
  <2> QED BY <2>1, <2>2, <2>3, StatusTaken
<1>10. ASSUME NEW w \in Workers, EnqueueQuery(w) PROVE StatusesTold'
  <2>1. /\ At(w, "enqueue") /\ updateQueue' = Append(updateQueue, wQuery[w])
        /\ UNCHANGED <<smscVars, m_vcMsgIdSyncMap, row>>
        /\ \A u \in Workers : At(u, "enqueue")' =>
             At(u, "enqueue") /\ wQuery'[u] = wQuery[u]
    BY <1>10 DEF EnqueueQuery, Goto, mapVars, dbVars, At
  <2>2. wQuery[w] \in Query
    BY <2>1 DEF HandFits
  <2>3. \A i \in 1 .. Len(updateQueue') : GoodQuery(updateQueue'[i])
    BY <2>1, <2>2, QueueAppended DEF StatusesTold
  <2>4. \A i \in 1 .. Len(updateQueue)' : GoodQuery(updateQueue[i])'
    BY <2>1, <2>3 DEF GoodQuery, Good, Wanted, smscVars
  <2> QED BY <2>1, <2>4 DEF StatusesTold, GoodQuery, Good, Wanted, smscVars
<1>11. CASE ExecuteQuery
  <2> DEFINE q == Head(updateQueue)
  <2>1. /\ updateQueue # << >> /\ updateQueue' = Tail(updateQueue)
        /\ UNCHANGED <<smscVars, m_vcMsgIdSyncMap, pc, wQuery>>
        /\ IF q.table = "row" THEN row' = [row EXCEPT ![q.sms] = q.status]
                              ELSE UNCHANGED row
    BY <1>11 DEF ExecuteQuery, mapVars
  <2>0. /\ Len(updateQueue) > 0 /\ q = updateQueue[1] /\ q \in Query
        /\ \A i \in 1 .. Len(Tail(updateQueue)) :
             /\ i + 1 \in 1 .. Len(updateQueue)
             /\ Tail(updateQueue)[i] = updateQueue[i + 1]
    BY <2>1, QueueTail
  <2>2. GoodQuery(q) /\ q \in Query
    <3>1. Len(updateQueue) \in Nat
      BY LenProperties
    <3>2. 1 \in 1 .. Len(updateQueue)
      BY <2>0, <3>1
    <3>3. GoodQuery(updateQueue[1])
      BY <3>2, Zenon DEF StatusesTold
    <3> QED BY <2>0, <3>3
  <2>3. q.sms \in Sms
    BY <2>2 DEF Query
  <2> HIDE DEF q
  <2>4. \A i \in 1 .. Len(updateQueue') : GoodQuery(updateQueue'[i])
    BY <2>0, <2>1 DEF StatusesTold
  <2>5. \A s \in Sms : row'[s] = SMS_ST_PICKED \/ Good(s, row'[s])
    BY <2>1, <2>2, <2>3 DEF StatusesTold, GoodQuery
  <2> QED BY <2>1, <2>4, <2>5 DEF StatusesTold, GoodQuery, Good, Wanted, smscVars, At
<1>12. CASE Finished \/ UNCHANGED vars
  <2>1. UNCHANGED vars
    BY <1>12 DEF Finished
  <2> QED BY <2>1 DEF vars, StatusesTold, GoodQuery, Good, Wanted, smscVars,
                      mapVars, dbVars, At
<1> QED
  BY <1>1, <1>2, <1>3, <1>4, <1>5, <1>6, <1>8, <1>9, <1>10, <1>11, <1>12
  DEF Next, DoDatabaseUpdate

(* A row that claims a final state has a receipt, or a refusal, behind it, *)
(* whatever races with what. *)
THEOREM StatusesAreTold == Spec => []NoStatusOutOfThinAir
<1>1. StatusesTold => NoStatusOutOfThinAir
  BY DEF StatusesTold, NoStatusOutOfThinAir, Good, Wanted
<1> QED
  BY <1>1, InitTypes, StepKeepsTypes, InitPlaces, StepKeepsPlaces, InitStatuses,
     StepKeepsStatuses, PTL DEF Spec

-----------------------------------------------------------------------------
(* A message that was not crossed. *)

Holds(w, s) == Busy(w) /\ SmsOf(w) = s
RowOf(q, s) == q.table = "row" /\ q.sms = s
Brings(w, s) == At(w, "enqueue") /\ RowOf(wQuery[w], s)

NotAnswered(s) ==
  \/ s \in unsent
  \/ \E p \in pdus : p.sms = s /\ IsAnswer(p)
  \/ \E w \in Workers : Holds(w, s) /\ IsAnswer(wPdu[w]) /\ ~At(w, "enqueue")
ReceiptToCome(s) ==
  \/ receipts[s] = 0
  \/ \E p \in pdus : p.sms = s /\ p.type = "receipt"

(* No update of the row has reached the queue. *)
Quiet(s) ==
  /\ row[s] = SMS_ST_PICKED
  /\ \A i \in 1 .. Len(updateQueue) : ~RowOf(updateQueue[i], s)

(* The receipt's status is in the row, or the last that will be written. *)
Booked(s) ==
  \/ row[s] \in Wanted(s)
  \/ \E i \in 1 .. Len(updateQueue) :
       RowOf(updateQueue[i], s) /\ updateQueue[i].status \in Wanted(s)
  \/ \E w \in Workers : Brings(w, s) /\ wQuery[w].status \in Wanted(s)

OneHand(s) == \A w, u \in Workers : Holds(w, s) /\ Holds(u, s) => w = u

(* Until the answer has searched the maps, the receipt waits for it.       *)
AwaitsAnswer(s) ==
  NotAnswered(s) =>
    /\ Quiet(s) /\ s \notin m_vcMsgIdMap
    /\ \A w \in Workers : ~Brings(w, s)
    /\ \/ ReceiptToCome(s) \/ s \in DOMAIN m_vcMsgIdSyncMap
       \/ \E w \in Workers : Holds(w, s) /\ pc[w] \in {"findId", "fileState"}

(* Then the answer waits for the receipt ...                               *)
AwaitsReceipt(s) ==
  s \in m_vcMsgIdMap =>
    /\ s \notin DOMAIN m_vcMsgIdSyncMap
    /\ \/ ReceiptToCome(s)
       \/ \E w \in Workers : Holds(w, s) /\ pc[w] \in {"findId", "takeId"}
    /\ row[s] \in {SMS_ST_PICKED, SMS_ST_ACKNOWLEDGED}
    /\ \A i \in 1 .. Len(updateQueue) : RowOf(updateQueue[i], s) =>
         updateQueue[i].status = SMS_ST_ACKNOWLEDGED
    /\ \A w \in Workers : Brings(w, s) =>
         IsAnswer(wPdu[w]) /\ wQuery[w].status = SMS_ST_ACKNOWLEDGED

(* ... or the two have met.                                                *)
HaveMet(s) ==
  s \in accepted /\ ~NotAnswered(s) /\ s \notin m_vcMsgIdMap => Booked(s)

(* What a search of the other map found is still so when the entry is      *)
(* filed.                                                                  *)
SearchHolds(s) ==
  \A w \in Workers : Holds(w, s) =>
    /\ At(w, "fileId") => s \notin DOMAIN m_vcMsgIdSyncMap
    /\ At(w, "fileState") => s \notin m_vcMsgIdMap
    /\ IsAnswer(wPdu[w]) => Quiet(s)

(* The updates of a row come in order, and find it as they should.         *)
Finds(s, status) ==
  IF status = SMS_ST_ACKNOWLEDGED \/ s \notin accepted
    THEN row[s] = SMS_ST_PICKED
    ELSE row[s] \in {SMS_ST_PICKED, SMS_ST_ACKNOWLEDGED}
InOrder(s) ==
  /\ \A i, j \in 1 .. Len(updateQueue) :
       RowOf(updateQueue[i], s) /\ RowOf(updateQueue[j], s) /\ i < j =>
         /\ updateQueue[i].status = SMS_ST_ACKNOWLEDGED
         /\ updateQueue[j].status \in Wanted(s)
  /\ \A i \in 1 .. Len(updateQueue), w \in Workers :
       RowOf(updateQueue[i], s) /\ Brings(w, s) =>
         /\ updateQueue[i].status = SMS_ST_ACKNOWLEDGED
         /\ wQuery[w].status \in Wanted(s)
  /\ \A i \in 1 .. Len(updateQueue) :
       RowOf(updateQueue[i], s) => Finds(s, updateQueue[i].status)
  /\ \A w \in Workers : Brings(w, s) => Finds(s, wQuery[w].status)

Meets(s) ==
  /\ OneHand(s) /\ AwaitsAnswer(s) /\ AwaitsReceipt(s)
  /\ HaveMet(s) /\ SearchHolds(s) /\ InOrder(s)
AllMeet == \A s \in Sms \ crossed : Meets(s)


(* A query comes from whoever holds its message. *)
LEMMA BringersHold ==
  ASSUME Types, NEW w \in Workers, NEW s, Brings(w, s)
  PROVE  Holds(w, s) /\ At(w, "enqueue")
BY DEF Types, HandFits, Brings, RowOf, Holds, Busy, At

LEMMA Alone ==
  ASSUME Types, NEW s, OneHand(s), NEW w \in Workers, Holds(w, s)
  PROVE  \A u \in Workers : u # w => ~Holds(u, s) /\ ~Brings(u, s)
BY BringersHold DEF OneHand

(* A step that does nothing to a message; the queue may take or lose what  *)
(* is not an update of its row. *)
LEMMA OthersMeet ==
  ASSUME NEW s \in Sms, Meets(s), Types, Types',
         s \in accepted' <=> s \in accepted, s \in unsent' <=> s \in unsent,
         receipts'[s] = receipts[s], report' = report, row'[s] = row[s],
         s \in m_vcMsgIdMap' <=> s \in m_vcMsgIdMap,
         s \in DOMAIN m_vcMsgIdSyncMap' <=> s \in DOMAIN m_vcMsgIdSyncMap,
         \A p \in Pdu : p.sms = s => (p \in pdus' <=> p \in pdus),
         \A w \in Workers : /\ Holds(w, s)' <=> Holds(w, s)
                            /\ Holds(w, s) => pc'[w] = pc[w] /\ wPdu'[w] = wPdu[w]
                                              /\ wQuery'[w] = wQuery[w],
         NEW d \in {0, 1},
         \A i \in 1 .. Len(updateQueue') : RowOf(updateQueue'[i], s) =>
           i + d \in 1 .. Len(updateQueue) /\ updateQueue[i + d] = updateQueue'[i],
         \A i \in 1 .. Len(updateQueue) : RowOf(updateQueue[i], s) =>
           i - d \in 1 .. Len(updateQueue') /\ updateQueue'[i - d] = updateQueue[i]
  PROVE  Meets(s)'
<1>0. Len(updateQueue) \in Nat /\ Len(updateQueue') \in Nat /\ d \in Int
  BY LenProperties DEF Types, TypeOK
<1>1. \A w \in Workers : Brings(w, s) => Holds(w, s)
  BY BringersHold
<1>2. \A w \in Workers : Brings(w, s)' => Holds(w, s)'
  <2> SUFFICES ASSUME NEW w \in Workers, Brings(w, s)' PROVE Holds(w, s)'
    OBVIOUS
  <2> QED BY DEF Types, HandFits, Brings, RowOf, Holds, Busy, At
<1>3. \A w \in Workers : Brings(w, s)' <=> Brings(w, s)
  BY <1>1, <1>2 DEF Brings, At
<1>4. OneHand(s)'
  BY DEF Meets, OneHand
<1>5. NotAnswered(s)' <=> NotAnswered(s)
  BY DEF NotAnswered, IsAnswer, At, Types, TypeOK
<1>6. ReceiptToCome(s)' <=> ReceiptToCome(s)
  BY DEF ReceiptToCome, Types, TypeOK
<1>7. Quiet(s) => Quiet(s)'
  BY DEF Quiet
<1>8. Wanted(s)' = Wanted(s)
  BY DEF Wanted
<1>9. Booked(s) => Booked(s)'
  <2>1. CASE row[s] \in Wanted(s)
    BY <1>8, <2>1 DEF Booked
  <2>2. CASE \E w \in Workers : Brings(w, s) /\ wQuery[w].status \in Wanted(s)
    BY <1>1, <1>3, <1>8, <2>2 DEF Booked
  <2>3. CASE \E i \in 1 .. Len(updateQueue) :
               RowOf(updateQueue[i], s) /\ updateQueue[i].status \in Wanted(s)
    <3>1. PICK i \in 1 .. Len(updateQueue) :
            RowOf(updateQueue[i], s) /\ updateQueue[i].status \in Wanted(s)
      BY <2>3
    <3>2. i - d \in 1 .. Len(updateQueue') /\ updateQueue'[i - d] = updateQueue[i]
      BY <3>1
    <3> QED BY <1>8, <3>1, <3>2 DEF Booked, RowOf
  <2> QED BY <2>1, <2>2, <2>3 DEF Booked
<1>10. AwaitsAnswer(s)'
  BY <1>3, <1>5, <1>6, <1>7 DEF Meets, AwaitsAnswer
<1>11. AwaitsReceipt(s)'
  BY <1>1, <1>3, <1>6 DEF Meets, AwaitsReceipt, IsAnswer
<1>12. HaveMet(s)'
  BY <1>5, <1>9 DEF Meets, HaveMet
<1>13. SearchHolds(s)'
  BY <1>7 DEF Meets, SearchHolds, At, IsAnswer
<1>14. InOrder(s)'
  <2>1. \A i, j \in 1 .. Len(updateQueue') :
          RowOf(updateQueue'[i], s) /\ RowOf(updateQueue'[j], s) /\ i < j =>
            /\ updateQueue'[i].status = SMS_ST_ACKNOWLEDGED
            /\ updateQueue'[j].status \in Wanted(s)
    <3> SUFFICES ASSUME NEW i \in 1 .. Len(updateQueue'),
                        NEW j \in 1 .. Len(updateQueue'), i < j,
                        RowOf(updateQueue'[i], s), RowOf(updateQueue'[j], s)
                 PROVE  /\ updateQueue'[i].status = SMS_ST_ACKNOWLEDGED
                        /\ updateQueue'[j].status \in Wanted(s)
      OBVIOUS
    <3>1. /\ i + d \in 1 .. Len(updateQueue) /\ j + d \in 1 .. Len(updateQueue)
          /\ updateQueue[i + d] = updateQueue'[i]
          /\ updateQueue[j + d] = updateQueue'[j]
      OBVIOUS
    <3>2. i + d < j + d
      BY <1>0
    <3> QED BY <3>1, <3>2 DEF Meets, InOrder
  <2>2. \A i \in 1 .. Len(updateQueue'), w \in Workers :
          RowOf(updateQueue'[i], s) /\ Brings(w, s) =>
            /\ updateQueue'[i].status = SMS_ST_ACKNOWLEDGED
            /\ wQuery[w].status \in Wanted(s)
    BY DEF Meets, InOrder
  <2>3. \A status : Finds(s, status) <=> Finds(s, status)'
    BY DEF Finds
  <2>4. \A i \in 1 .. Len(updateQueue') :
          RowOf(updateQueue'[i], s) => Finds(s, updateQueue'[i].status)
    BY DEF Meets, InOrder
  <2>5. \A w \in Workers : Brings(w, s) => Finds(s, wQuery[w].status)
    BY DEF Meets, InOrder
  <2>6. \A w \in Workers : Brings(w, s)' =>
          Brings(w, s) /\ wQuery'[w] = wQuery[w]
    BY <1>1, <1>3
  <2>7. ASSUME NEW i \in 1 .. Len(updateQueue'), RowOf(updateQueue'[i], s)
        PROVE  Finds(s, updateQueue[i].status)'
    BY <2>4, <2>7 DEF Finds
  <2>8. ASSUME NEW w \in Workers, Brings(w, s)' PROVE Finds(s, wQuery[w].status)'
    BY <2>5, <2>6, <2>8 DEF Finds
  <2>9. \A i, j \in 1 .. Len(updateQueue') :
          RowOf(updateQueue'[i], s) /\ RowOf(updateQueue'[j], s) /\ i < j =>
            /\ updateQueue'[i].status = SMS_ST_ACKNOWLEDGED
            /\ updateQueue'[j].status \in Wanted(s)'
    BY <1>8, <2>1
  <2>10. \A i \in 1 .. Len(updateQueue'), w \in Workers :
          RowOf(updateQueue'[i], s) /\ Brings(w, s)' =>
            /\ updateQueue'[i].status = SMS_ST_ACKNOWLEDGED
            /\ wQuery'[w].status \in Wanted(s)'
    BY <1>8, <2>2, <2>6
  <2> QED BY <2>7, <2>8, <2>9, <2>10 DEF InOrder, RowOf
<1> QED BY <1>4, <1>10, <1>11, <1>12, <1>13, <1>14 DEF Meets

(* A step of DoDatabaseUpdate on the way to the queue concerns only the    *)
(* message its worker holds ... *)
LEMMA OtherMessages ==
  ASSUME Types, Types', NEW w \in Workers, Busy(w), NEW label, label # "idle",
         UNCHANGED <<smscVars, pdus, wPdu, updateQueue, row>>,
         pc' = [pc EXCEPT ![w] = label],
         \A u \in Workers : u # w => wQuery'[u] = wQuery[u],
         NEW s \in Sms, s # SmsOf(w), Meets(s),
         s \in m_vcMsgIdMap' <=> s \in m_vcMsgIdMap,
         s \in DOMAIN m_vcMsgIdSyncMap' <=> s \in DOMAIN m_vcMsgIdSyncMap
  PROVE  Meets(s)'
<1>1. \A u \in Workers :
        /\ Holds(u, s)' <=> Holds(u, s)
        /\ Holds(u, s) => pc'[u] = pc[u] /\ wPdu'[u] = wPdu[u]
                          /\ wQuery'[u] = wQuery[u]
  BY DEF Holds, Busy, At, SmsOf, Types, TypeOK
<1>2. /\ s \in accepted' <=> s \in accepted
      /\ s \in unsent' <=> s \in unsent
      /\ receipts'[s] = receipts[s] /\ report' = report /\ row'[s] = row[s]
  BY DEF smscVars
<1>3. /\ \A i \in 1 .. Len(updateQueue') : RowOf(updateQueue'[i], s) =>
           i + 0 \in 1 .. Len(updateQueue) /\ updateQueue[i + 0] = updateQueue'[i]
      /\ \A i \in 1 .. Len(updateQueue) : RowOf(updateQueue[i], s) =>
           i - 0 \in 1 .. Len(updateQueue') /\ updateQueue'[i - 0] = updateQueue[i]
  OBVIOUS
<1> QED BY <1>1, <1>2, <1>3, OthersMeet

(* ... which nobody else holds, when it is not crossed, before or after. *)
LEMMA OwnMessage ==
  ASSUME Types, NEW w \in Workers, Busy(w), NEW label, label # "idle",
         UNCHANGED <<smscVars, pdus, wPdu, updateQueue, row>>,
         pc' = [pc EXCEPT ![w] = label],
         \A u \in Workers : u # w => wQuery'[u] = wQuery[u],
         NEW s, s = SmsOf(w), Meets(s)
  PROVE  /\ Holds(w, s) /\ Holds(w, s)' /\ OneHand(s)'
         /\ pc'[w] = label
         /\ \A u \in Workers : u # w =>
              ~Holds(u, s) /\ ~Brings(u, s) /\ ~Holds(u, s)' /\ ~Brings(u, s)'
         /\ Quiet(s)' <=> Quiet(s)
         /\ ReceiptToCome(s)' <=> ReceiptToCome(s)
         /\ Wanted(s)' = Wanted(s)
         /\ \A status : Finds(s, status)' <=> Finds(s, status)
<1>1. Holds(w, s) /\ Holds(w, s)' /\ pc'[w] = label
  BY DEF Holds, Busy, At, SmsOf, Types, TypeOK
<1>2. \A u \in Workers : u # w => ~Holds(u, s) /\ ~Brings(u, s)
  BY <1>1, Alone DEF Meets
<1>3. \A u \in Workers : u # w => ~Holds(u, s)' /\ ~Brings(u, s)'
  BY <1>2 DEF Holds, Brings, Busy, At, SmsOf, Types, TypeOK
<1>4. OneHand(s)'
  BY <1>3 DEF OneHand
<1>5. /\ Quiet(s)' <=> Quiet(s)
      /\ ReceiptToCome(s)' <=> ReceiptToCome(s)
      /\ Wanted(s)' = Wanted(s)
      /\ \A status : Finds(s, status)' <=> Finds(s, status)
  BY DEF Quiet, ReceiptToCome, Wanted, Finds, smscVars
<1> QED BY <1>1, <1>2, <1>3, <1>4, <1>5


(* Once its worker goes to the queue, the answer has been looked up. *)
LEMMA AnswerDone ==
  ASSUME Types, Places, NEW w \in Workers, Busy(w), IsAnswer(wPdu[w]),
         NEW m \in Sms, m = SmsOf(w), UNCHANGED <<smscVars, pdus, wPdu>>,
         pc'[w] = "enqueue", \A u \in Workers : u # w => ~Holds(u, m)'
  PROVE  ~NotAnswered(m)'
<1>1. wPdu[w] \in Pdu /\ Legit(wPdu[w])
  BY DEF Types, HandFits, Busy, Places, SmscRecords
<1>2. m \notin unsent'
  BY <1>1 DEF Legit, SmsOf, smscVars
<1>3. \A p \in pdus : ~(p.sms = m /\ IsAnswer(p))
  BY DEF Places, OnePlace, SameKind, SmsOf
<1>4. \A u \in Workers : Holds(u, m)' => At(u, "enqueue")'
  BY DEF At
<1> QED BY <1>2, <1>3, <1>4 DEF NotAnswered, IsAnswer

LEMMA FindStateMeets ==
  ASSUME Types, Types', Places, NEW w \in Workers, FindState(w),
         NEW m \in Sms, m = SmsOf(w), Meets(m)
  PROVE  Meets(m)'
<1> USE PdusAreKnown DEF Types, TypeOK
<1>1. PICK label \in {"enqueue", "takeState", "fileId"} :
        /\ pc' = [pc EXCEPT ![w] = label]
        /\ label = "enqueue" <=> wPdu[w].type = "nok"
        /\ label = "fileId" => m \notin DOMAIN m_vcMsgIdSyncMap
  BY DEF FindState, Goto
<1>2. /\ Busy(w) /\ At(w, "findState") /\ label # "idle"
      /\ UNCHANGED <<smscVars, pdus, wPdu, updateQueue, row, m_vcMsgIdMap,
                     m_vcMsgIdSyncMap>>
      /\ \A u \in Workers : u # w => wQuery'[u] = wQuery[u]
  BY DEF FindState, Busy, At, mapVars, dbVars
<1>3. wPdu[w] \in Pdu /\ IsAnswer(wPdu[w]) /\ Legit(wPdu[w])
  BY <1>2 DEF HandFits, At, IsAnswer, Places, SmscRecords
<1>4. /\ Holds(w, m) /\ Holds(w, m)' /\ OneHand(m)'
      /\ pc'[w] = label
      /\ \A u \in Workers : u # w =>
           ~Holds(u, m) /\ ~Brings(u, m) /\ ~Holds(u, m)' /\ ~Brings(u, m)'
      /\ Quiet(m)' <=> Quiet(m)
      /\ ReceiptToCome(m)' <=> ReceiptToCome(m)
      /\ Wanted(m)' = Wanted(m)
      /\ \A status : Finds(m, status)' <=> Finds(m, status)
  BY <1>1, <1>2, OwnMessage
<1>5. NotAnswered(m)
  BY <1>2, <1>3, <1>4 DEF NotAnswered, At
<1>6. /\ Quiet(m) /\ m \notin m_vcMsgIdMap
      /\ ReceiptToCome(m) \/ m \in DOMAIN m_vcMsgIdSyncMap
  BY <1>2, <1>4, <1>5 DEF Meets, AwaitsAnswer, At
<1>7. AwaitsReceipt(m)'
  BY <1>2, <1>6 DEF AwaitsReceipt
<1>8. SearchHolds(m)'
  BY <1>1, <1>2, <1>4, <1>6 DEF SearchHolds, At
<1>9. \A i \in 1 .. Len(updateQueue') : ~RowOf(updateQueue'[i], m)
  BY <1>2, <1>6 DEF Quiet
<1>10. CASE label = "enqueue"
  <2>1. m \notin accepted /\ m \notin unsent
    BY <1>1, <1>3, <1>10 DEF Legit, SmsOf
  <2>2. ~NotAnswered(m)'
    BY <1>2, <1>3, <1>4, <1>10, AnswerDone
  <2>3. AwaitsAnswer(m)' /\ HaveMet(m)'
    BY <1>2, <2>1, <2>2 DEF AwaitsAnswer, HaveMet, smscVars
  <2>4. Finds(m, wQuery[w].status)'
    BY <1>2, <1>6, <2>1 DEF Quiet, Finds, smscVars
  <2>5. InOrder(m)'
    BY <1>4, <1>9, <2>4 DEF InOrder
  <2> QED BY <1>4, <1>7, <1>8, <2>3, <2>5 DEF Meets
<1>11. CASE label # "enqueue"
  <2>1. NotAnswered(m)' /\ \A u \in Workers : ~Brings(u, m)'
    BY <1>2, <1>3, <1>4, <1>11 DEF NotAnswered, IsAnswer, Brings, At
  <2>2. AwaitsAnswer(m)' /\ HaveMet(m)'
    BY <1>2, <1>4, <1>6, <2>1 DEF AwaitsAnswer, HaveMet
  <2>3. InOrder(m)'
    BY <1>9, <2>1 DEF InOrder
  <2> QED BY <1>4, <1>7, <1>8, <2>2, <2>3 DEF Meets
<1> QED BY <1>10, <1>11

LEMMA TakeStateMeets ==
  ASSUME Types, Types', Places, StatusesTold, NEW w \in Workers, TakeState(w),
         NEW m \in Sms, m = SmsOf(w), Meets(m)
  PROVE  Meets(m)'
<1> USE PdusAreKnown DEF Types, TypeOK
<1>1. /\ Busy(w) /\ At(w, "takeState") /\ m \in DOMAIN m_vcMsgIdSyncMap
      /\ pc' = [pc EXCEPT ![w] = "enqueue"]
      /\ UNCHANGED <<smscVars, pdus, wPdu, updateQueue, row, m_vcMsgIdMap>>
      /\ \A u \in Workers : u # w => wQuery'[u] = wQuery[u]
      /\ wQuery'[w] = Update(m, m_vcMsgIdSyncMap[m])
  BY DEF TakeState, Busy, At, Goto, dbVars
<1>2. IsAnswer(wPdu[w])
  BY <1>1 DEF HandFits, At, IsAnswer, AnswerTypes
<1>3. /\ Holds(w, m) /\ Holds(w, m)' /\ OneHand(m)'
      /\ pc'[w] = "enqueue"
      /\ \A u \in Workers : u # w =>
           ~Holds(u, m) /\ ~Brings(u, m) /\ ~Holds(u, m)' /\ ~Brings(u, m)'
      /\ Quiet(m)' <=> Quiet(m)
      /\ Wanted(m)' = Wanted(m)
  BY <1>1, OwnMessage
<1>4. NotAnswered(m)
  BY <1>1, <1>2, <1>3 DEF NotAnswered, At
<1>5. Quiet(m) /\ m \notin m_vcMsgIdMap
  BY <1>4 DEF Meets, AwaitsAnswer
<1>6. ~NotAnswered(m)'
  BY <1>1, <1>2, <1>3, AnswerDone
<1>7. /\ wQuery'[w].table = "row" /\ wQuery'[w].sms = m
      /\ wQuery'[w].status \in Wanted(m)
  BY <1>1 DEF Update, StatusesTold, Wanted
<1>8. HaveMet(m)'
  <2>1. Brings(w, m)'
    BY <1>3, <1>7 DEF Brings, RowOf, At
  <2>2. Booked(m)'
    BY <1>3, <1>7, <2>1 DEF Booked
  <2> QED BY <2>2 DEF HaveMet
<1>9. AwaitsAnswer(m)' /\ AwaitsReceipt(m)'
  BY <1>1, <1>5, <1>6 DEF AwaitsAnswer, AwaitsReceipt
<1>10. SearchHolds(m)'
  BY <1>3, <1>5 DEF SearchHolds, At
<1>11. InOrder(m)'
  <2>1. Finds(m, wQuery[w].status)'
    BY <1>1, <1>5 DEF Quiet, Finds
  <2>2. \A i \in 1 .. Len(updateQueue') : ~RowOf(updateQueue'[i], m)
    BY <1>1, <1>5 DEF Quiet
  <2> QED BY <1>3, <2>1, <2>2 DEF InOrder
<1> QED BY <1>3, <1>8, <1>9, <1>10, <1>11 DEF Meets

LEMMA FileIdMeets ==
  ASSUME Types, Types', Places, NEW w \in Workers, FileId(w),
         NEW m \in Sms, m = SmsOf(w), Meets(m)
  PROVE  Meets(m)'
<1> USE PdusAreKnown DEF Types, TypeOK
<1>1. /\ Busy(w) /\ At(w, "fileId")
      /\ pc' = [pc EXCEPT ![w] = "enqueue"]
      /\ UNCHANGED <<smscVars, pdus, wPdu, updateQueue, row, m_vcMsgIdSyncMap>>
      /\ m \in m_vcMsgIdMap'
      /\ \A u \in Workers : u # w => wQuery'[u] = wQuery[u]
      /\ wQuery'[w] = Update(m, SMS_ST_ACKNOWLEDGED)
  BY DEF FileId, Busy, At, Goto, dbVars
<1>2. IsAnswer(wPdu[w])
  BY <1>1 DEF HandFits, At, IsAnswer, AnswerTypes
<1>3. /\ Holds(w, m) /\ Holds(w, m)' /\ OneHand(m)'
      /\ pc'[w] = "enqueue"
      /\ \A u \in Workers : u # w =>
           ~Holds(u, m) /\ ~Brings(u, m) /\ ~Holds(u, m)' /\ ~Brings(u, m)'
      /\ Quiet(m)' <=> Quiet(m)
      /\ ReceiptToCome(m)' <=> ReceiptToCome(m)
  BY <1>1, OwnMessage
<1>4. NotAnswered(m)
  BY <1>1, <1>2, <1>3 DEF NotAnswered, At
<1>5. m \notin DOMAIN m_vcMsgIdSyncMap
  BY <1>1, <1>3 DEF Meets, SearchHolds
<1>6. Quiet(m) /\ ReceiptToCome(m)
  BY <1>1, <1>3, <1>4, <1>5 DEF Meets, AwaitsAnswer, At
<1>7. ~NotAnswered(m)'
  BY <1>1, <1>2, <1>3, AnswerDone
<1>8. \A i \in 1 .. Len(updateQueue') : ~RowOf(updateQueue'[i], m)
  BY <1>1, <1>6 DEF Quiet
<1>9. wQuery'[w].status = SMS_ST_ACKNOWLEDGED
  BY <1>1 DEF Update
<1>10. AwaitsReceipt(m)'
  BY <1>1, <1>2, <1>3, <1>5, <1>6, <1>8, <1>9 DEF AwaitsReceipt, Quiet, IsAnswer
<1>11. AwaitsAnswer(m)' /\ HaveMet(m)'
  BY <1>1, <1>7 DEF AwaitsAnswer, HaveMet
<1>12. SearchHolds(m)'
  BY <1>3, <1>6 DEF SearchHolds, At
<1>13. InOrder(m)'
  <2>1. Finds(m, wQuery[w].status)'
    BY <1>1, <1>6 DEF Quiet, Finds
  <2> QED BY <1>3, <1>8, <2>1 DEF InOrder
<1> QED BY <1>3, <1>10, <1>11, <1>12, <1>13 DEF Meets

(* What a worker that has a receipt in hand knows of it. *)
LEMMA ReceiptInHand ==
  ASSUME Types, Places, NEW w \in Workers, pc[w] \in ReceiptLabels,
         NEW m \in Sms, m = SmsOf(w)
  PROVE  /\ Busy(w) /\ ~IsAnswer(wPdu[w]) /\ m \in accepted
         /\ wPdu[w].state = report[m]
<1>1. /\ Busy(w) /\ wPdu[w] \in Pdu /\ wPdu[w].type = "receipt" /\ Legit(wPdu[w])
  BY DEF Types, HandFits, ReceiptLabels, Busy, At, Places, SmscRecords
<1>2. ~IsAnswer(wPdu[w]) /\ wPdu[w].n = receipts[m] /\ wPdu[w].state = report[m]
  BY <1>1 DEF IsAnswer, AnswerTypes, Legit, SmsOf
<1>3. receipts[m] > 0
  BY <1>1, <1>2, PdusAreKnown, ReceiptAssumption
<1> QED BY <1>1, <1>2, <1>3 DEF Places, SmscRecords

LEMMA ReceiptIsNoAck ==
  ASSUME Types, NEW s \in Sms
  PROVE  SMS_ST_ACKNOWLEDGED \notin Wanted(s) /\ SMS_ST_PICKED \notin Wanted(s)
<1>1. report[s] \in 0 .. 9
  BY ReceiptAssumption DEF Types, TypeOK
<1> QED
  BY <1>1 DEF Wanted, ReportedStatus, SMS_ST_ACKNOWLEDGED, SMS_ST_PICKED,
              SMS_ST_FAILED

LEMMA FindIdMeets ==
  ASSUME Types, Types', Places, NEW w \in Workers, FindId(w),
         NEW m \in Sms, m = SmsOf(w), Meets(m)
  PROVE  Meets(m)'
<1> USE PdusAreKnown DEF Types, TypeOK
<1>1. PICK label \in {"takeId", "fileState"} :
        /\ pc' = [pc EXCEPT ![w] = label]
        /\ label = "takeId" <=> m \in m_vcMsgIdMap
  BY DEF FindId, Goto
<1>2. /\ Busy(w) /\ At(w, "findId") /\ label # "idle"
      /\ UNCHANGED <<smscVars, pdus, wPdu, wQuery, updateQueue, row,
                     m_vcMsgIdMap, m_vcMsgIdSyncMap>>
  BY DEF FindId, Busy, At, mapVars, dbVars
<1>3. ~IsAnswer(wPdu[w])
  BY <1>2, ReceiptInHand DEF At, ReceiptLabels
<1>4. /\ Holds(w, m) /\ Holds(w, m)' /\ OneHand(m)'
      /\ pc'[w] = label
      /\ \A u \in Workers : u # w =>
           ~Holds(u, m) /\ ~Brings(u, m) /\ ~Holds(u, m)' /\ ~Brings(u, m)'
      /\ Quiet(m)' <=> Quiet(m)
      /\ ReceiptToCome(m)' <=> ReceiptToCome(m)
      /\ Wanted(m)' = Wanted(m)
  BY <1>1, <1>2, OwnMessage
<1>5. \A u \in Workers : ~Brings(u, m) /\ ~Brings(u, m)'
  BY <1>1, <1>2, <1>4 DEF Brings, At
<1>6. NotAnswered(m)' <=> NotAnswered(m)
  BY <1>2, <1>3, <1>4 DEF NotAnswered, IsAnswer, smscVars
<1>7. AwaitsAnswer(m)'
  BY <1>1, <1>2, <1>4, <1>5, <1>6 DEF Meets, AwaitsAnswer
<1>8. AwaitsReceipt(m)'
  BY <1>1, <1>2, <1>4, <1>5 DEF Meets, AwaitsReceipt
<1>9. HaveMet(m)'
  <2>1. Booked(m) => Booked(m)'
    BY <1>2, <1>4, <1>5 DEF Booked
  <2> QED BY <1>2, <1>6, <2>1 DEF Meets, HaveMet, smscVars
<1>10. SearchHolds(m)'
  BY <1>1, <1>2, <1>3, <1>4 DEF SearchHolds, At, IsAnswer
<1>11. InOrder(m)'
  <2>1. \A status : Finds(m, status)' <=> Finds(m, status)
    BY <1>2 DEF Finds, smscVars
  <2> QED BY <1>2, <1>4, <1>5, <2>1 DEF Meets, InOrder
<1> QED BY <1>4, <1>7, <1>8, <1>9, <1>10, <1>11 DEF Meets

LEMMA TakeIdMeets ==
  ASSUME Types, Types', Places, NEW w \in Workers, TakeId(w),
         NEW m \in Sms, m = SmsOf(w), Meets(m)
  PROVE  Meets(m)'
<1> USE PdusAreKnown DEF Types, TypeOK
<1>1. /\ Busy(w) /\ At(w, "takeId") /\ m \in m_vcMsgIdMap
      /\ pc' = [pc EXCEPT ![w] = "enqueue"]
      /\ UNCHANGED <<smscVars, pdus, wPdu, updateQueue, row, m_vcMsgIdSyncMap>>
      /\ m \notin m_vcMsgIdMap'
      /\ \A u \in Workers : u # w => wQuery'[u] = wQuery[u]
      /\ wQuery'[w] = Update(m, ReportedStatus(wPdu[w].state))
  BY DEF TakeId, Busy, At, Goto, dbVars
<1>2. ~IsAnswer(wPdu[w]) /\ m \in accepted /\ wPdu[w].state = report[m]
  BY <1>1, ReceiptInHand DEF At, ReceiptLabels
<1>3. /\ Holds(w, m) /\ Holds(w, m)' /\ OneHand(m)'
      /\ pc'[w] = "enqueue"
      /\ \A u \in Workers : u # w =>
           ~Holds(u, m) /\ ~Brings(u, m) /\ ~Holds(u, m)' /\ ~Brings(u, m)'
      /\ Wanted(m)' = Wanted(m)
  BY <1>1, OwnMessage
<1>4. /\ wQuery'[w].table = "row" /\ wQuery'[w].sms = m
      /\ wQuery'[w].status \in Wanted(m)
  BY <1>1, <1>2 DEF Update, Wanted
<1>5. ~NotAnswered(m)'
  <2>1. ~NotAnswered(m)
    BY <1>1 DEF Meets, AwaitsAnswer
  <2> QED BY <1>1, <1>2, <1>3, <2>1 DEF NotAnswered, IsAnswer, smscVars
<1>6. AwaitsAnswer(m)' /\ AwaitsReceipt(m)'
  BY <1>1, <1>5 DEF AwaitsAnswer, AwaitsReceipt
<1>7. HaveMet(m)'
  <2>1. Brings(w, m)'
    BY <1>3, <1>4 DEF Brings, RowOf, At
  <2> QED BY <1>3, <1>4, <2>1 DEF HaveMet, Booked
<1>8. SearchHolds(m)'
  BY <1>1, <1>2, <1>3 DEF SearchHolds, At, IsAnswer
<1>9. InOrder(m)'
  <2>1. \A i \in 1 .. Len(updateQueue') : RowOf(updateQueue'[i], m) =>
          updateQueue'[i].status = SMS_ST_ACKNOWLEDGED
    BY <1>1 DEF Meets, AwaitsReceipt
  <2>2. Finds(m, wQuery[w].status)'
    <3>1. row[m] \in {SMS_ST_PICKED, SMS_ST_ACKNOWLEDGED}
      BY <1>1 DEF Meets, AwaitsReceipt
    <3>2. wQuery'[w].status # SMS_ST_ACKNOWLEDGED
      BY <1>4, ReceiptIsNoAck
    <3> QED BY <1>1, <1>2, <3>1, <3>2 DEF Finds, smscVars
  <2>3. \A status : Finds(m, status)' <=> Finds(m, status)
    BY <1>1 DEF Finds, smscVars
  <2> QED BY <1>1, <1>3, <1>4, <2>1, <2>2, <2>3 DEF Meets, InOrder
<1> QED BY <1>3, <1>6, <1>7, <1>8, <1>9 DEF Meets

LEMMA FileStateMeets ==
  ASSUME Types, Types', Places, NEW w \in Workers, FileState(w),
         NEW m \in Sms, m = SmsOf(w), Meets(m)
  PROVE  Meets(m)'
<1> USE PdusAreKnown DEF Types, TypeOK
<1>1. /\ Busy(w) /\ At(w, "fileState")
      /\ pc' = [pc EXCEPT ![w] = "enqueue"]
      /\ UNCHANGED <<smscVars, pdus, wPdu, updateQueue, row, m_vcMsgIdMap>>
      /\ m \in DOMAIN m_vcMsgIdSyncMap'
      /\ \A u \in Workers : u # w => wQuery'[u] = wQuery[u]
      /\ wQuery'[w] = InsertError(m, ReportedStatus(wPdu[w].state))
  BY DEF FileState, Busy, At, Goto, dbVars
<1>2. ~IsAnswer(wPdu[w])
  BY <1>1, ReceiptInHand DEF At, ReceiptLabels
<1>3. /\ Holds(w, m) /\ Holds(w, m)' /\ OneHand(m)'
      /\ pc'[w] = "enqueue"
      /\ \A u \in Workers : u # w =>
           ~Holds(u, m) /\ ~Brings(u, m) /\ ~Holds(u, m)' /\ ~Brings(u, m)'
      /\ Quiet(m)' <=> Quiet(m)
      /\ Wanted(m)' = Wanted(m)
  BY <1>1, OwnMessage
<1>4. m \notin m_vcMsgIdMap
  BY <1>1, <1>3 DEF Meets, SearchHolds
<1>5. wQuery'[w].table = "error"
  BY <1>1 DEF InsertError
<1>6. \A u \in Workers : ~Brings(u, m) /\ ~Brings(u, m)'
  BY <1>1, <1>3, <1>5 DEF Brings, RowOf, At
<1>7. NotAnswered(m)' <=> NotAnswered(m)
  BY <1>1, <1>2, <1>3 DEF NotAnswered, IsAnswer, smscVars
<1>8. AwaitsAnswer(m)'
  BY <1>1, <1>3, <1>6, <1>7 DEF Meets, AwaitsAnswer
<1>9. AwaitsReceipt(m)'
  BY <1>1, <1>4 DEF AwaitsReceipt
<1>10. HaveMet(m)'
  <2>1. Booked(m) => Booked(m)'
    BY <1>1, <1>3, <1>6 DEF Booked
  <2> QED BY <1>1, <1>7, <2>1 DEF Meets, HaveMet, smscVars
<1>11. SearchHolds(m)'
  BY <1>1, <1>2, <1>3 DEF SearchHolds, At, IsAnswer
<1>12. InOrder(m)'
  <2>1. \A status : Finds(m, status)' <=> Finds(m, status)
    BY <1>1 DEF Finds, smscVars
  <2> QED BY <1>1, <1>3, <1>6, <2>1 DEF Meets, InOrder
<1> QED BY <1>3, <1>8, <1>9, <1>10, <1>11, <1>12 DEF Meets

(* The steps of the SMSC. *)
LEMMA AnswerMeets ==
  ASSUME Types, Types', Places, NEW s \in Sms, NEW type \in {"ok", "nok"},
         Answer(s, type), NEW v \in Sms, Meets(v)
  PROVE  Meets(v)'
<1> USE PdusAreKnown DEF Types, TypeOK
<1> DEFINE new == [type |-> type, sms |-> s]
<1>1. /\ s \in unsent /\ unsent' = unsent \ {s}
      /\ accepted' = IF type = "ok" THEN accepted \union {s} ELSE accepted
      /\ pdus' = pdus \union {new}
      /\ UNCHANGED <<receipts, report, m_vcMsgIdMap, m_vcMsgIdSyncMap, pc, wPdu,
                     wQuery, updateQueue, row>>
  BY DEF Answer, mapVars, dbVars
<1>2. new.sms = s /\ IsAnswer(new)
  BY DEF IsAnswer, AnswerTypes
<1> HIDE DEF new
<1>3. \A u \in Workers : Holds(u, v)' <=> Holds(u, v)
  BY <1>1 DEF Holds, Busy, At, SmsOf
<1>4. CASE v # s
  <2>1. \A p \in Pdu : p.sms = v => (p \in pdus' <=> p \in pdus)
    BY <1>1, <1>2, <1>4
  <2>2. /\ v \in accepted' <=> v \in accepted
        /\ v \in unsent' <=> v \in unsent
    BY <1>1, <1>4
  <2>3. /\ \A i \in 1 .. Len(updateQueue') : RowOf(updateQueue'[i], v) =>
             i + 0 \in 1 .. Len(updateQueue) /\ updateQueue[i + 0] = updateQueue'[i]
        /\ \A i \in 1 .. Len(updateQueue) : RowOf(updateQueue[i], v) =>
             i - 0 \in 1 .. Len(updateQueue') /\ updateQueue'[i - 0] = updateQueue[i]
    BY <1>1
  <2> QED BY <1>1, <1>3, <2>1, <2>2, <2>3, OthersMeet
<1>5. CASE v = s
  <2>1. receipts[s] = 0 /\ s \notin accepted
    BY <1>1, ReceiptAssumption DEF Places, SmscRecords
  <2>2. \A u \in Workers : ~Holds(u, s)
    <3> SUFFICES ASSUME NEW u \in Workers, Holds(u, s) PROVE FALSE
      OBVIOUS
    <3>1. wPdu[u] \in Pdu /\ Legit(wPdu[u]) /\ wPdu[u].sms = s
      BY DEF HandFits, Holds, Busy, SmsOf, Places, SmscRecords
    <3>2. ~IsAnswer(wPdu[u])
      BY <1>1, <3>1 DEF Legit
    <3>3. wPdu[u].n = 0 /\ wPdu[u].type = "receipt"
      BY <2>1, <3>1, <3>2 DEF Legit, IsAnswer
    <3> QED BY <3>1, <3>3
  <2>3. \A u \in Workers : ~Holds(u, s)' /\ ~Brings(u, s) /\ ~Brings(u, s)'
    <3>1. \A u \in Workers : ~Holds(u, s)' /\ ~Brings(u, s)
      BY <1>3, <1>5, <2>2, BringersHold
    <3> QED BY <1>1, <3>1 DEF Brings, At
  <2>4. NotAnswered(s)
    BY <1>1 DEF NotAnswered
  <2>5. NotAnswered(s)'
    BY <1>1, <1>2 DEF NotAnswered, IsAnswer
  <2>6. Quiet(s) /\ s \notin m_vcMsgIdMap
    BY <1>5, <2>4 DEF Meets, AwaitsAnswer
  <2>7. Quiet(s)'
    BY <1>1, <2>6 DEF Quiet
  <2>8. AwaitsAnswer(s)' /\ AwaitsReceipt(s)' /\ HaveMet(s)'
    BY <1>1, <2>1, <2>3, <2>5, <2>6, <2>7
    DEF AwaitsAnswer, AwaitsReceipt, HaveMet, ReceiptToCome
  <2>9. OneHand(s)' /\ SearchHolds(s)'
    BY <2>3 DEF OneHand, SearchHolds
  <2>10. InOrder(s)'
    BY <2>3, <2>7 DEF InOrder, Quiet
  <2> QED BY <1>5, <2>8, <2>9, <2>10 DEF Meets
<1> QED BY <1>4, <1>5

LEMMA ReceiptMeets ==
  ASSUME Types, Types', Places, NEW s \in Sms, Receipt(s), NEW v \in Sms, Meets(v)
  PROVE  Meets(v)'
<1> USE PdusAreKnown DEF Types, TypeOK
<1> DEFINE new == ReceiptOf(s, receipts[s] + 1)
<1>1. /\ receipts' = [receipts EXCEPT ![s] = receipts[s] + 1]
      /\ pdus' = pdus \union {new}
      /\ UNCHANGED <<unsent, report, accepted, m_vcMsgIdMap, m_vcMsgIdSyncMap,
                     pc, wPdu, wQuery, updateQueue, row>>
  BY DEF Receipt, mapVars, dbVars
<1>2. new.sms = s /\ new.type = "receipt" /\ ~IsAnswer(new)
  BY DEF ReceiptOf, IsAnswer, AnswerTypes
<1> HIDE DEF new
<1>3. \A u \in Workers : /\ Holds(u, v)' <=> Holds(u, v)
                         /\ Brings(u, v)' <=> Brings(u, v)
  BY <1>1 DEF Holds, Brings, Busy, At, SmsOf
<1>4. CASE v # s
  <2>1. \A p \in Pdu : p.sms = v => (p \in pdus' <=> p \in pdus)
    BY <1>1, <1>2, <1>4
  <2>2. receipts'[v] = receipts[v]
    BY <1>1, <1>4
  <2>3. /\ \A i \in 1 .. Len(updateQueue') : RowOf(updateQueue'[i], v) =>
             i + 0 \in 1 .. Len(updateQueue) /\ updateQueue[i + 0] = updateQueue'[i]
        /\ \A i \in 1 .. Len(updateQueue) : RowOf(updateQueue[i], v) =>
             i - 0 \in 1 .. Len(updateQueue') /\ updateQueue'[i - 0] = updateQueue[i]
    BY <1>1
  <2> QED BY <1>1, <1>3, <2>1, <2>2, <2>3, OthersMeet
<1>5. CASE v = s
  <2>1. ReceiptToCome(v)'
    BY <1>1, <1>2, <1>5 DEF ReceiptToCome
  <2>2. NotAnswered(v)' <=> NotAnswered(v)
    BY <1>1, <1>2, <1>3 DEF NotAnswered, IsAnswer, At
  <2>3. Quiet(v)' <=> Quiet(v)
    BY <1>1 DEF Quiet
  <2>4. Wanted(v)' = Wanted(v)
    BY <1>1 DEF Wanted
  <2>5. AwaitsAnswer(v)' /\ AwaitsReceipt(v)'
    BY <1>1, <1>3, <2>1, <2>2, <2>3
    DEF Meets, AwaitsAnswer, AwaitsReceipt, IsAnswer
  <2>6. HaveMet(v)'
    BY <1>1, <1>3, <2>2, <2>4 DEF Meets, HaveMet, Booked
  <2>7. OneHand(v)' /\ SearchHolds(v)'
    BY <1>1, <1>3, <2>3 DEF Meets, OneHand, SearchHolds, At, IsAnswer
  <2>8. InOrder(v)'
    BY <1>1, <1>3, <2>4 DEF Meets, InOrder, Finds
  <2> QED BY <2>5, <2>6, <2>7, <2>8 DEF Meets
<1> QED BY <1>4, <1>5

LEMMA TakePduMeets ==
  ASSUME Types, Types', Places, NEW w \in Workers, TakePdu(w),
         NEW v \in Sms \ crossed', Meets(v)
  PROVE  Meets(v)'
<1> USE PdusAreKnown DEF Types, TypeOK
<1>1. PICK p \in pdus :
        /\ pdus' = pdus \ {p} /\ wPdu' = [wPdu EXCEPT ![w] = p]
        /\ pc' = [pc EXCEPT ![w] =
                    IF p.type = "receipt" THEN "findId" ELSE "findState"]
        /\ crossed' = crossed \union
             {s \in {p.sms} : \E u \in Workers : Busy(u) /\ SmsOf(u) = s}
  BY DEF TakePdu, Goto
<1>2. /\ At(w, "idle") /\ p \in Pdu
      /\ UNCHANGED <<smscVars, m_vcMsgIdMap, m_vcMsgIdSyncMap, wQuery,
                     updateQueue, row>>
  BY DEF TakePdu, mapVars, dbVars
<1>3. /\ \A u \in Workers : u # w => pc'[u] = pc[u] /\ wPdu'[u] = wPdu[u]
      /\ wPdu'[w] = p /\ pc'[w] = IF p.type = "receipt" THEN "findId" ELSE "findState"
  BY <1>1
<1>4. /\ \A u \in Workers : u # w => (Holds(u, v)' <=> Holds(u, v))
      /\ ~Holds(w, v) /\ (Holds(w, v)' <=> p.sms = v)
  BY <1>2, <1>3 DEF Holds, Busy, At, SmsOf
<1>5. \A u \in Workers : Brings(u, v)' <=> Brings(u, v)
  BY <1>2, <1>3 DEF Brings, At
<1>6. CASE p.sms # v
  <2>1. \A r \in Pdu : r.sms = v => (r \in pdus' <=> r \in pdus)
    BY <1>1, <1>6
  <2>2. /\ v \in accepted' <=> v \in accepted
        /\ v \in unsent' <=> v \in unsent
        /\ receipts'[v] = receipts[v] /\ report' = report
    BY <1>2 DEF smscVars
  <2>3. /\ \A i \in 1 .. Len(updateQueue') : RowOf(updateQueue'[i], v) =>
             i + 0 \in 1 .. Len(updateQueue) /\ updateQueue[i + 0] = updateQueue'[i]
        /\ \A i \in 1 .. Len(updateQueue) : RowOf(updateQueue[i], v) =>
             i - 0 \in 1 .. Len(updateQueue') /\ updateQueue'[i - 0] = updateQueue[i]
    BY <1>2
  <2>4. \A u \in Workers :
          /\ Holds(u, v)' <=> Holds(u, v)
          /\ Holds(u, v) => pc'[u] = pc[u] /\ wPdu'[u] = wPdu[u]
                            /\ wQuery'[u] = wQuery[u]
    BY <1>2, <1>3, <1>4, <1>6
  <2> QED BY <1>2, <2>1, <2>2, <2>3, <2>4, OthersMeet
<1>7. CASE p.sms = v
  <2>1. \A u \in Workers : ~Holds(u, v) /\ ~Brings(u, v)
    BY <1>1, <1>7, BringersHold DEF Holds
  <2>2. /\ \A u \in Workers : ~Brings(u, v)'
        /\ \A u \in Workers : Holds(u, v)' <=> u = w
    BY <1>4, <1>5, <1>7, <2>1
  <2>3. NotAnswered(v)' <=> NotAnswered(v)
    <3>1. CASE IsAnswer(p)
      BY <1>1, <1>3, <1>7, <2>2, <3>1
      DEF NotAnswered, IsAnswer, At, AnswerTypes
    <3>2. CASE ~IsAnswer(p)
      BY <1>1, <1>2, <1>3, <1>7, <2>1, <2>2, <3>2
      DEF NotAnswered, IsAnswer, smscVars
    <3> QED BY <3>1, <3>2
  <2>4. Quiet(v)' <=> Quiet(v)
    BY <1>2 DEF Quiet
  <2>5. Wanted(v)' = Wanted(v) /\ \A status : Finds(v, status)' <=> Finds(v, status)
    BY <1>2 DEF Wanted, Finds, smscVars
  <2>6. IsAnswer(p) => NotAnswered(v)
    BY <1>7 DEF NotAnswered
  <2>7. \/ ~IsAnswer(p) /\ pc'[w] = "findId"
        \/ IsAnswer(p) /\ (ReceiptToCome(v) => ReceiptToCome(v)')
    BY <1>1, <1>2, <1>3 DEF IsAnswer, AnswerTypes, ReceiptToCome, smscVars
  <2>8. AwaitsAnswer(v)'
    BY <1>2, <2>1, <2>2, <2>3, <2>4, <2>7 DEF Meets, AwaitsAnswer
  <2>9. AwaitsReceipt(v)'
    <3>1. CASE IsAnswer(p)
      BY <1>2, <2>6, <3>1 DEF Meets, AwaitsAnswer, AwaitsReceipt
    <3>2. CASE ~IsAnswer(p)
      BY <1>2, <2>2, <2>7, <3>2 DEF Meets, AwaitsReceipt
    <3> QED BY <3>1, <3>2
  <2>10. HaveMet(v)'
    BY <1>2, <2>1, <2>3, <2>5 DEF Meets, HaveMet, Booked, smscVars
  <2>11. OneHand(v)'
    BY <2>2 DEF OneHand
  <2>12. SearchHolds(v)'
    <3>1. IsAnswer(p) => Quiet(v)
      BY <2>6 DEF Meets, AwaitsAnswer
    <3> QED BY <1>3, <2>2, <2>4, <3>1 DEF SearchHolds, At, IsAnswer
  <2>13. InOrder(v)'
    BY <1>2, <2>2, <2>5 DEF Meets, InOrder
  <2> QED BY <2>8, <2>9, <2>10, <2>11, <2>12, <2>13 DEF Meets
<1> QED BY <1>6, <1>7

(* The queue. *)
LEMMA EnqueueMeets ==
  ASSUME Types, Types', Places, NEW w \in Workers, EnqueueQuery(w),
         NEW v \in Sms, Meets(v)
  PROVE  Meets(v)'
<1> USE PdusAreKnown DEF Types, TypeOK
<1> DEFINE q == wQuery[w]
           n == Len(updateQueue)
<1>1. /\ At(w, "enqueue") /\ Busy(w)
      /\ updateQueue' = Append(updateQueue, q)
      /\ wPdu' = [wPdu EXCEPT ![w] = NoPdu]
      /\ wQuery' = [wQuery EXCEPT ![w] = NoQuery]
      /\ pc' = [pc EXCEPT ![w] = "idle"]
      /\ UNCHANGED <<smscVars, pdus, m_vcMsgIdMap, m_vcMsgIdSyncMap, row>>
  BY DEF EnqueueQuery, Goto, mapVars, dbVars, Busy, At
<1>2. q \in Query /\ q.sms = SmsOf(w)
  BY <1>1 DEF HandFits
<1>3. /\ n \in Nat /\ Len(updateQueue') = n + 1 /\ updateQueue'[n + 1] = q
      /\ \A i \in 1 .. n : updateQueue'[i] = updateQueue[i]
  BY <1>1, <1>2, QueueAppended, LenProperties
<1> HIDE DEF q, n
<1>4. /\ \A u \in Workers : u # w => (Holds(u, v)' <=> Holds(u, v))
      /\ ~Holds(w, v)' /\ ~Brings(w, v)'
      /\ \A u \in Workers : u # w => (Brings(u, v)' <=> Brings(u, v))
  BY <1>1 DEF Holds, Brings, Busy, At, SmsOf
<1>5. /\ Wanted(v)' = Wanted(v)
      /\ \A status : Finds(v, status)' <=> Finds(v, status)
      /\ ReceiptToCome(v)' <=> ReceiptToCome(v)
  BY <1>1 DEF Wanted, Finds, ReceiptToCome, smscVars
<1>6. CASE SmsOf(w) # v
  <2>1. ~Holds(w, v) /\ ~RowOf(q, v)
    BY <1>2, <1>6 DEF Holds, RowOf
  <2>2. /\ \A i \in 1 .. Len(updateQueue') : RowOf(updateQueue'[i], v) =>
             i + 0 \in 1 .. Len(updateQueue) /\ updateQueue[i + 0] = updateQueue'[i]
        /\ \A i \in 1 .. Len(updateQueue) : RowOf(updateQueue[i], v) =>
             i - 0 \in 1 .. Len(updateQueue') /\ updateQueue'[i - 0] = updateQueue[i]
    <3>1. \A i \in 1 .. n + 1 : i \in 1 .. n \/ i = n + 1
      BY <1>3
    <3>2. \A i \in 1 .. n : i \in 1 .. n + 1 /\ i + 0 = i /\ i - 0 = i
      BY <1>3
    <3> QED BY <1>3, <2>1, <3>1, <3>2 DEF n
  <2>3. /\ v \in accepted' <=> v \in accepted
        /\ v \in unsent' <=> v \in unsent
        /\ receipts'[v] = receipts[v] /\ report' = report
    BY <1>1 DEF smscVars
  <2>4. \A u \in Workers :
          /\ Holds(u, v)' <=> Holds(u, v)
          /\ Holds(u, v) => pc'[u] = pc[u] /\ wPdu'[u] = wPdu[u]
                            /\ wQuery'[u] = wQuery[u]
    BY <1>1, <1>4, <2>1
  <2> QED BY <1>1, <2>2, <2>3, <2>4, OthersMeet
<1>7. CASE SmsOf(w) = v
  <2>1. /\ Holds(w, v)
        /\ \A u \in Workers : u # w => ~Holds(u, v) /\ ~Brings(u, v)
    BY <1>1, <1>7, Alone DEF Holds, Meets
  <2>2. \A u \in Workers : ~Holds(u, v)' /\ ~Brings(u, v)'
    BY <1>4, <2>1
  <2>3. NotAnswered(v)' <=> NotAnswered(v)
    <3>1. ~\E u \in Workers : Holds(u, v) /\ IsAnswer(wPdu[u]) /\ ~At(u, "enqueue")
      BY <1>1, <2>1
    <3>2. ~\E u \in Workers :
             (Holds(u, v) /\ IsAnswer(wPdu[u]) /\ ~At(u, "enqueue"))'
      BY <2>2
    <3>3. v \in unsent' <=> v \in unsent
      BY <1>1 DEF smscVars
    <3> QED BY <1>1, <3>1, <3>2, <3>3 DEF NotAnswered, IsAnswer
  <2>4. OneHand(v)' /\ SearchHolds(v)'
    BY <2>2 DEF OneHand, SearchHolds
  <2>5. Brings(w, v) <=> RowOf(q, v)
    BY <1>1 DEF Brings, q
  <2>6. AwaitsAnswer(v)'
    <3> SUFFICES ASSUME NotAnswered(v)
                 PROVE  (/\ Quiet(v) /\ v \notin m_vcMsgIdMap
                         /\ ReceiptToCome(v) \/ v \in DOMAIN m_vcMsgIdSyncMap)'
      BY <2>2, <2>3 DEF AwaitsAnswer
    <3>1. /\ Quiet(v) /\ v \notin m_vcMsgIdMap /\ ~RowOf(q, v)
          /\ ReceiptToCome(v) \/ v \in DOMAIN m_vcMsgIdSyncMap
      BY <1>1, <2>1, <2>5 DEF Meets, AwaitsAnswer, At
    <3>2. \A i \in 1 .. n + 1 : i \in 1 .. n \/ i = n + 1
      BY <1>3
    <3>3. Quiet(v)'
      BY <1>1, <1>3, <3>1, <3>2 DEF Quiet, n
    <3> QED BY <1>1, <1>5, <3>1, <3>3
  <2>7. AwaitsReceipt(v)'
    <3> SUFFICES ASSUME v \in m_vcMsgIdMap
                 PROVE  /\ v \notin DOMAIN m_vcMsgIdSyncMap
                        /\ ReceiptToCome(v)
                        /\ row[v] \in {SMS_ST_PICKED, SMS_ST_ACKNOWLEDGED}
                        /\ \A i \in 1 .. n + 1 : RowOf(updateQueue'[i], v) =>
                             updateQueue'[i].status = SMS_ST_ACKNOWLEDGED
      BY <1>1, <1>3, <1>5, <2>2 DEF AwaitsReceipt, RowOf
    <3>1. /\ v \notin DOMAIN m_vcMsgIdSyncMap
          /\ ReceiptToCome(v)
          /\ row[v] \in {SMS_ST_PICKED, SMS_ST_ACKNOWLEDGED}
      BY <1>1, <2>1 DEF Meets, AwaitsReceipt, At
    <3>2. \A i \in 1 .. n + 1 : RowOf(updateQueue'[i], v) =>
            updateQueue'[i].status = SMS_ST_ACKNOWLEDGED
      <4>1. \A i \in 1 .. n + 1 : i \in 1 .. n \/ i = n + 1
        BY <1>3
      <4>2. \A i \in 1 .. n : RowOf(updateQueue[i], v) =>
              updateQueue[i].status = SMS_ST_ACKNOWLEDGED
        BY DEF Meets, AwaitsReceipt, n
      <4>3. RowOf(q, v) => q.status = SMS_ST_ACKNOWLEDGED
        BY <2>5 DEF Meets, AwaitsReceipt, q
      <4> QED BY <1>3, <4>1, <4>2, <4>3
    <3> QED BY <3>1, <3>2
  <2>8. HaveMet(v)'
    <3> SUFFICES ASSUME Booked(v) PROVE Booked(v)'
      BY <1>1, <2>3 DEF Meets, HaveMet, smscVars
    <3>1. CASE row[v] \in Wanted(v)
      BY <1>1, <1>5, <3>1 DEF Booked
    <3>2. CASE \E i \in 1 .. n :
                 RowOf(updateQueue[i], v) /\ updateQueue[i].status \in Wanted(v)
      <4>1. PICK i \in 1 .. n :
              RowOf(updateQueue[i], v) /\ updateQueue[i].status \in Wanted(v)
        BY <3>2
      <4>2. i \in 1 .. n + 1 /\ updateQueue'[i] = updateQueue[i]
        BY <1>3
      <4> QED BY <1>3, <1>5, <4>1, <4>2 DEF Booked, RowOf
    <3>3. CASE \E u \in Workers : Brings(u, v) /\ wQuery[u].status \in Wanted(v)
      <4>1. RowOf(q, v) /\ q.status \in Wanted(v)
        BY <2>1, <2>5, <3>3 DEF q
      <4>2. n + 1 \in 1 .. n + 1
        BY <1>3
      <4> QED BY <1>3, <1>5, <4>1, <4>2 DEF Booked, RowOf
    <3> QED BY <3>1, <3>2, <3>3 DEF Booked, n
  <2>9. InOrder(v)'
    <3>1. \A i \in 1 .. n + 1 : i \in 1 .. n \/ i = n + 1
      BY <1>3
    <3>2. \A i, j \in 1 .. n + 1 :
            RowOf(updateQueue'[i], v) /\ RowOf(updateQueue'[j], v) /\ i < j =>
              /\ updateQueue'[i].status = SMS_ST_ACKNOWLEDGED
              /\ updateQueue'[j].status \in Wanted(v)
      <4> SUFFICES ASSUME NEW i \in 1 .. n + 1, NEW j \in 1 .. n + 1, i < j,
                          RowOf(updateQueue'[i], v), RowOf(updateQueue'[j], v)
                   PROVE  /\ updateQueue'[i].status = SMS_ST_ACKNOWLEDGED
                          /\ updateQueue'[j].status \in Wanted(v)
        OBVIOUS
      <4>1. i \in 1 .. n /\ updateQueue'[i] = updateQueue[i]
        BY <1>3
      <4>2. CASE j \in 1 .. n
        BY <1>3, <4>1, <4>2 DEF Meets, InOrder, n
      <4>3. CASE j = n + 1
        <5>1. Brings(w, v) /\ updateQueue'[j] = q
          BY <1>3, <2>5, <4>3
        <5>2. RowOf(updateQueue[i], v) /\ i \in 1 .. Len(updateQueue)
          BY <4>1 DEF n
        <5> QED BY <4>1, <5>1, <5>2 DEF Meets, InOrder, q
      <4> QED BY <3>1, <4>2, <4>3
    <3>3. \A i \in 1 .. n + 1 :
            RowOf(updateQueue'[i], v) => Finds(v, updateQueue'[i].status)
      <4>1. \A i \in 1 .. n :
              RowOf(updateQueue[i], v) => Finds(v, updateQueue[i].status)
        BY DEF Meets, InOrder, n
      <4>2. RowOf(q, v) => Finds(v, q.status)
        BY <2>5 DEF Meets, InOrder, q
      <4> QED BY <1>3, <3>1, <4>1, <4>2
    <3>4. ASSUME NEW i \in 1 .. n + 1, RowOf(updateQueue'[i], v)
          PROVE  Finds(v, updateQueue[i].status)'
      BY <1>5, <3>3, <3>4 DEF Finds
    <3>5. /\ \A i, j \in 1 .. n + 1 :
               RowOf(updateQueue'[i], v) /\ RowOf(updateQueue'[j], v) /\ i < j =>
                 /\ updateQueue'[i].status = SMS_ST_ACKNOWLEDGED
                 /\ updateQueue'[j].status \in Wanted(v)'
      BY <1>5, <3>2
    <3> QED BY <1>3, <2>2, <3>4, <3>5 DEF InOrder, RowOf
  <2> QED BY <2>4, <2>6, <2>7, <2>8, <2>9 DEF Meets
<1> QED BY <1>6, <1>7

(* The oldest update finds the row as it should, and settles it or leaves  *)
(* only a receipt's status to come. *)
LEMMA OldestQuery ==
  ASSUME Types, ExecuteQuery
  PROVE  LET n == Len(updateQueue) IN
         /\ n \in Nat /\ n > 0 /\ Len(updateQueue') = n - 1
         /\ Head(updateQueue) = updateQueue[1] /\ updateQueue[1] \in Query
         /\ \A i \in 1 .. n - 1 : updateQueue'[i] = updateQueue[i + 1]
         /\ UNCHANGED <<smscVars, pdus, m_vcMsgIdMap, m_vcMsgIdSyncMap, pc, wPdu,
                        wQuery, crossed>>
<1>1. updateQueue # << >> /\ updateQueue' = Tail(updateQueue)
      /\ updateQueue \in Seq(Query)
  BY DEF ExecuteQuery, Types, TypeOK
<1>2. Len(updateQueue) \in Nat
  BY <1>1, LenProperties
<1>3. UNCHANGED <<smscVars, pdus, m_vcMsgIdMap, m_vcMsgIdSyncMap, pc, wPdu,
                  wQuery, crossed>>
  BY DEF ExecuteQuery, mapVars
<1> QED BY <1>1, <1>2, <1>3, QueueTail

LEMMA ExecuteMeets ==
  ASSUME Types, Types', Places, StatusesTold, ExecuteQuery, NEW v \in Sms, Meets(v)
  PROVE  Meets(v)'
<1> USE PdusAreKnown DEF Types, TypeOK
<1> DEFINE q == updateQueue[1]
           n == Len(updateQueue)
<1>1. /\ n \in Nat /\ n > 0 /\ Len(updateQueue') = n - 1
      /\ Head(updateQueue) = q /\ q \in Query
      /\ \A i \in 1 .. n - 1 : updateQueue'[i] = updateQueue[i + 1]
      /\ UNCHANGED <<smscVars, pdus, m_vcMsgIdMap, m_vcMsgIdSyncMap, pc, wPdu, wQuery>>
  BY OldestQuery
<1>2. 1 \in 1 .. n
  BY <1>1
<1>3. IF q.table = "row" THEN row' = [row EXCEPT ![q.sms] = q.status]
                         ELSE UNCHANGED row
  BY <1>1 DEF ExecuteQuery
<1> HIDE DEF q, n
<1>4. \A u \in Workers : /\ Holds(u, v)' <=> Holds(u, v)
                         /\ Brings(u, v)' <=> Brings(u, v)
  BY <1>1 DEF Holds, Brings, Busy, At, SmsOf
<1>5. /\ Wanted(v)' = Wanted(v)
      /\ ReceiptToCome(v)' <=> ReceiptToCome(v)
      /\ NotAnswered(v)' <=> NotAnswered(v)
  BY <1>1, <1>4 DEF Wanted, ReceiptToCome, NotAnswered, IsAnswer, At, smscVars
<1>6. CASE ~RowOf(q, v)
  <2>1. row'[v] = row[v]
    BY <1>1, <1>3, <1>6 DEF RowOf
  <2>2. \A i \in 1 .. Len(updateQueue') :
          i + 1 \in 1 .. Len(updateQueue) /\ updateQueue[i + 1] = updateQueue'[i]
    BY <1>1 DEF n
  <2>3. ASSUME NEW i \in 1 .. Len(updateQueue), RowOf(updateQueue[i], v)
        PROVE  i - 1 \in 1 .. Len(updateQueue')
               /\ updateQueue'[i - 1] = updateQueue[i]
    <3>1. i # 1
      BY <1>6, <2>3 DEF q
    <3>2. i - 1 \in 1 .. n - 1 /\ (i - 1) + 1 = i
      BY <1>1, <3>1 DEF n
    <3>3. updateQueue'[i - 1] = updateQueue[(i - 1) + 1]
      BY <1>1, <3>2
    <3> QED BY <1>1, <3>2, <3>3
  <2>4. /\ v \in accepted' <=> v \in accepted
        /\ v \in unsent' <=> v \in unsent
        /\ receipts'[v] = receipts[v] /\ report' = report
    BY <1>1 DEF smscVars
  <2> QED BY <1>1, <1>4, <2>1, <2>2, <2>3, <2>4, OthersMeet
<1>7. CASE RowOf(q, v)
  <2>1. row'[v] = q.status
    BY <1>3, <1>7 DEF RowOf
  <2>2. ~Quiet(v)
    BY <1>2, <1>7 DEF Quiet, q, n
  <2>3. ~NotAnswered(v)
    BY <2>2 DEF Meets, AwaitsAnswer
  <2>4. AwaitsAnswer(v)' /\ OneHand(v)'
    BY <1>4, <1>5, <2>3 DEF AwaitsAnswer, Meets, OneHand
  <2>5. SearchHolds(v)'
    BY <1>1, <1>4, <2>2 DEF Meets, SearchHolds, At, IsAnswer
  <2>6. \A i \in 1 .. n - 1 : i + 1 \in 1 .. n /\ 1 < i + 1
    BY <1>1
  <2>7. AwaitsReceipt(v)'
    <3> SUFFICES ASSUME v \in m_vcMsgIdMap PROVE AwaitsReceipt(v)'
      BY <1>1 DEF AwaitsReceipt
    <3>1. q.status = SMS_ST_ACKNOWLEDGED
      BY <1>2, <1>7 DEF Meets, AwaitsReceipt, q, n
    <3>2. \A i \in 1 .. n - 1 : RowOf(updateQueue'[i], v) =>
            updateQueue'[i].status = SMS_ST_ACKNOWLEDGED
      BY <1>1, <2>6 DEF Meets, AwaitsReceipt, n
    <3> QED BY <1>1, <1>4, <1>5, <2>1, <3>1, <3>2
            DEF Meets, AwaitsReceipt, At, IsAnswer, RowOf
  <2>8. HaveMet(v)'
    <3> SUFFICES ASSUME Booked(v) PROVE Booked(v)'
      BY <1>1, <1>5 DEF Meets, HaveMet, smscVars
    <3>1. row[v] \notin Wanted(v)
      <4>1. row[v] \in {SMS_ST_PICKED, SMS_ST_ACKNOWLEDGED}
        BY <1>2, <1>7 DEF Meets, InOrder, Finds, q, n
      <4> QED BY <4>1, ReceiptIsNoAck
    <3>2. CASE \E i \in 1 .. n :
                 RowOf(updateQueue[i], v) /\ updateQueue[i].status \in Wanted(v)
      <4>1. PICK i \in 1 .. n :
              RowOf(updateQueue[i], v) /\ updateQueue[i].status \in Wanted(v)
        BY <3>2
      <4>2. CASE i = 1
        BY <1>5, <2>1, <4>1, <4>2 DEF Booked, q
      <4>3. CASE i # 1
        <5>1. i - 1 \in 1 .. n - 1 /\ (i - 1) + 1 = i
          BY <1>1, <4>3
        <5>2. updateQueue'[i - 1] = updateQueue[(i - 1) + 1]
          BY <1>1, <5>1
        <5> QED BY <1>1, <1>5, <4>1, <5>1, <5>2 DEF Booked, RowOf
      <4> QED BY <4>2, <4>3
    <3>3. CASE \E u \in Workers : Brings(u, v) /\ wQuery[u].status \in Wanted(v)
      BY <1>1, <1>4, <1>5, <3>3 DEF Booked
    <3> QED BY <3>1, <3>2, <3>3 DEF Booked, n
  <2>9. InOrder(v)'
    (* If anything follows, this was the acknowledgement. *)
    <3>1. ASSUME NEW status \in Wanted(v), q.status = SMS_ST_ACKNOWLEDGED
          PROVE  Finds(v, status)'
      <4>1. Good(v, q.status)
        <5>1. GoodQuery(updateQueue[1])
          <6>1. 1 \in 1 .. Len(updateQueue)
            BY <1>2 DEF n
          <6> QED BY <6>1, Zenon DEF StatusesTold
        <5>2. updateQueue[1].table = "row" /\ updateQueue[1].sms = v
          BY <1>7 DEF RowOf, q
        <5>3. Good(updateQueue[1].sms, updateQueue[1].status)
          BY <5>1, <5>2 DEF GoodQuery
        <5> QED BY <5>2, <5>3 DEF Good, Wanted, q
      <4>2. v \in accepted
        <5>1. SMS_ST_ACKNOWLEDGED \notin Wanted(v)
          BY ReceiptIsNoAck
        <5>2. SMS_ST_ACKNOWLEDGED # SMS_ST_FAILED
          BY DEF SMS_ST_ACKNOWLEDGED, SMS_ST_FAILED
        <5> QED BY <3>1, <4>1, <5>1, <5>2 DEF Good
      <4>3. status # SMS_ST_ACKNOWLEDGED
        BY ReceiptIsNoAck
      <4> QED BY <1>1, <2>1, <3>1, <4>2, <4>3 DEF Finds, smscVars
    <3>2. ASSUME NEW i \in 1 .. n - 1, RowOf(updateQueue'[i], v)
          PROVE  /\ q.status = SMS_ST_ACKNOWLEDGED
                 /\ updateQueue'[i].status \in Wanted(v)
      <4>1. RowOf(updateQueue[i + 1], v) /\ i + 1 \in 1 .. n /\ 1 < i + 1
        BY <1>1, <2>6, <3>2
      <4> QED BY <1>1, <1>2, <1>7, <4>1 DEF Meets, InOrder, q, n
    <3>3. ASSUME NEW i \in 1 .. n - 1, RowOf(updateQueue'[i], v)
          PROVE  Finds(v, updateQueue[i].status)'
      <4>1. PICK status \in Wanted(v) : status = updateQueue'[i].status
        BY <3>2, <3>3
      <4>2. Finds(v, status)'
        BY <3>1, <3>2, <3>3
      <4> QED BY <4>1, <4>2 DEF Finds
    <3>4. ASSUME NEW u \in Workers, Brings(u, v)
          PROVE  /\ q.status = SMS_ST_ACKNOWLEDGED
                 /\ wQuery[u].status \in Wanted(v)
      BY <1>2, <1>7, <3>4 DEF Meets, InOrder, q, n
    <3>5. ASSUME NEW u \in Workers, Brings(u, v)'
          PROVE  Finds(v, wQuery[u].status)'
      <4>1. PICK status \in Wanted(v) : status = wQuery[u].status
        BY <1>4, <3>4, <3>5
      <4>2. Finds(v, status)'
        BY <1>4, <3>1, <3>4, <3>5
      <4> QED BY <1>1, <4>1, <4>2 DEF Finds
    <3>6. \A i, j \in 1 .. n - 1 :
            RowOf(updateQueue'[i], v) /\ RowOf(updateQueue'[j], v) /\ i < j =>
              /\ updateQueue'[i].status = SMS_ST_ACKNOWLEDGED
              /\ updateQueue'[j].status \in Wanted(v)'
      <4> SUFFICES ASSUME NEW i \in 1 .. n - 1, NEW j \in 1 .. n - 1, i < j,
                          RowOf(updateQueue'[i], v), RowOf(updateQueue'[j], v)
                   PROVE  /\ updateQueue'[i].status = SMS_ST_ACKNOWLEDGED
                          /\ updateQueue'[j].status \in Wanted(v)
        BY <1>5
      <4>1. /\ i + 1 \in 1 .. n /\ j + 1 \in 1 .. n /\ i + 1 < j + 1
            /\ updateQueue'[i] = updateQueue[i + 1]
            /\ updateQueue'[j] = updateQueue[j + 1]
        BY <1>1, <2>6
      <4> QED BY <4>1 DEF Meets, InOrder, n
    <3>7. \A i \in 1 .. n - 1, u \in Workers :
            RowOf(updateQueue'[i], v) /\ Brings(u, v)' =>
              /\ updateQueue'[i].status = SMS_ST_ACKNOWLEDGED
              /\ wQuery'[u].status \in Wanted(v)'
      <4> SUFFICES ASSUME NEW i \in 1 .. n - 1, NEW u \in Workers,
                          RowOf(updateQueue'[i], v), Brings(u, v)
                   PROVE  /\ updateQueue'[i].status = SMS_ST_ACKNOWLEDGED
                          /\ wQuery[u].status \in Wanted(v)
        BY <1>1, <1>4, <1>5
      <4> QED BY <1>1, <2>6 DEF Meets, InOrder, n
    <3> QED BY <1>1, <3>3, <3>5, <3>6, <3>7 DEF InOrder, RowOf
  <2> QED BY <2>4, <2>5, <2>7, <2>8, <2>9 DEF Meets
<1> QED BY <1>6, <1>7

LEMMA InitMeets == Init => AllMeet
<1> SUFFICES ASSUME Init, NEW s \in Sms PROVE Meets(s)
  BY DEF AllMeet
<1>1. /\ Len(updateQueue) = 0 /\ s \in unsent /\ row[s] = SMS_ST_PICKED
      /\ receipts[s] = 0 /\ m_vcMsgIdMap = {} /\ accepted = {}
      /\ \A w \in Workers : pc[w] = "idle"
  BY EmptySeq DEF Init
<1>2. \A w \in Workers : ~Holds(w, s) /\ ~Brings(w, s)
  BY <1>1 DEF Holds, Brings, Busy, At
<1>3. Quiet(s) /\ ReceiptToCome(s)
  BY <1>1 DEF Quiet, ReceiptToCome
<1> QED
  BY <1>1, <1>2, <1>3 DEF Meets, OneHand, AwaitsAnswer, AwaitsReceipt, HaveMet,
                          SearchHolds, InOrder

LEMMA StepKeepsMeeting ==
  Types /\ Types' /\ Places /\ StatusesTold /\ AllMeet /\ [Next]_vars => AllMeet'
<1> SUFFICES ASSUME Types, Types', Places, StatusesTold, AllMeet, [Next]_vars,
                    NEW v \in Sms \ crossed'
             PROVE  Meets(v)'
  BY DEF AllMeet
<1>0. v \in Sms \ crossed
  BY DEF Next, DoDatabaseUpdate, Receipt, Answer, TakePdu, FindState, TakeState,
         FileId, FindId, TakeId, FileState, EnqueueQuery, ExecuteQuery, Finished,
         vars
<1>1. Meets(v)
  BY <1>0 DEF AllMeet
<1>2. ASSUME NEW s \in Sms, NEW type \in {"ok", "nok"}, Answer(s, type)
      PROVE  Meets(v)'
  BY <1>1, <1>2, AnswerMeets
<1>3. ASSUME NEW s \in Sms, Receipt(s) PROVE Meets(v)'
  BY <1>1, <1>3, ReceiptMeets
<1>4. ASSUME NEW w \in Workers, TakePdu(w) PROVE Meets(v)'
  BY <1>1, <1>4, TakePduMeets
<1>5. ASSUME NEW w \in Workers, DoDatabaseUpdate(w), ~EnqueueQuery(w), SmsOf(w) # v
      PROVE  Meets(v)'
  <2>1. PICK label \in {"enqueue", "takeState", "fileId", "takeId", "fileState"} :
          pc' = [pc EXCEPT ![w] = label]
    BY <1>5 DEF DoDatabaseUpdate, FindState, TakeState, FileId, FindId, TakeId,
                FileState, Goto
  <2>2. /\ Busy(w) /\ UNCHANGED <<smscVars, pdus, wPdu, updateQueue, row>>
        /\ \A u \in Workers : u # w => wQuery'[u] = wQuery[u]
    BY <1>5 DEF DoDatabaseUpdate, FindState, TakeState, FileId, FindId, TakeId,
                FileState, Busy, At, dbVars, Types, TypeOK
  <2>3. v \in m_vcMsgIdMap' <=> v \in m_vcMsgIdMap
    BY <1>5 DEF DoDatabaseUpdate, FindState, TakeState, FileId, FindId, TakeId,
                FileState, mapVars
  <2>4. v \in DOMAIN m_vcMsgIdSyncMap' <=> v \in DOMAIN m_vcMsgIdSyncMap
    BY <1>5 DEF DoDatabaseUpdate, FindState, TakeState, FileId, FindId, TakeId,
                FileState, mapVars
  <2> QED BY <1>1, <1>5, <2>1, <2>2, <2>3, <2>4, OtherMessages
<1>6. ASSUME NEW w \in Workers, DoDatabaseUpdate(w), ~EnqueueQuery(w), SmsOf(w) = v
      PROVE  Meets(v)'
  BY <1>1, <1>6, FindStateMeets, TakeStateMeets, FileIdMeets, FindIdMeets,
     TakeIdMeets, FileStateMeets DEF DoDatabaseUpdate
<1>7. ASSUME NEW w \in Workers, EnqueueQuery(w) PROVE Meets(v)'
  BY <1>1, <1>7, EnqueueMeets
<1>8. CASE ExecuteQuery
  BY <1>1, <1>8, ExecuteMeets
<1>9. CASE Finished \/ UNCHANGED vars
  <2>1. UNCHANGED vars
    BY <1>9 DEF Finished
  <2> QED
    BY <1>1, <2>1
    DEF vars, smscVars, mapVars, dbVars, Meets, OneHand, AwaitsAnswer,
        AwaitsReceipt, HaveMet, SearchHolds, InOrder, NotAnswered, ReceiptToCome,
        Quiet, Booked, Brings, Holds, Busy, At, SmsOf, RowOf, Wanted, Finds,
        IsAnswer
<1> QED
  BY <1>2, <1>3, <1>4, <1>5, <1>6, <1>7, <1>8, <1>9 DEF Next, DoDatabaseUpdate

IInv == Types /\ Places /\ StatusesTold /\ AllMeet

LEMMA Inductive == Spec => []IInv
BY InitTypes, StepKeepsTypes, InitPlaces, StepKeepsPlaces, InitStatuses,
   StepKeepsStatuses, InitMeets, StepKeepsMeeting, PTL DEF Spec, IInv

(* The answer and the receipt of a message that is in the hands of one     *)
(* worker at a time find each other, and the receipt's status is the one   *)
(* the row ends up with. *)
THEOREM HalvesDoMeet == Spec => []HalvesMeet
<1>1. IInv => HalvesMeet
  <2> SUFFICES ASSUME IInv PROVE HalvesMeet
    OBVIOUS
  <2> USE DEF IInv, Types, TypeOK
  <2>1. OnlyCrossedMissEachOther
    BY DEF AllMeet, Meets, AwaitsReceipt, OnlyCrossedMissEachOther, Waiting
  <2>2. ASSUME Settled, NEW s \in accepted \ crossed, receipts[s] > 0
        PROVE  row[s] \in {report[s], ReportedStatus(report[s])}
    <3>1. s \in Sms /\ Meets(s) /\ s \notin unsent
      BY DEF AllMeet, Places, SmscRecords
    <3>2. /\ pdus = {} /\ Len(updateQueue) = 0
          /\ \A w \in Workers : ~Holds(w, s) /\ ~Brings(w, s)
      BY <2>2, EmptySeq DEF Settled, Holds, Brings, Busy, At
    <3>3. ~NotAnswered(s) /\ ~ReceiptToCome(s)
      BY <2>2, <3>1, <3>2 DEF NotAnswered, ReceiptToCome
    <3>4. s \notin m_vcMsgIdMap
      BY <3>1, <3>2, <3>3 DEF Meets, AwaitsReceipt
    <3>5. Booked(s)
      BY <3>1, <3>3, <3>4 DEF Meets, HaveMet
    <3> QED BY <3>2, <3>5 DEF Booked, Wanted
  <2> QED BY <2>1, <2>2 DEF HalvesMeet, ReceiptWins
<1> QED BY <1>1, Inductive, PTL

-----------------------------------------------------------------------------
(* Refinement. *)

RowsSeen == [s \in Sms |-> IF s \in crossed THEN SMS_ST_PICKED ELSE row[s]]

(* When a message is crossed, nothing has been written to its row. *)
LEMMA CrossedUnwritten ==
  ASSUME IInv, NEW w \in Workers, TakePdu(w)
  PROVE  RowsSeen' = RowsSeen
<1> USE DEF IInv, Types, TypeOK
<1>1. PICK p \in pdus :
        crossed' = crossed \union
          {s \in {p.sms} : \E u \in Workers : Busy(u) /\ SmsOf(u) = s}
  BY DEF TakePdu
<1>2. UNCHANGED row
  BY DEF TakePdu, dbVars
<1>3. ASSUME NEW s \in Sms, s \in crossed', s \notin crossed
      PROVE  row[s] = SMS_ST_PICKED
  <2>1. PICK u \in Workers : Busy(u) /\ SmsOf(u) = s /\ p.sms = s
    BY <1>1, <1>3
  <2>2. IsAnswer(p) \/ IsAnswer(wPdu[u])
    BY <2>1 DEF Places, OnePlace, SameKind, SmsOf
  <2>3. Meets(s)
    BY <1>3 DEF AllMeet
  <2>4. CASE IsAnswer(p)
    BY <2>1, <2>3, <2>4 DEF NotAnswered, Meets, AwaitsAnswer, Quiet
  <2>5. CASE IsAnswer(wPdu[u])
    BY <2>1, <2>3, <2>5 DEF Holds, Meets, SearchHolds, Quiet
  <2> QED BY <2>2, <2>4, <2>5
<1>4. crossed \subseteq crossed'
  BY <1>1
<1> QED BY <1>2, <1>3, <1>4 DEF RowsSeen

LEMMA ExecuteSettles ==
  ASSUME IInv, ExecuteQuery
  PROVE  Rows!Next \/ RowsSeen' = RowsSeen
<1> USE DEF IInv, Types, TypeOK
<1> DEFINE q == updateQueue[1]
<1>1. /\ Head(updateQueue) = q /\ q \in Query
      /\ 1 \in 1 .. Len(updateQueue)
      /\ UNCHANGED crossed
  BY OldestQuery
<1>2. IF q.table = "row" THEN row' = [row EXCEPT ![q.sms] = q.status]
                         ELSE UNCHANGED row
  BY <1>1 DEF ExecuteQuery
<1>3. GoodQuery(updateQueue[1])
  BY <1>1, Zenon DEF StatusesTold
<1>4. q.sms \in Sms
  BY <1>1 DEF Query
<1>5. CASE q.table # "row"
  BY <1>1, <1>2, <1>5 DEF RowsSeen
<1>6. CASE q.table = "row" /\ q.sms \in crossed
  BY <1>1, <1>2, <1>4, <1>6 DEF RowsSeen
<1>7. CASE q.table = "row" /\ q.sms \notin crossed
  <2>1. PICK v \in Sms, status \in Nat : v = q.sms /\ status = q.status
    BY <1>1, <1>4 DEF Query
  <2>2. Meets(v)
    BY <1>7, <2>1 DEF AllMeet
  <2>3. Finds(v, status)
    BY <1>1, <1>7, <2>1, <2>2 DEF Meets, InOrder, RowOf
  <2>4. Good(v, status)
    <3>1. Good(updateQueue[1].sms, updateQueue[1].status)
      BY <1>3, <1>7 DEF GoodQuery
    <3> QED BY <2>1, <3>1 DEF Good, Wanted
  <2>5. RowsSeen' = [RowsSeen EXCEPT ![v] = status] /\ RowsSeen[v] = row[v]
    BY <1>1, <1>2, <1>7, <2>1 DEF RowsSeen
  <2>6. CASE status = SMS_ST_ACKNOWLEDGED
    <3>1. Rows!Acknowledge(v)
      BY <2>3, <2>5, <2>6
      DEF Finds, Rows!Acknowledge, Rows!SMS_ST_PICKED, Rows!SMS_ST_ACKNOWLEDGED,
          SMS_ST_PICKED, SMS_ST_ACKNOWLEDGED, RowsSeen
    <3> QED BY <3>1 DEF Rows!Next
  <2>7. CASE status \in Wanted(v) /\ receipts[v] > 0
    <3>1. row[v] \in {SMS_ST_PICKED, SMS_ST_ACKNOWLEDGED}
      BY <2>3 DEF Finds
    <3>2. PICK state \in ReceiptStates : state = report[v]
      OBVIOUS
    <3>3. Rows!Settle(v, state)
      BY <2>5, <2>7, <3>1, <3>2
      DEF Wanted, ReportedStatus, SMS_ST_PICKED, SMS_ST_ACKNOWLEDGED,
          SMS_ST_FAILED, Rows!Settle, Rows!Open, Rows!Reported,
          Rows!SMS_ST_PICKED, Rows!SMS_ST_ACKNOWLEDGED, Rows!SMS_ST_FAILED,
          RowsSeen
    <3> QED BY <3>3 DEF Rows!Next
  <2>8. CASE v \notin accepted \union unsent /\ status = SMS_ST_FAILED
    <3>1. Rows!Refuse(v)
      BY <2>3, <2>5, <2>8
      DEF Finds, Rows!Refuse, Rows!SMS_ST_PICKED, Rows!SMS_ST_FAILED,
          SMS_ST_PICKED, SMS_ST_FAILED, RowsSeen
    <3> QED BY <3>1 DEF Rows!Next
  <2> QED BY <2>4, <2>6, <2>7, <2>8 DEF Good
<1> QED BY <1>5, <1>6, <1>7

(* The rows of the messages that are not crossed behave as RowStatus says: *)
(* acknowledged or refused once, settled by a receipt, and then for good. *)
THEOREM RowsAreRefined == Spec => RowsSpec
<1>1. Init => Rows!Init
  BY DEF Init, Rows!Init, Rows!SMS_ST_PICKED, SMS_ST_PICKED
<1>2. IInv /\ [Next]_vars => [Rows!Next]_RowsSeen
  <2> SUFFICES ASSUME IInv, [Next]_vars PROVE Rows!Next \/ RowsSeen' = RowsSeen
    OBVIOUS
  <2>1. CASE \E w \in Workers : TakePdu(w)
    BY <2>1, CrossedUnwritten
  <2>2. CASE ExecuteQuery
    BY <2>2, ExecuteSettles
  <2>3. CASE ~ExecuteQuery /\ ~\E w \in Workers : TakePdu(w)
    <3>1. UNCHANGED <<row, crossed>>
      BY <2>3 DEF Next, DoDatabaseUpdate, Receipt, Answer, FindState, TakeState,
                  FileId, FindId, TakeId, FileState, EnqueueQuery, Finished, vars,
                  dbVars
    <3> QED BY <3>1 DEF RowsSeen
  <2> QED BY <2>1, <2>2, <2>3
<1> QED BY <1>1, <1>2, Inductive, PTL DEF Spec, RowsSpec, Rows!Spec, RowsSeen

=============================================================================
