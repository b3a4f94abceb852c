------------------------ MODULE SmsCampaign_proofs -------------------------
(***************************************************************************)
(* What UpdateQueue and SmsCampaign promise, proved for any number of      *)
(* campaigns, rows, threads and updates and any number of faults.          *)
(***************************************************************************)
EXTENDS SmsCampaign, FiniteSetTheorems, SequenceTheorems, TLAPS

-----------------------------------------------------------------------------
(* Sequences. *)

LEMMA ConcatMoves ==
  ASSUME NEW S, NEW a \in Seq(S), NEW e \in S, NEW b \in Seq(S)
  PROVE  /\ a \o (<< e >> \o b) = Append(a, e) \o b
         /\ Append(a \o b, e) = a \o Append(b, e)
         /\ Append(a, e) \in Seq(S)
<1>1. << e >> \in Seq(S)
  OBVIOUS
<1>2. Append(a, e) = a \o << e >> /\ Append(b, e) = b \o << e >>
  BY AppendIsConcat
<1>3. a \o b \in Seq(S)
  BY ConcatProperties
<1>4. Append(a \o b, e) = (a \o b) \o << e >>
  BY <1>3, AppendIsConcat
<1>5. /\ (a \o << e >>) \o b = a \o (<< e >> \o b)
      /\ (a \o b) \o << e >> = a \o (b \o << e >>)
  BY <1>1, ConcatAssociative, SMTT(30)
<1>6. a \o << e >> \in Seq(S)
  BY <1>1, ConcatProperties
<1> QED BY <1>2, <1>4, <1>5, <1>6

LEMMA HeadMoves ==
  ASSUME NEW S, NEW s \in Seq(S), s # << >>
  PROVE  /\ Head(s) \in S /\ Tail(s) \in Seq(S)
         /\ s = << Head(s) >> \o Tail(s)
<1>1. /\ Head(s) \in S /\ Tail(s) \in Seq(S) /\ Len(Tail(s)) = Len(s) - 1
      /\ \A i \in 1 .. Len(Tail(s)) : Tail(s)[i] = s[i + 1]
  BY HeadTailProperties
<1>2. Len(s) \in Nat /\ Len(s) > 0 /\ s[1] = Head(s)
  BY LenProperties, EmptySeq
<1>3. << Head(s) >> \in Seq(S) /\ Len(<< Head(s) >>) = 1
  BY <1>1
<1>4. /\ << Head(s) >> \o Tail(s) \in Seq(S)
      /\ Len(<< Head(s) >> \o Tail(s)) = Len(s)
      /\ \A i \in 1 .. Len(s) : (<< Head(s) >> \o Tail(s))[i] =
           IF i <= 1 THEN << Head(s) >>[i] ELSE Tail(s)[i - 1]
  BY <1>1, <1>2, <1>3, ConcatProperties
<1>5. \A i \in 1 .. Len(s) : s[i] = (<< Head(s) >> \o Tail(s))[i]
  <2> SUFFICES ASSUME NEW i \in 1 .. Len(s)
               PROVE  s[i] = (<< Head(s) >> \o Tail(s))[i]
    OBVIOUS
  <2>1. CASE i = 1
    BY <1>2, <1>4, <2>1
  <2>2. CASE i > 1
    <3>1. i - 1 \in 1 .. Len(Tail(s)) /\ ~(i <= 1)
      BY <1>1, <1>2, <2>2
    <3>2. Tail(s)[i - 1] = s[(i - 1) + 1]
      BY <1>1, <3>1
    <3> QED BY <1>2, <1>4, <3>1, <3>2
  <2> QED BY <1>2, <2>1, <2>2
<1> QED BY <1>1, <1>4, <1>5, SeqEqual

-----------------------------------------------------------------------------
(* The update queue. *)

(* What DbInsertApp has in its buffer is an update exactly while it is to  *)
(* be executed. *)
HandIsExecuted == (appPc = "execute") <=> (msg # NoUpdate)

QueueInv == QueueTypeOK /\ HandIsExecuted /\ SettledInOrder /\ OneLossPerFault

LEMMA QueueInitInv == QueueInit => QueueInv
<1> SUFFICES ASSUME QueueInit PROVE QueueInv
  OBVIOUS
<1>1. QueueTypeOK /\ HandIsExecuted /\ OneLossPerFault
  BY QueueAssumption
  DEF QueueInit, QueueTypeOK, HandIsExecuted, OneLossPerFault
<1>2. SettledInOrder
  <2>1. << >> \o << >> \o << >> = << >>
    BY ConcatEmptySeq, EmptySeq
  <2> QED BY <2>1 DEF QueueInit, SettledInOrder, InHand
<1> QED BY <1>1, <1>2 DEF QueueInv

LEMMA QueueStepTypes ==
  ASSUME QueueTypeOK, HandIsExecuted, [QueueNext]_queueVars
  PROVE  QueueTypeOK' /\ HandIsExecuted'
<1> USE QueueAssumption DEF QueueTypeOK, HandIsExecuted
<1>1. CASE Open
  BY <1>1 DEF Open
<1>2. CASE HandleLost
  BY <1>2 DEF HandleLost
<1>3. CASE WriteRefused \/ UNCHANGED queueVars
  BY <1>3 DEF WriteRefused, queueVars
<1>4. ASSUME NEW u \in Updates, Write(u) PROVE QueueTypeOK' /\ HandIsExecuted'
  <2>1. Append(mq, u) \in Seq(Updates) /\ Append(accepted, u) \in Seq(Updates)
    BY ConcatMoves
  <2> QED BY <1>4, <2>1 DEF Write
<1>5. CASE AppStarts
  BY <1>5 DEF AppStarts
<1>6. CASE Read
  <2>1. Head(mq) \in Updates /\ Tail(mq) \in Seq(Updates)
    BY <1>6, HeadMoves DEF Read
  <2> QED BY <1>6, <2>1 DEF Read
<1>7. CASE Execute
  <2>1. Append(settled, msg) \in Seq(Updates)
    BY <1>7, ConcatMoves DEF Execute
  <2> QED BY <1>7, <2>1 DEF Execute
<1>8. CASE ExecuteFails
  <2>1. Append(settled, msg) \in Seq(Updates)
    BY <1>8, ConcatMoves DEF ExecuteFails
  <2> QED BY <1>8, <2>1 DEF ExecuteFails
<1>9. CASE AppEnds
  <2>1. CASE appPc = "execute"
    <3>1. Append(settled, msg) \in Seq(Updates)
      BY <2>1, ConcatMoves
    <3> QED BY <1>9, <2>1, <3>1 DEF AppEnds
  <2>2. CASE appPc # "execute"
    BY <1>9, <2>2 DEF AppEnds
  <2> QED BY <2>1, <2>2
<1> QED BY <1>1, <1>2, <1>3, <1>4, <1>5, <1>6, <1>7, <1>8, <1>9 DEF QueueNext

(* The message in hand counts as settled, whichever way it went. *)
LEMMA HandIsSettled ==
  ASSUME QueueTypeOK, SettledInOrder, msg \in Updates, msg # NoUpdate,
         settled' = Append(settled, msg), msg' = NoUpdate,
         mq' = mq, accepted' = accepted
  PROVE  SettledInOrder'
<1>1. settled \in Seq(Updates) /\ mq \in Seq(Updates)
  BY DEF QueueTypeOK
<1>2. accepted = settled \o << msg >> \o mq
  BY DEF SettledInOrder, InHand
<1>3. << msg >> \in Seq(Updates)
  OBVIOUS
<1>4. accepted = settled \o (<< msg >> \o mq)
  BY <1>1, <1>2, <1>3, ConcatAssociative
<1>5. accepted = Append(settled, msg) \o mq /\ Append(settled, msg) \in Seq(Updates)
  BY <1>1, <1>4, ConcatMoves, SMTT(30)
<1>6. Append(settled, msg) \o << >> = Append(settled, msg)
  BY <1>5, ConcatEmptySeq
<1> QED BY <1>5, <1>6 DEF SettledInOrder, InHand

LEMMA QueueStepOrder ==
  ASSUME QueueTypeOK, HandIsExecuted, SettledInOrder, [QueueNext]_queueVars
  PROVE  SettledInOrder'
<1>0. /\ settled \in Seq(Updates) /\ mq \in Seq(Updates)
      /\ msg \in Updates \union {NoUpdate} /\ InHand \in Seq(Updates)
  BY DEF QueueTypeOK, InHand
<1>1. CASE /\ UNCHANGED <<mq, msg, accepted, settled>>
  BY <1>1 DEF SettledInOrder, InHand
<1>2. CASE Open \/ HandleLost \/ AppStarts \/ WriteRefused \/ UNCHANGED queueVars
  BY <1>1, <1>2 DEF Open, HandleLost, AppStarts, WriteRefused, queueVars
<1>3. ASSUME NEW u \in Updates, Write(u) PROVE SettledInOrder'
  <2>1. settled \o InHand \in Seq(Updates)
    BY <1>0, ConcatProperties
  <2>2. Append((settled \o InHand) \o mq, u) = (settled \o InHand) \o Append(mq, u)
    <3>1. \A a, b \in Seq(Updates) : Append(a \o b, u) = a \o Append(b, u)
      BY ConcatMoves
    <3> QED BY <1>0, <2>1, <3>1
  <2>3. InHand' = InHand
    BY <1>3 DEF Write, InHand
  <2>4. mq' = Append(mq, u) /\ accepted' = Append(accepted, u) /\ settled' = settled
    BY <1>3 DEF Write
  <2>5. accepted = (settled \o InHand) \o mq
    BY DEF SettledInOrder
  <2>6. accepted' = (settled' \o InHand') \o mq'
    BY <2>2, <2>3, <2>4, <2>5
  <2> QED BY <2>6 DEF SettledInOrder
<1>4. CASE Read
  <2>1. mq # << >> /\ msg = NoUpdate
    BY <1>4 DEF Read, HandIsExecuted
  <2>2. /\ Head(mq) \in Updates /\ Tail(mq) \in Seq(Updates)
        /\ mq = << Head(mq) >> \o Tail(mq)
    BY <1>0, <2>1, HeadMoves
  <2>3. settled \o << >> = settled
    BY <1>0, ConcatEmptySeq
  <2>4. accepted = settled \o (<< Head(mq) >> \o Tail(mq))
    BY <2>1, <2>2, <2>3 DEF SettledInOrder, InHand
  <2>5. << Head(mq) >> \in Seq(Updates)
    BY <2>2
  <2>6. accepted = (settled \o << Head(mq) >>) \o Tail(mq)
    BY <1>0, <2>2, <2>4, <2>5, ConcatAssociative
  <2>7. Head(mq) # NoUpdate
    BY <2>2, QueueAssumption
  <2>8. /\ msg' = Head(mq) /\ mq' = Tail(mq) /\ settled' = settled
        /\ accepted' = accepted
    BY <1>4 DEF Read
  <2> QED BY <2>6, <2>7, <2>8 DEF SettledInOrder, InHand
<1>5. CASE Execute
  BY <1>0, <1>5, HandIsSettled DEF Execute, HandIsExecuted
<1>6. CASE ExecuteFails
  BY <1>0, <1>6, HandIsSettled DEF ExecuteFails, HandIsExecuted
<1>7. CASE AppEnds /\ appPc = "execute"
  BY <1>0, <1>7, HandIsSettled DEF AppEnds, HandIsExecuted
<1>8. CASE AppEnds /\ appPc # "execute"
  BY <1>1, <1>8 DEF AppEnds, HandIsExecuted
<1> QED BY <1>2, <1>3, <1>4, <1>5, <1>6, <1>7, <1>8 DEF QueueNext

LEMMA QueueStepLoss ==
  ASSUME QueueTypeOK, OneLossPerFault, [QueueNext]_queueVars
  PROVE  OneLossPerFault'
<1> USE DEF QueueTypeOK, OneLossPerFault
<1>1. CASE Open \/ HandleLost \/ AppStarts \/ WriteRefused \/ Read \/ Execute
  BY <1>1 DEF Open, HandleLost, AppStarts, WriteRefused, Read, Execute, queueVars
<1>2. CASE \E u \in Updates : Write(u)
  BY <1>2 DEF Write
<1>3. CASE ExecuteFails \/ AppEnds
  BY <1>3 DEF ExecuteFails, AppEnds
<1>4. CASE UNCHANGED queueVars
  BY <1>4 DEF queueVars
<1> QED BY <1>1, <1>2, <1>3, <1>4 DEF QueueNext

(* Updates are settled once each, in the order the queue accepted them,    *)
(* whichever of the two processes ends when, and a failed query or an end  *)
(* of DbInsertApp loses one at most.                                       *)
THEOREM QueueIsKept == QueueSpec => []QueueInv
<1>1. QueueInv /\ [QueueNext]_queueVars => QueueInv'
  BY QueueStepTypes, QueueStepOrder, QueueStepLoss DEF QueueInv
<1> QED BY QueueInitInv, <1>1, PTL DEF QueueSpec

(* The campaigns use the queue as it was meant: each of their steps is one *)
(* of its steps or leaves it alone.                                        *)
LEMMA StepsAreQueueSteps == [Next]_vars => [QueueNext]_queueVars
<1> SUFFICES ASSUME [Next]_vars PROVE [QueueNext]_queueVars
  OBVIOUS
<1>1. CASE Boot \/ ProcessEnds
  BY <1>1 DEF Boot, ProcessEnds, QueueNext
<1>2. CASE Started \/ NoneFound
  BY <1>2 DEF Started, NoneFound, queueVars
<1>3. ASSUME NEW c \in Campaigns, CreateFails(c) \/ Sweep(c)
      PROVE  [QueueNext]_queueVars
  BY <1>3 DEF CreateFails, Sweep, queueVars
<1>4. ASSUME NEW c \in Campaigns, NEW t \in Threads, StartCampaign(c, t)
      PROVE  [QueueNext]_queueVars
  BY <1>4 DEF StartCampaign, queueVars
<1>5. ASSUME NEW t \in Threads, CampaignThread(t) PROVE ThreadFrame
  BY <1>5
  DEF CampaignThread, Begin, StartFails, MarkCampaign, Select, SelectFails,
      NullResult, StopSeen, SendSms, MarkRows, MarkRowsFails, Complete
<1>6. ASSUME NEW t \in Threads, CampaignThread(t)
      PROVE  [QueueNext]_queueVars
  BY <1>5, <1>6 DEF ThreadFrame, queueVars
<1>7. ASSUME NEW r \in Rows, NEW status \in {"scheduled", "answered"},
             Answer(r, status)
      PROVE  [QueueNext]_queueVars
  <2>1. [row |-> r, status |-> status] \in Updates
    BY CampaignAssumption
  <2> QED BY <1>7, <2>1 DEF Answer, QueueNext
<1>8. CASE UpdateRow \/ AppOther
  BY <1>8 DEF UpdateRow, AppOther, QueueNext
<1>9. CASE UNCHANGED vars
  BY <1>9 DEF vars, queueVars
<1> QED
  BY <1>1, <1>2, <1>3, <1>4, <1>6, <1>7, <1>8, <1>9 DEF Next, Main

(* With campaigns, answers and restarts of the ESME around it, the queue   *)
(* keeps what it promises.                                                 *)
THEOREM CampaignsUseQueue == Spec => QueueSpec
<1>1. Init => QueueInit
  BY DEF Init
<1> QED BY <1>1, StepsAreQueueSteps, PTL DEF Spec, QueueSpec

(* The updates of rows are settled in the order they were accepted, and a  *)
(* failed query or an end of DbInsertApp loses one of them at most.        *)
THEOREM UpdatesReachTheDatabase == Spec => []UpdatesAreKept
<1>1. QueueInv => UpdatesAreKept
  BY DEF QueueInv, UpdatesAreKept
<1> QED BY <1>1, CampaignsUseQueue, QueueIsKept, PTL

-----------------------------------------------------------------------------
(* Types. *)

(* The loop over the map is the only one to use visit, and while it runs   *)
(* campaignId is zero. *)
SweepsAlone ==
  /\ mainPc # "sweep" => visit = {}
  /\ mainPc \in {"sweep", "boot"} => campaignId = 0

(* A thread has a campaign from the time it has found its entry. *)
LocalsMatch ==
  \A t \in Threads :
    IF pc[t] \in {"none", "begin"}
      THEN id[t] = 0 /\ window[t] = {} /\ submitted[t] = {}
      ELSE id[t] \in Campaigns

(* TypeOK without the queue's part. *)
Labels == {"none", "begin", "start", "loop", "send", "mark", "complete"}
Entry == [thStatus : {"req_run", "running", "stop"}, thId : Threads]

MapType ==
  /\ DOMAIN G_smsCampaignMap \subseteq Campaigns
  /\ \A c \in DOMAIN G_smsCampaignMap : G_smsCampaignMap[c] \in Entry
MainTypes ==
  /\ mainPc \in {"boot", "select", "wait", "sweep"}
  /\ campaignId \in Campaigns \union {0}
  /\ visit \subseteq DOMAIN G_smsCampaignMap
ThreadTypes ==
  /\ pc \in [Threads -> Labels]
  /\ id \in [Threads -> Campaigns \union {0}]
  /\ window \in [Threads -> SUBSET Rows] /\ submitted \in [Threads -> SUBSET Rows]
  /\ campaign_error_cnt \in [Threads -> Nat]
DatabaseTypes ==
  /\ campaign \in [Campaigns -> {"scheduled", "picked", "completed"}]
  /\ row \in [Rows -> {"scheduled", "picked", "answered"}]
CountTypes ==
  /\ pending \in [Rows -> Nat]
  /\ answers \in Nat /\ failures \in Nat /\ crashes \in Nat
  /\ sent \in [Rows -> Nat] /\ unmarked \in [Rows -> Nat]
  /\ zeroed \in [Rows -> Nat]
  /\ raced \subseteq Campaigns /\ gaveUp \subseteq Campaigns
  /\ leftPicked \subseteq Campaigns

Types ==
  /\ MapType /\ MainTypes /\ ThreadTypes /\ DatabaseTypes /\ CountTypes
  /\ SweepsAlone /\ LocalsMatch

LEMMA TypesAreTypeOK == Types /\ QueueTypeOK => TypeOK
BY DEF Types, MapType, MainTypes, ThreadTypes, DatabaseTypes, CountTypes, TypeOK,
       Labels, Entry

LEMMA InitTypes == Init => Types
BY CampaignAssumption
DEF Init, Types, MapType, MainTypes, ThreadTypes, DatabaseTypes, CountTypes,
    SweepsAlone, LocalsMatch, Labels, Entry

(* What a step of Main does to the types: the tables, the locals of the    *)
(* threads and most of the counters are not its business. *)
LEMMA MainKeepsTypes ==
  ASSUME Types, Main
  PROVE  Types'
<1> USE DEF Types, SweepsAlone
<1>1. MainFrame
  BY DEF Main, Boot, Started, NoneFound, CreateFails, Sweep, StartCampaign
<1>2. DatabaseTypes'
  BY <1>1 DEF MainFrame, dbVars, DatabaseTypes
<1>3. (pc' \in [Threads -> Labels]) => ThreadTypes'
  BY <1>1 DEF MainFrame, locals, ThreadTypes
<1>4. (failures' \in Nat /\ raced' \subseteq Campaigns) => CountTypes'
  BY <1>1 DEF MainFrame, smscVars, rowHistory, CountTypes
<1>5. id' = id /\ window' = window /\ submitted' = submitted
  BY <1>1 DEF MainFrame, locals
<1>6. pc' = pc => LocalsMatch'
  BY <1>5 DEF LocalsMatch
<1>7. ASSUME NEW t \in Threads, pc[t] = "none", pc' = [pc EXCEPT ![t] = "begin"]
       PROVE  LocalsMatch'
  <2>1. \A u \in Threads : pc'[u] = IF u = t THEN "begin" ELSE pc[u]
    BY <1>7 DEF ThreadTypes
  <2> QED BY <1>5, <1>7, <2>1 DEF LocalsMatch
<1>8. ASSUME NEW c, MapType PROVE
        /\ DOMAIN Erased(c) = DOMAIN G_smsCampaignMap \ {c}
        /\ \A d \in DOMAIN Erased(c) : Erased(c)[d] \in Entry
  BY <1>8 DEF Erased, MapType
<1>9. \A c \in Campaigns : Race(c) => raced' \subseteq Campaigns
  BY DEF Race, CountTypes
<1>10. CASE Boot
  BY <1>2, <1>3, <1>4, <1>6, <1>10
  DEF Boot, DatabaseFails, MapType, MainTypes, ThreadTypes, CountTypes
<1>11. CASE Started
  BY <1>2, <1>3, <1>4, <1>6, <1>11
  DEF Started, MapType, MainTypes, ThreadTypes, CountTypes
<1>12. CASE NoneFound
  BY <1>2, <1>3, <1>4, <1>6, <1>12
  DEF NoneFound, SweepOn, DatabaseFails, MapType, MainTypes, ThreadTypes, CountTypes
<1>13. ASSUME NEW c \in Campaigns, CreateFails(c) PROVE Types'
  <2>1. MapType' /\ MainTypes' /\ SweepsAlone'
    BY <1>8, <1>13 DEF CreateFails, Found, MapType, MainTypes
  <2> QED BY <1>2, <1>3, <1>4, <1>6, <1>9, <1>13, <2>1
    DEF CreateFails, DatabaseFails, ThreadTypes, CountTypes
<1>14. ASSUME NEW c \in Campaigns, Sweep(c) PROVE Types'
  <2>1. MapType' /\ visit' \subseteq DOMAIN G_smsCampaignMap'
    BY <1>8, <1>14 DEF Sweep, SweepOn, MapType, MainTypes
  <2>2. MainTypes' /\ SweepsAlone'
    BY <1>14, <2>1 DEF Sweep, SweepOn, MainTypes
  <2> QED BY <1>2, <1>3, <1>4, <1>6, <1>14, <2>1, <2>2 DEF Sweep, ThreadTypes, CountTypes
<1>15. ASSUME NEW c \in Campaigns, NEW t \in Threads, StartCampaign(c, t)
       PROVE  Types'
  <2>1. /\ DOMAIN Inserted(c, t) = DOMAIN G_smsCampaignMap \union {c}
        /\ \A d \in DOMAIN Inserted(c, t) : Inserted(c, t)[d] \in Entry
    BY DEF Inserted, Entered, MapType, Entry
  <2>2. MapType' /\ MainTypes' /\ SweepsAlone'
    BY <1>15, <2>1 DEF StartCampaign, Found, MapType, MainTypes
  <2>3. pc' \in [Threads -> Labels]
    BY <1>15 DEF StartCampaign, ThreadTypes, Labels
  <2>4. pc[t] = "none" /\ pc' = [pc EXCEPT ![t] = "begin"]
    BY <1>15 DEF StartCampaign, Free, FreeSlots, Live
  <2> QED BY <1>2, <1>3, <1>4, <1>9, <1>7, <1>15, <2>2, <2>3, <2>4
    DEF StartCampaign, CountTypes
<1> QED BY <1>10, <1>11, <1>12, <1>13, <1>14, <1>15 DEF Main

LEMMA FreeIsFree ==
  ASSUME NEW c, NEW t, Free(t, c)
  PROVE  t \in Threads /\ pc[t] = "none"
BY DEF Free, FreeSlots, Live

(* A write to thStatus keeps the entries and whose they are. *)
LEMMA StatusIsSet ==
  ASSUME MapType, NEW c, NEW status \in {"req_run", "running", "stop"},
         SetStatus(c, status)
  PROVE  /\ MapType'
         /\ DOMAIN G_smsCampaignMap' = DOMAIN G_smsCampaignMap
         /\ \A d \in DOMAIN G_smsCampaignMap :
              /\ G_smsCampaignMap'[d].thId = G_smsCampaignMap[d].thId
              /\ d # c => G_smsCampaignMap'[d] = G_smsCampaignMap[d]
              /\ d = c => G_smsCampaignMap'[d].thStatus = status
BY DEF SetStatus, Entered, MapType, Entry

LEMMA ReturnKeepsTypes ==
  ASSUME ThreadTypes, LocalsMatch, NEW t \in Threads, Return(t)
  PROVE  ThreadTypes' /\ LocalsMatch'
BY DEF ThreadTypes, LocalsMatch, Return, Goto, ResetErrors, Labels

(* What a step of a thread does to the types. *)
LEMMA ThreadKeepsTypes ==
  ASSUME Types, NEW t \in Threads, CampaignThread(t)
  PROVE  Types'
<1> USE DEF Types
<1>1. ThreadFrame
  BY DEF CampaignThread, Begin, StartFails, MarkCampaign, Select, SelectFails,
         NullResult, StopSeen, SendSms, MarkRows, MarkRowsFails, Complete
<1>2. (MapType' /\ DOMAIN G_smsCampaignMap' = DOMAIN G_smsCampaignMap)
        => MainTypes' /\ SweepsAlone'
  BY <1>1 DEF ThreadFrame, mainVars, MainTypes, SweepsAlone
<1>3. UNCHANGED G_smsCampaignMap => MapType'
  BY DEF MapType
<1>4. /\ pending' \in [Rows -> Nat] /\ failures' \in Nat
      /\ sent' \in [Rows -> Nat] /\ unmarked' \in [Rows -> Nat]
      /\ gaveUp' \subseteq Campaigns /\ leftPicked' \subseteq Campaigns
      => CountTypes'
  BY <1>1 DEF ThreadFrame, CountTypes
<1>5. CASE Begin(t)
  <2>1. /\ MapType' /\ DOMAIN G_smsCampaignMap' = DOMAIN G_smsCampaignMap
    BY <1>5, StatusIsSet DEF Begin
  <2>2. CountTypes' /\ DatabaseTypes'
    BY <1>4, <1>5 DEF Begin, dbVars, CountTypes, DatabaseTypes
  <2>3. CASE Entered(campaignId)
    <3>1. campaignId \in Campaigns
      BY <2>3 DEF Entered, MapType
    <3>2. ThreadTypes' /\ LocalsMatch'
      BY <1>5, <2>3, <3>1 DEF Begin, Goto, ThreadTypes, LocalsMatch, Labels
    <3> QED BY <1>2, <2>1, <2>2, <3>2
  <2>4. CASE ~Entered(campaignId)
    <3>1. ThreadTypes' /\ LocalsMatch'
      BY <1>5, <2>4, ReturnKeepsTypes DEF Begin
    <3> QED BY <1>2, <2>1, <2>2, <3>1
  <2> QED BY <2>3, <2>4
<1>6. CASE StartFails(t)
  <2>1. /\ MapType' /\ DOMAIN G_smsCampaignMap' = DOMAIN G_smsCampaignMap
    BY <1>6, StatusIsSet DEF StartFails
  <2>2. CountTypes' /\ DatabaseTypes'
    BY <1>4, <1>6 DEF StartFails, DatabaseFails, dbVars, CountTypes, DatabaseTypes
  <2>3. ThreadTypes' /\ LocalsMatch'
    BY <1>6, ReturnKeepsTypes DEF StartFails
  <2> QED BY <1>2, <2>1, <2>2, <2>3
<1>7. CASE MarkCampaign(t)
  <2>1. /\ MapType' /\ DOMAIN G_smsCampaignMap' = DOMAIN G_smsCampaignMap
    BY <1>7, StatusIsSet DEF MarkCampaign
  <2>2. CountTypes' /\ DatabaseTypes'
    BY <1>4, <1>7 DEF MarkCampaign, CountTypes, DatabaseTypes
  <2>3. ThreadTypes' /\ LocalsMatch'
    BY <1>7 DEF MarkCampaign, locals, Goto, ThreadTypes, LocalsMatch, Labels
  <2> QED BY <1>2, <2>1, <2>2, <2>3
<1>8. CASE Select(t)
  <2>1. ThreadTypes' /\ LocalsMatch'
    <3>1. PICK w \in Windows(id[t]) :
            /\ window' = [window EXCEPT ![t] = w]
            /\ Goto(t, IF w = {} THEN "complete" ELSE "send")
      BY <1>8 DEF Select
    <3>2. w \in SUBSET Rows
      BY <3>1 DEF Windows, ScheduledRows
    <3> QED BY <1>8, <3>1, <3>2
      DEF Select, Goto, ResetErrors, ThreadTypes, LocalsMatch, Labels
  <2>2. CountTypes' /\ DatabaseTypes' /\ UNCHANGED G_smsCampaignMap
    BY <1>4, <1>8 DEF Select, dbVars, CountTypes, DatabaseTypes
  <2> QED BY <1>2, <1>3, <2>1, <2>2
<1>9. CASE SelectFails(t) \/ NullResult(t) \/ StopSeen(t)
  <2>1. ThreadTypes' /\ LocalsMatch'
    BY <1>9 DEF SelectFails, NullResult, StopSeen, CountError, Goto, ResetErrors,
                locals, ThreadTypes, LocalsMatch, Labels
  <2>2. id[t] \in Campaigns
    BY <1>9 DEF SelectFails, NullResult, StopSeen, LocalsMatch
  <2>3. CountTypes' /\ DatabaseTypes' /\ UNCHANGED G_smsCampaignMap
    BY <1>4, <1>9, <2>2
    DEF SelectFails, NullResult, StopSeen, CountError, DatabaseFails, dbVars,
        CountTypes, DatabaseTypes
  <2> QED BY <1>2, <1>3, <2>1, <2>3
<1>10. ASSUME NEW r \in Rows, SendSms(t, r) PROVE Types'
  <2>1. ThreadTypes' /\ LocalsMatch'
    BY <1>10 DEF SendSms, Goto, ThreadTypes, LocalsMatch, Labels
  <2>2. CountTypes' /\ DatabaseTypes' /\ UNCHANGED G_smsCampaignMap
    BY <1>4, <1>10 DEF SendSms, dbVars, CountTypes, DatabaseTypes
  <2> QED BY <1>2, <1>3, <2>1, <2>2
<1>11. CASE MarkRows(t)
  <2>1. ThreadTypes' /\ LocalsMatch'
    BY <1>11 DEF MarkRows, Goto, ResetErrors, ThreadTypes, LocalsMatch, Labels
  <2>2. CountTypes' /\ DatabaseTypes' /\ UNCHANGED G_smsCampaignMap
    BY <1>4, <1>11 DEF MarkRows, Marked, CountTypes, DatabaseTypes
  <2> QED BY <1>2, <1>3, <2>1, <2>2
<1>12. CASE MarkRowsFails(t)
  <2>1. ThreadTypes' /\ LocalsMatch' /\ id[t] \in Campaigns
    BY <1>12 DEF MarkRowsFails, CountError, Goto, ThreadTypes, LocalsMatch, Labels
  <2>2. CountTypes' /\ DatabaseTypes' /\ UNCHANGED G_smsCampaignMap
    BY <1>4, <1>12, <2>1
    DEF MarkRowsFails, CountError, DatabaseFails, dbVars, CountTypes, DatabaseTypes
  <2> QED BY <1>2, <1>3, <2>1, <2>2
<1>13. CASE Complete(t)
  <2>1. /\ MapType' /\ DOMAIN G_smsCampaignMap' = DOMAIN G_smsCampaignMap
    BY <1>13, StatusIsSet DEF Complete
  <2>2. ThreadTypes' /\ LocalsMatch' /\ id[t] \in Campaigns
    BY <1>13, ReturnKeepsTypes DEF Complete, LocalsMatch
  <2>3. CountTypes' /\ DatabaseTypes'
    BY <1>4, <1>13, <2>2 DEF Complete, DatabaseFails, CountTypes, DatabaseTypes
  <2> QED BY <1>2, <2>1, <2>2, <2>3
<1> QED
  BY <1>5, <1>6, <1>7, <1>8, <1>9, <1>10, <1>11, <1>12, <1>13 DEF CampaignThread

LEMMA WorldKeepsTypes ==
  ASSUME Types, QueueInv,
         \/ \E r \in Rows, status \in {"scheduled", "answered"} : Answer(r, status)
         \/ UpdateRow \/ AppOther \/ ProcessEnds
  PROVE  Types'
<1> USE DEF Types
<1>1. CampaignsUntouched /\ pending' \in [Rows -> Nat] /\ answers' \in Nat
        /\ zeroed' \in [Rows -> Nat] /\ row' \in [Rows -> {"scheduled", "picked", "answered"}]
      => Types'
  BY DEF CampaignsUntouched, mainVars, locals, MapType, MainTypes, ThreadTypes,
         DatabaseTypes, CountTypes, SweepsAlone, LocalsMatch
<1>2. ASSUME NEW r \in Rows, NEW status \in {"scheduled", "answered"},
             Answer(r, status)
      PROVE  Types'
  BY <1>1, <1>2 DEF Answer, DatabaseTypes, CountTypes
<1>3. CASE UpdateRow
  <2>1. msg \in Updates
    BY <1>3 DEF UpdateRow, Execute, QueueInv, QueueTypeOK, HandIsExecuted
  <2>2. msg.row \in Rows /\ msg.status \in {"scheduled", "answered"}
    BY <2>1, CampaignAssumption
  <2> QED BY <1>1, <1>3, <2>2 DEF UpdateRow, smscVars, DatabaseTypes, CountTypes
<1>4. CASE AppOther
  BY <1>1, <1>4 DEF AppOther, smscVars, DatabaseTypes, CountTypes
<1>5. CASE ProcessEnds
  BY <1>5 DEF ProcessEnds, dbVars, rowHistory, MapType, MainTypes, ThreadTypes,
     DatabaseTypes, CountTypes, SweepsAlone, LocalsMatch, Labels
<1> QED BY <1>2, <1>3, <1>4, <1>5

LEMMA StepKeepsTypes ==
  ASSUME Types, QueueInv, [Next]_vars
  PROVE  Types'
<1>1. CASE UNCHANGED vars
  BY <1>1 DEF vars, dbVars, mainVars, locals, smscVars, rowHistory, Types, MapType,
     MainTypes, ThreadTypes, DatabaseTypes, CountTypes, SweepsAlone, LocalsMatch
<1> QED BY <1>1, MainKeepsTypes, ThreadKeepsTypes, WorldKeepsTypes DEF Next

-----------------------------------------------------------------------------
(* Whose an entry of the map is. *)

Owns(t, c) == Entered(c) /\ G_smsCampaignMap[c].thId = t

(* A thread that has yet to read campaignId finds its own entry there,     *)
(* unless a second start came between, or Main has set it back to zero.    *)
BeginsOnItsEntry ==
  \A t \in Threads :
    pc[t] = "begin" =>
      campaignId = 0 \/ campaignId \in raced \/ Owns(t, campaignId)

(* A thread that has found its entry owns it and has it RUNNING. *)
EntryRuns ==
  \A t \in Threads :
    pc[t] \notin {"none", "begin"} /\ id[t] \notin raced =>
      Owns(t, id[t]) /\ G_smsCampaignMap[id[t]].thStatus = "running"

Owners == BeginsOnItsEntry /\ EntryRuns

LEMMA MainKeepsOwners ==
  ASSUME Types, Owners, Main
  PROVE  Owners'
<1> USE DEF Owners
<1>1. id' = id
  BY DEF Main, Boot, Started, NoneFound, CreateFails, Sweep, StartCampaign,
         MainFrame, locals
<1>2. CASE Boot \/ Started
  BY <1>1, <1>2 DEF Boot, Started, BeginsOnItsEntry, EntryRuns, Owns, Entered
<1>3. CASE NoneFound
  BY <1>1, <1>3 DEF NoneFound, BeginsOnItsEntry, EntryRuns, Owns, Entered
<1>4. ASSUME NEW c \in Campaigns, Race(c)
      PROVE  /\ raced \subseteq raced'
             /\ \A t \in Threads :
                  pc[t] = "begin" \/ (Live(t) /\ id[t] = c) => c \in raced'
  BY <1>4 DEF Race, Racing
<1>5. ASSUME NEW c \in Campaigns, CreateFails(c) PROVE Owners'
  <2>1. /\ campaignId' = c /\ pc' = pc /\ G_smsCampaignMap' = Erased(c)
        /\ Race(c)
    BY <1>5 DEF CreateFails
  <2>2. BeginsOnItsEntry'
    BY <1>4, <2>1 DEF BeginsOnItsEntry
  <2>3. EntryRuns'
    <3> SUFFICES ASSUME NEW t \in Threads, pc[t] \notin {"none", "begin"},
                        id[t] \notin raced'
                 PROVE  /\ Owns(t, id[t])'
                        /\ G_smsCampaignMap'[id[t]].thStatus = "running"
      BY <1>1, <2>1 DEF EntryRuns
    <3>1. id[t] # c /\ id[t] \notin raced
      BY <1>4, <2>1 DEF Live
    <3> QED BY <1>1, <2>1, <3>1 DEF EntryRuns, Owns, Entered, Erased
  <2> QED BY <2>2, <2>3
<1>6. ASSUME NEW c \in Campaigns, Sweep(c) PROVE Owners'
  <2>1. /\ campaignId' = 0 /\ pc' = pc /\ raced' = raced
        /\ \/ G_smsCampaignMap' = G_smsCampaignMap
           \/ /\ G_smsCampaignMap' = Erased(c)
              /\ G_smsCampaignMap[c].thStatus = "stop"
    BY <1>6 DEF Sweep, Stopped, Types, SweepsAlone
  <2>2. BeginsOnItsEntry'
    BY <2>1 DEF BeginsOnItsEntry
  <2>3. EntryRuns'
    BY <1>1, <2>1 DEF EntryRuns, Owns, Entered, Erased
  <2> QED BY <2>2, <2>3
<1>7. ASSUME NEW c \in Campaigns, NEW u \in Threads, StartCampaign(c, u)
      PROVE  Owners'
  <2>1. /\ campaignId' = c /\ pc' = [pc EXCEPT ![u] = "begin"]
        /\ G_smsCampaignMap' = Inserted(c, u) /\ Race(c) /\ pc[u] = "none"
    BY <1>7, FreeIsFree DEF StartCampaign
  <2>2. pc \in [Threads -> Labels]
    BY DEF Types, ThreadTypes
  <2>3. BeginsOnItsEntry'
    <3> SUFFICES ASSUME NEW t \in Threads, pc'[t] = "begin", c \notin raced'
                 PROVE  Owns(t, c)'
      BY <2>1 DEF BeginsOnItsEntry
    <3>1. t = u
      BY <1>4, <2>1, <2>2
    <3> QED BY <2>1, <3>1 DEF Owns, Entered, Inserted
  <2>4. EntryRuns'
    <3> SUFFICES ASSUME NEW t \in Threads, pc'[t] \notin {"none", "begin"},
                        id[t] \notin raced'
                 PROVE  /\ Owns(t, id[t])'
                        /\ G_smsCampaignMap'[id[t]].thStatus = "running"
      BY <1>1 DEF EntryRuns
    <3>1. pc[t] = pc'[t]
      BY <2>1, <2>2
    <3>2. id[t] # c /\ id[t] \notin raced
      BY <1>4, <2>1, <3>1 DEF Live
    <3> QED BY <1>1, <2>1, <3>1, <3>2 DEF EntryRuns, Owns, Entered, Inserted
  <2> QED BY <2>3, <2>4
<1> QED BY <1>2, <1>3, <1>5, <1>6, <1>7 DEF Main

(* A thread that writes its status leaves the entries of others alone. *)
LEMMA StatusKeepsOwners ==
  ASSUME Types, Owners, NEW t \in Threads, pc[t] \notin {"none", "begin"},
         NEW status \in {"running", "stop"}, SetStatus(id[t], status),
         campaignId' = campaignId, raced' = raced,
         NEW label \in Labels \ {"begin"}, Goto(t, label),
         \A u \in Threads \ {t} : id'[u] = id[u],
         label # "none" => status = "running" /\ id'[t] = id[t]
  PROVE  Owners'
<1>1. /\ DOMAIN G_smsCampaignMap' = DOMAIN G_smsCampaignMap
      /\ \A d \in DOMAIN G_smsCampaignMap :
           /\ G_smsCampaignMap'[d].thId = G_smsCampaignMap[d].thId
           /\ d # id[t] => G_smsCampaignMap'[d] = G_smsCampaignMap[d]
           /\ d = id[t] => G_smsCampaignMap'[d].thStatus = status
  BY StatusIsSet DEF Types
<1>2. \A u \in Threads : pc'[u] = IF u = t THEN label ELSE pc[u]
  BY DEF Goto, Types, ThreadTypes
<1>3. BeginsOnItsEntry'
  BY <1>1, <1>2 DEF Owners, BeginsOnItsEntry, Owns, Entered
<1>4. EntryRuns'
  <2> SUFFICES ASSUME NEW u \in Threads, pc'[u] \notin {"none", "begin"},
                      id'[u] \notin raced
               PROVE  /\ Owns(u, id[u])'
                      /\ G_smsCampaignMap'[id'[u]].thStatus = "running"
    BY DEF EntryRuns
  <2>1. CASE u = t
    BY <1>1, <1>2, <2>1 DEF Owners, EntryRuns, Owns, Entered
  <2>2. CASE u # t
    <3>1. pc[u] \notin {"none", "begin"} /\ id'[u] = id[u]
      BY <1>2, <2>2
    <3>2. Owns(u, id[u]) /\ G_smsCampaignMap[id[u]].thStatus = "running"
      BY <3>1 DEF Owners, EntryRuns
    <3>3. id[u] # id[t]
      BY <2>2, <3>1, <3>2 DEF Owners, EntryRuns, Owns
    <3> QED BY <1>1, <3>1, <3>2, <3>3 DEF Owns, Entered
  <2> QED BY <2>1, <2>2
<1> QED BY <1>3, <1>4 DEF Owners

(* A thread that stays past its beginning and leaves the map alone. *)
LEMMA LoopKeepsOwners ==
  ASSUME Types, Owners, NEW t \in Threads, pc[t] \notin {"none", "begin"},
         UNCHANGED <<G_smsCampaignMap, campaignId, raced, id>>,
         NEW label \in Labels \ {"none", "begin"}, Goto(t, label)
  PROVE  Owners'
<1>1. \A u \in Threads : pc'[u] = IF u = t THEN label ELSE pc[u]
  BY DEF Goto, Types, ThreadTypes
<1> QED BY <1>1 DEF Owners, BeginsOnItsEntry, EntryRuns, Owns, Entered

LEMMA ThreadKeepsOwners ==
  ASSUME Types, Owners, NEW t \in Threads, CampaignThread(t)
  PROVE  Owners'
<1>1. campaignId' = campaignId /\ raced' = raced
  BY DEF CampaignThread, Begin, StartFails, MarkCampaign, Select, SelectFails,
         NullResult, StopSeen, SendSms, MarkRows, MarkRowsFails, Complete,
         ThreadFrame, mainVars
<1>2. CASE Begin(t)
  <2>1. /\ DOMAIN G_smsCampaignMap' = DOMAIN G_smsCampaignMap
        /\ \A d \in DOMAIN G_smsCampaignMap :
             /\ G_smsCampaignMap'[d].thId = G_smsCampaignMap[d].thId
             /\ d # campaignId => G_smsCampaignMap'[d] = G_smsCampaignMap[d]
             /\ d = campaignId => G_smsCampaignMap'[d].thStatus = "running"
    BY <1>2, StatusIsSet DEF Types, Begin
  <2>2. /\ pc[t] = "begin"
        /\ pc'[t] \in {"none", "start"}
        /\ pc'[t] = "start" => Entered(campaignId) /\ id'[t] = campaignId
        /\ \A u \in Threads \ {t} : pc'[u] = pc[u] /\ id'[u] = id[u]
    BY <1>2 DEF Begin, Goto, Return, Types, ThreadTypes
  <2>3. BeginsOnItsEntry'
    BY <1>1, <2>1, <2>2 DEF Owners, BeginsOnItsEntry, Owns, Entered
  <2>4. EntryRuns'
    <3> SUFFICES ASSUME NEW u \in Threads, pc'[u] \notin {"none", "begin"},
                        id'[u] \notin raced
                 PROVE  /\ Owns(u, id[u])'
                        /\ G_smsCampaignMap'[id'[u]].thStatus = "running"
      BY <1>1 DEF EntryRuns
    <3>1. CASE u = t
      <4>1. pc'[t] = "start" /\ Entered(campaignId) /\ id'[t] = campaignId
        BY <2>2, <3>1
      <4>2. campaignId # 0
        BY <4>1, CampaignAssumption DEF Entered, Types, MapType
      <4>3. Owns(t, campaignId)
        BY <2>2, <3>1, <4>1, <4>2 DEF Owners, BeginsOnItsEntry
      <4> QED BY <2>1, <3>1, <4>1, <4>3 DEF Owns, Entered
    <3>2. CASE u # t
      <4>1. /\ pc[u] \notin {"none", "begin"} /\ id'[u] = id[u]
        BY <2>2, <3>2
      <4>2. Owns(u, id[u]) /\ G_smsCampaignMap[id[u]].thStatus = "running"
        BY <4>1 DEF Owners, EntryRuns
      <4> QED BY <2>1, <4>1, <4>2 DEF Owns, Entered
    <3> QED BY <3>1, <3>2
  <2> QED BY <2>3, <2>4 DEF Owners
<1>3. CASE StartFails(t) \/ Complete(t)
  <2>1. /\ pc[t] \notin {"none", "begin"} /\ SetStatus(id[t], "stop")
        /\ Goto(t, "none")
    BY <1>3 DEF StartFails, Complete, Return
  <2>2. \A u \in Threads \ {t} : id'[u] = id[u]
    BY <1>3 DEF StartFails, Complete, Return, Types, ThreadTypes
  <2>3. "none" \in Labels \ {"begin"} /\ "stop" \in {"running", "stop"}
    BY DEF Labels
  <2> HIDE DEF Labels
  <2> QED BY <1>1, <2>1, <2>2, <2>3, StatusKeepsOwners
<1>4. CASE MarkCampaign(t)
  <2>1. /\ pc[t] \notin {"none", "begin"} /\ SetStatus(id[t], "running")
        /\ Goto(t, "loop") /\ id' = id
    BY <1>4 DEF MarkCampaign, locals
  <2>2. "loop" \in Labels \ {"begin"} /\ "running" \in {"running", "stop"}
    BY DEF Labels
  <2> QED BY <1>1, <2>1, <2>2, StatusKeepsOwners
<1>5. CASE \/ Select(t) \/ SelectFails(t) \/ NullResult(t) \/ StopSeen(t)
           \/ (\E r \in Rows : SendSms(t, r)) \/ MarkRows(t) \/ MarkRowsFails(t)
  <2>1. /\ pc[t] \notin {"none", "begin"} /\ id' = id
        /\ G_smsCampaignMap' = G_smsCampaignMap
    BY <1>5 DEF Select, SelectFails, NullResult, StopSeen, SendSms, MarkRows,
                MarkRowsFails, locals
  <2>2. \E label \in {"loop", "send", "mark", "complete"} : Goto(t, label)
    BY <1>5 DEF Select, SelectFails, NullResult, StopSeen, SendSms, MarkRows,
                MarkRowsFails, CountError
  <2>3. PICK label \in Labels \ {"none", "begin"} : Goto(t, label)
    BY <2>2 DEF Labels
  <2> QED BY <1>1, <2>1, <2>3, LoopKeepsOwners
<1> QED BY <1>2, <1>3, <1>4, <1>5 DEF CampaignThread

LEMMA StepKeepsOwners ==
  ASSUME Types, Owners, [Next]_vars
  PROVE  Owners'
<1>1. CASE UNCHANGED vars \/ CampaignsUntouched
  BY <1>1 DEF vars, mainVars, locals, CampaignsUntouched, Owners,
     BeginsOnItsEntry, EntryRuns, Owns, Entered
<1>2. CASE \/ \E r \in Rows, status \in {"scheduled", "answered"} : Answer(r, status)
           \/ UpdateRow \/ AppOther
  BY <1>1, <1>2 DEF Answer, UpdateRow, AppOther
<1>3. CASE ProcessEnds
  BY <1>3 DEF ProcessEnds, Owners, BeginsOnItsEntry, EntryRuns
<1> QED BY <1>1, <1>2, <1>3, MainKeepsOwners, ThreadKeepsOwners DEF Next

-----------------------------------------------------------------------------
(* Campaigns that are PICKED. *)

(* The thread of a PICKED campaign is past the query that marked it.       *)
Working ==
  \A c \in Campaigns \ leftPicked :
    campaign[c] = "picked" =>
      \E t \in Threads :
        pc[t] \in {"loop", "send", "mark", "complete"} /\ id[t] = c

(* A thread that goes on with its campaign, or that was not at work on it. *)
LEMMA OthersKeepWorking ==
  ASSUME Types, Working, NEW t \in Threads, campaign' = campaign,
         leftPicked \subseteq leftPicked',
         \A u \in Threads \ {t} : pc'[u] = pc[u] /\ id'[u] = id[u],
         \/ /\ pc'[t] \in {"loop", "send", "mark", "complete"} /\ id'[t] = id[t]
         \/ pc[t] \notin {"loop", "send", "mark", "complete"}
  PROVE  Working'
<1> SUFFICES ASSUME NEW c \in Campaigns \ leftPicked, campaign[c] = "picked"
             PROVE  \E u \in Threads :
                      /\ pc'[u] \in {"loop", "send", "mark", "complete"}
                      /\ id'[u] = c
  BY DEF Working
<1>1. PICK u \in Threads :
        pc[u] \in {"loop", "send", "mark", "complete"} /\ id[u] = c
  BY DEF Working
<1>2. CASE u = t
  BY <1>1, <1>2
<1>3. CASE u # t
  BY <1>1, <1>3
<1> QED BY <1>2, <1>3

LEMMA ThreadKeepsWorking ==
  ASSUME Types, Working, NEW t \in Threads, CampaignThread(t)
  PROVE  Working'
<1> USE DEF Types
<1>1. CASE Begin(t) \/ StartFails(t)
  <2>1. /\ pc[t] \in {"begin", "start"} /\ campaign' = campaign
        /\ leftPicked' = leftPicked
        /\ \A u \in Threads \ {t} : pc'[u] = pc[u] /\ id'[u] = id[u]
    BY <1>1 DEF Begin, StartFails, Return, Goto, dbVars, ThreadTypes
  <2> QED BY <2>1, OthersKeepWorking
<1>2. CASE \/ Select(t) \/ SelectFails(t) \/ NullResult(t) \/ StopSeen(t)
           \/ (\E r \in Rows : SendSms(t, r)) \/ MarkRows(t) \/ MarkRowsFails(t)
  <2>1. /\ id' = id /\ campaign' = campaign /\ leftPicked' = leftPicked
    BY <1>2 DEF Select, SelectFails, NullResult, StopSeen, SendSms, MarkRows,
                MarkRowsFails, locals, dbVars
  <2>2. PICK label \in {"loop", "send", "mark", "complete"} : Goto(t, label)
    BY <1>2 DEF Select, SelectFails, NullResult, StopSeen, SendSms, MarkRows,
                MarkRowsFails, CountError
  <2>3. \A u \in Threads : pc'[u] = IF u = t THEN label ELSE pc[u]
    BY <2>2 DEF Goto, ThreadTypes
  <2> QED BY <2>1, <2>3, OthersKeepWorking
<1>3. CASE MarkCampaign(t)
  <2>1. /\ id' = id /\ leftPicked' = leftPicked /\ pc[t] = "start"
        /\ \A u \in Threads : pc'[u] = IF u = t THEN "loop" ELSE pc[u]
        /\ \A c \in Campaigns : c # id[t] => campaign'[c] = campaign[c]
    BY <1>3 DEF MarkCampaign, Goto, locals, ThreadTypes, DatabaseTypes
  <2> SUFFICES ASSUME NEW c \in Campaigns \ leftPicked, campaign'[c] = "picked"
               PROVE  \E u \in Threads :
                        /\ pc'[u] \in {"loop", "send", "mark", "complete"}
                        /\ id[u] = c
    BY <2>1 DEF Working
  <2>2. CASE c = id[t]
    BY <2>1, <2>2
  <2>3. CASE c # id[t]
    BY <2>1, <2>3 DEF Working
  <2> QED BY <2>2, <2>3
<1>4. CASE Complete(t)
  <2>1. /\ \A u \in Threads \ {t} : pc'[u] = pc[u] /\ id'[u] = id[u]
        /\ \A c \in Campaigns : c # id[t] => campaign'[c] = campaign[c]
        /\ \/ campaign' = [campaign EXCEPT ![id[t]] = "completed"]
           \/ id[t] \in leftPicked'
        /\ leftPicked \subseteq leftPicked'
    BY <1>4 DEF Complete, Return, Goto, ThreadTypes, DatabaseTypes
  <2> SUFFICES ASSUME NEW c \in Campaigns \ leftPicked', campaign'[c] = "picked"
               PROVE  \E u \in Threads :
                        /\ pc'[u] \in {"loop", "send", "mark", "complete"}
                        /\ id'[u] = c
    BY DEF Working
  <2>2. c # id[t]
    BY <2>1 DEF DatabaseTypes
  <2>3. PICK u \in Threads :
          pc[u] \in {"loop", "send", "mark", "complete"} /\ id[u] = c
    BY <2>1, <2>2 DEF Working
  <2> QED BY <2>1, <2>2, <2>3
<1> QED BY <1>1, <1>2, <1>3, <1>4 DEF CampaignThread

LEMMA StepKeepsWorking ==
  ASSUME Types, Working, [Next]_vars
  PROVE  Working'
<1> USE DEF Types
<1>1. CASE Main
  <2>1. id' = id /\ campaign' = campaign /\ leftPicked' = leftPicked
    BY <1>1 DEF Main, Boot, Started, NoneFound, CreateFails, Sweep,
                StartCampaign, MainFrame, locals, dbVars
  <2>2. \A u \in Threads : pc[u] # "none" => pc'[u] = pc[u]
    BY <1>1, FreeIsFree DEF Main, Boot, Started, NoneFound, CreateFails, Sweep,
                StartCampaign, ThreadTypes
  <2> QED BY <2>1, <2>2 DEF Working
<1>2. CASE ProcessEnds
  BY <1>2 DEF ProcessEnds, dbVars, Working
<1>3. CASE CampaignsUntouched \/ UNCHANGED vars
  BY <1>3 DEF CampaignsUntouched, vars, dbVars, locals, Working
<1>4. CASE \/ \E r \in Rows, status \in {"scheduled", "answered"} : Answer(r, status)
           \/ UpdateRow \/ AppOther
  BY <1>3, <1>4 DEF Answer, UpdateRow, AppOther
<1> QED BY <1>1, <1>2, <1>3, <1>4, ThreadKeepsWorking DEF Next

-----------------------------------------------------------------------------
(* The invariant of the campaigns. *)

CampaignInv == Types /\ Owners /\ Working

LEMMA CampaignInitInv == Init => CampaignInv
<1>1. Init => Owners
  BY DEF Init, Owners, BeginsOnItsEntry, EntryRuns
<1>2. Init => Working
  BY DEF Init, Working
<1> QED BY <1>1, <1>2, InitTypes DEF CampaignInv

LEMMA CampaignIsKept == Spec => []CampaignInv
<1>1. CampaignInv /\ QueueInv /\ [Next]_vars => CampaignInv'
  BY StepKeepsTypes, StepKeepsOwners, StepKeepsWorking DEF CampaignInv
<1> QED BY CampaignInitInv, <1>1, CampaignsUseQueue, QueueIsKept, PTL DEF Spec

(* The types, for any number of campaigns, rows, threads and updates. *)
THEOREM CampaignTypes == Spec => []TypeOK
<1>1. CampaignInv /\ QueueInv => TypeOK
  BY TypesAreTypeOK DEF CampaignInv, QueueInv
<1> QED BY <1>1, CampaignIsKept, CampaignsUseQueue, QueueIsKept, PTL

(* The entry of a thread that works on a campaign started once is in the   *)
(* map until it returns, with its pthread: l_campaignItr is never a        *)
(* dangling iterator, and Main joins the thread it means to join.          *)
THEOREM EntriesOutliveThreads == Spec => []EntryOutlivesThread
<1>1. CampaignInv => EntryOutlivesThread
  BY DEF CampaignInv, Owners, EntryRuns, EntryOutlivesThread, Owns, Live
<1> QED BY <1>1, CampaignIsKept, PTL

(* A PICKED campaign has a thread that works on it, unless the process     *)
(* ended or the last query of its thread failed.                           *)
THEOREM PickedIsWorkedOn == Spec => []PickedHasThread
<1>1. CampaignInv => PickedHasThread
  BY DEF CampaignInv, Working, PickedHasThread, Live
<1> QED BY <1>1, CampaignIsKept, PTL
-----------------------------------------------------------------------------
(* Campaigns that are COMPLETED. *)

(* Whatever tells of an SMS of a row - one under way, one to be marked, an *)
(* update, the row's own status - tells that the row was queued.           *)
TracesOfRows ==
  /\ \A r \in Rows : pending[r] > 0 \/ row[r] # "scheduled" => sent[r] > 0
  /\ \A t \in Threads, r \in Rows : r \in submitted[t] => sent[r] > 0
TracesOfUpdates ==
  /\ \A i \in 1 .. Len(mq) : sent[mq[i].row] > 0
  /\ msg # NoUpdate => sent[msg.row] > 0
Traces == TracesOfRows /\ TracesOfUpdates

(* A row once queued stays queued, a race or a surrender stays one.        *)
LEMMA HistoryGrows ==
  ASSUME Types, [Next]_vars
  PROVE  /\ \A r \in Rows : sent[r] > 0 => sent'[r] > 0
         /\ raced \subseteq raced' /\ gaveUp \subseteq gaveUp'
<1> USE DEF Types, CountTypes
<1>1. CASE Main
  <2>1. sent' = sent /\ gaveUp' = gaveUp
    BY <1>1 DEF Main, Boot, Started, NoneFound, CreateFails, Sweep,
                StartCampaign, MainFrame, rowHistory
  <2>2. raced \subseteq raced'
    BY <1>1 DEF Main, Boot, Started, NoneFound, CreateFails, Sweep,
                StartCampaign, Race
  <2> QED BY <2>1, <2>2
<1>2. ASSUME NEW t \in Threads, CampaignThread(t)
      PROVE  /\ raced' = raced /\ gaveUp \subseteq gaveUp'
             /\ sent' = sent \/ \E r \in Rows : SendSms(t, r)
  BY <1>2 DEF CampaignThread, Begin, StartFails, MarkCampaign, Select, SelectFails,
         NullResult, StopSeen, SendSms, MarkRows, MarkRowsFails, Complete,
         CountError, ThreadFrame
<1>3. ASSUME NEW t \in Threads, NEW q \in Rows, SendSms(t, q)
      PROVE  \A r \in Rows : sent[r] > 0 => sent'[r] > 0
  BY <1>3 DEF SendSms
<1>4. CASE CampaignsUntouched \/ ProcessEnds \/ UNCHANGED vars
  BY <1>4 DEF CampaignsUntouched, ProcessEnds, rowHistory, vars
<1>5. CASE \/ \E r \in Rows, status \in {"scheduled", "answered"} : Answer(r, status)
           \/ UpdateRow \/ AppOther
  BY <1>4, <1>5 DEF Answer, UpdateRow, AppOther
<1> QED BY <1>1, <1>2, <1>3, <1>4, <1>5 DEF Next

(* The two sides of the step an update goes through: the worker writes one *)
(* for an SMS under way, DbInsertApp takes and executes what was written.  *)
LEMMA StepKeepsTracesOfUpdates ==
  ASSUME Types, QueueInv, Traces, [Next]_vars
  PROVE  TracesOfUpdates'
<1>0. /\ \A r \in Rows : sent[r] > 0 => sent'[r] > 0
      /\ mq \in Seq(Updates) /\ msg \in Updates \union {NoUpdate}
      /\ \A u \in Updates : u.row \in Rows
  BY HistoryGrows, CampaignAssumption DEF QueueInv, QueueTypeOK
<1>1. \A i \in 1 .. Len(mq) : sent'[mq[i].row] > 0
  BY <1>0 DEF Traces, TracesOfUpdates
<1>2. msg # NoUpdate => sent'[msg.row] > 0
  BY <1>0 DEF Traces, TracesOfUpdates
<1>3. CASE mq' = mq /\ msg' \in {msg, NoUpdate}
  BY <1>1, <1>2, <1>3 DEF TracesOfUpdates
<1>4. CASE QueueNext /\ ~Read /\ ~\E u \in Updates : Write(u)
  BY <1>3, <1>4 DEF QueueNext, Open, HandleLost, WriteRefused, queueVars,
                    AppStarts, Execute, ExecuteFails, AppEnds
<1>5. CASE Read
  <2>1. /\ mq # << >> /\ msg' = Head(mq) /\ mq' = Tail(mq)
    BY <1>5 DEF Read
  <2>2. Len(mq) \in Nat /\ Len(mq) > 0 /\ Head(mq) = mq[1]
    BY <1>0, <2>1, LenProperties, EmptySeq
  <2>3. /\ Len(mq') = Len(mq) - 1
        /\ \A i \in 1 .. Len(mq') : mq'[i] = mq[i + 1]
    BY <1>0, <2>1, HeadTailProperties
  <2>4. 1 \in 1 .. Len(mq) /\ \A i \in 1 .. Len(mq') : i + 1 \in 1 .. Len(mq)
    BY <2>2, <2>3
  <2> QED BY <1>1, <2>1, <2>2, <2>3, <2>4 DEF TracesOfUpdates
<1>6. ASSUME NEW u \in Updates, Write(u) PROVE TracesOfUpdates'
  <2>1. /\ mq' = Append(mq, u) /\ msg' = msg
    BY <1>6 DEF Write
  <2>2. sent'[u.row] > 0
    <3>1. ASSUME NEW r \in Rows, NEW status \in {"scheduled", "answered"},
                 Answer(r, status)
          PROVE  sent'[u.row] > 0
      <4>1. [row |-> r, status |-> status] \in Updates
        BY CampaignAssumption
      <4>2. mq' = Append(mq, [row |-> r, status |-> status]) \/ mq' = mq
        BY <3>1 DEF Answer, Write, WriteRefused, queueVars
      <4>3. /\ Len(mq') = Len(mq) + 1
            /\ mq'[Len(mq) + 1] = u
            /\ mq' = Append(mq, [row |-> r, status |-> status])
                 => mq'[Len(mq) + 1] = [row |-> r, status |-> status]
        BY <1>0, <2>1, <4>1, AppendProperties
      <4>4. Len(mq) \in Nat
        BY <1>0, LenProperties
      <4>5. u = [row |-> r, status |-> status]
        BY <4>2, <4>3, <4>4
      <4>6. pending[r] > 0
        BY <3>1 DEF Answer
      <4> QED BY <1>0, <4>5, <4>6 DEF Traces, TracesOfRows
    <3>2. Len(mq') # Len(mq)
      <4>1. Len(mq) \in Nat
        BY <1>0, LenProperties
      <4> QED BY <1>0, <2>1, <4>1, AppendProperties
    <3>3. \A t \in Threads : ~CampaignThread(t)
      BY <3>2 DEF CampaignThread, Begin, StartFails, MarkCampaign, Select,
         SelectFails, NullResult, StopSeen, SendSms, MarkRows, MarkRowsFails,
         Complete, ThreadFrame, queueVars
    <3>4. ~Main
      BY <3>2 DEF Main, Boot, Started, NoneFound, CreateFails, Sweep,
         StartCampaign, Open, queueVars
    <3>5. /\ ~UpdateRow /\ ~ProcessEnds /\ ~UNCHANGED vars
      BY <3>2 DEF UpdateRow, Execute, ProcessEnds, HandleLost, vars, queueVars
    <3>6. ~AppOther
      <4>1. ~Read
        <5>1. SUFFICES ASSUME Read PROVE FALSE
          OBVIOUS
        <5>2. mq # << >> /\ mq' = Tail(mq)
          BY <5>1 DEF Read
        <5>3. Len(mq') = Len(mq) - 1 /\ Len(mq) \in Nat
          BY <1>0, <5>2, HeadTailProperties, LenProperties
        <5>4. Len(mq') = Len(mq) + 1
          BY <1>0, <2>1, AppendProperties
        <5> QED BY <5>3, <5>4
      <4> QED BY <3>2, <4>1 DEF AppOther, AppStarts, ExecuteFails, AppEnds
    <3> QED BY <3>1, <3>3, <3>4, <3>5, <3>6 DEF Next
  <2>3. /\ Len(mq') = Len(mq) + 1 /\ Len(mq) \in Nat
        /\ \A i \in 1 .. Len(mq) : mq'[i] = mq[i]
        /\ mq'[Len(mq) + 1] = u
    BY <1>0, <2>1, AppendProperties, LenProperties
  <2>4. \A i \in 1 .. Len(mq') : sent'[mq'[i].row] > 0
    BY <1>1, <2>2, <2>3
  <2> QED BY <1>2, <2>1, <2>4 DEF TracesOfUpdates
<1>7. CASE UNCHANGED queueVars
  BY <1>3, <1>7 DEF queueVars
<1> QED BY <1>4, <1>5, <1>6, <1>7, StepsAreQueueSteps

LEMMA StepKeepsTracesOfRows ==
  ASSUME Types, QueueInv, Traces, [Next]_vars
  PROVE  TracesOfRows'
<1> USE DEF Types
<1>0. /\ TracesOfRows
      /\ \A r \in Rows : sent[r] > 0 => sent'[r] > 0
  BY HistoryGrows DEF Traces
<1>1. CASE UNCHANGED <<row, submitted, sent, pending>>
  BY <1>0, <1>1 DEF TracesOfRows
<1>2. CASE Main
  BY <1>1, <1>2 DEF Main, Boot, Started, NoneFound, CreateFails, Sweep,
     StartCampaign, MainFrame, dbVars, locals, smscVars, rowHistory
<1>3. ASSUME NEW t \in Threads, CampaignThread(t) PROVE TracesOfRows'
  <2>1. CASE \/ Begin(t) \/ StartFails(t) \/ MarkCampaign(t) \/ Select(t)
             \/ SelectFails(t) \/ NullResult(t) \/ StopSeen(t)
             \/ MarkRowsFails(t) \/ Complete(t)
    <3>1. UNCHANGED <<row, sent, pending>>
      BY <2>1 DEF Begin, StartFails, MarkCampaign, Select, SelectFails,
         NullResult, StopSeen, MarkRowsFails, Complete, dbVars
    <3>2. \A u \in Threads : submitted'[u] \subseteq submitted[u]
      BY <2>1 DEF Begin, StartFails, MarkCampaign, Select, SelectFails,
         NullResult, StopSeen, MarkRowsFails, Complete, Return, locals,
         ThreadTypes
    <3> QED BY <1>0, <3>1, <3>2 DEF TracesOfRows
  <2>2. ASSUME NEW q \in Rows, SendSms(t, q) PROVE TracesOfRows'
    <3>1. sent'[q] > 0
      BY <2>2 DEF SendSms, CountTypes
    <3>2. /\ row' = row
          /\ \A r \in Rows \ {q} : pending'[r] = pending[r]
          /\ \A u \in Threads : submitted'[u] \subseteq submitted[u] \union {q}
      BY <2>2 DEF SendSms, dbVars, CountTypes, ThreadTypes
    <3> QED BY <1>0, <3>1, <3>2 DEF TracesOfRows
  <2>3. CASE MarkRows(t)
    <3>1. /\ pending' = pending
          /\ \A r \in Rows : row'[r] # "scheduled" =>
               row[r] # "scheduled" \/ r \in submitted[t]
          /\ \A u \in Threads : submitted'[u] \subseteq submitted[u]
      BY <2>3 DEF MarkRows, Marked, ThreadTypes, DatabaseTypes
    <3> QED BY <1>0, <3>1 DEF TracesOfRows
  <2> QED BY <1>3, <2>1, <2>2, <2>3 DEF CampaignThread
<1>4. ASSUME NEW q \in Rows, NEW status \in {"scheduled", "answered"},
             Answer(q, status)
      PROVE  TracesOfRows'
  <2>1. /\ row' = row /\ submitted' = submitted
        /\ \A r \in Rows : pending'[r] > 0 => pending[r] > 0
    BY <1>4 DEF Answer, CampaignsUntouched, locals, CountTypes
  <2> QED BY <1>0, <2>1 DEF TracesOfRows
<1>5. CASE UpdateRow
  <2>1. msg \in Updates /\ msg # NoUpdate
    BY <1>5 DEF UpdateRow, Execute, QueueInv, QueueTypeOK, HandIsExecuted
  <2>2. msg.row \in Rows /\ sent'[msg.row] > 0
    BY <1>0, <2>1, CampaignAssumption DEF Traces, TracesOfUpdates
  <2>3. /\ \A r \in Rows \ {msg.row} : row'[r] = row[r]
        /\ pending' = pending /\ submitted' = submitted
    BY <1>5 DEF UpdateRow, CampaignsUntouched, locals, smscVars, DatabaseTypes
  <2> QED BY <1>0, <2>2, <2>3 DEF TracesOfRows
<1>6. CASE AppOther
  BY <1>1, <1>6 DEF AppOther, CampaignsUntouched, locals, smscVars
<1>7. CASE ProcessEnds
  BY <1>0, <1>7 DEF ProcessEnds, dbVars, rowHistory, TracesOfRows
<1>8. CASE UNCHANGED vars
  BY <1>1, <1>8 DEF vars, dbVars, locals, smscVars, rowHistory
<1> QED BY <1>2, <1>3, <1>4, <1>5, <1>6, <1>7, <1>8 DEF Next

AllQueued(c) == \A r \in Rows : CampaignOf[r] = c => sent[r] > 0

(* A thread that is about to mark its campaign has found no row left.      *)
FoundNoneLeft ==
  \A t \in Threads :
    pc[t] = "complete" /\ id[t] \notin raced \union gaveUp => AllQueued(id[t])

Done == FoundNoneLeft /\ CompletedMeansDone

(* An empty window means that no row is scheduled. *)
LEMMA NoWindow ==
  ASSUME NEW c, {} \in Windows(c)
  PROVE  ScheduledRows(c) = {}
<1>1. Cardinality({}) = 0
  BY FS_EmptySet
<1>2. Cardinality({}) # SMS_CAMPAIGN_WINDOW_SIZE
  BY <1>1, CampaignAssumption
<1> QED BY <1>2 DEF Windows

LEMMA StepKeepsFoundNoneLeft ==
  ASSUME Types, Owners, Traces, Done, [Next]_vars
  PROVE  FoundNoneLeft'
<1> USE DEF Types
<1>0. /\ \A c \in Campaigns : AllQueued(c) => AllQueued(c)'
      /\ raced \subseteq raced' /\ gaveUp \subseteq gaveUp'
  BY HistoryGrows DEF AllQueued
<1>1. ASSUME \A t \in Threads :
               pc'[t] = "complete" => pc[t] = "complete" /\ id'[t] = id[t]
      PROVE  FoundNoneLeft'
  BY <1>0, <1>1 DEF Done, FoundNoneLeft, LocalsMatch
<1>2. CASE Main
  <2>1. /\ id' = id
        /\ \A t \in Threads : pc'[t] = "complete" => pc[t] = "complete"
    BY <1>2 DEF Main, Boot, Started, NoneFound, CreateFails, Sweep,
       StartCampaign, MainFrame, locals, ThreadTypes
  <2> QED BY <1>1, <2>1
<1>3. ASSUME NEW t \in Threads, CampaignThread(t) PROVE FoundNoneLeft'
  <2>1. \A u \in Threads \ {t} : pc'[u] = pc[u] /\ id'[u] = id[u]
    BY <1>3 DEF CampaignThread, Begin, StartFails, MarkCampaign, Select,
       SelectFails, NullResult, StopSeen, SendSms, MarkRows, MarkRowsFails,
       Complete, CountError, Return, Goto, locals, ThreadTypes
  <2>2. CASE pc'[t] # "complete"
    BY <1>1, <2>1, <2>2
  <2>3. ASSUME pc'[t] = "complete",
               AllQueued(id[t])' \/ id[t] \in raced' \union gaveUp',
               id'[t] = id[t]
        PROVE  FoundNoneLeft'
    <3> SUFFICES ASSUME NEW u \in Threads, pc'[u] = "complete",
                        id'[u] \notin raced' \union gaveUp'
                 PROVE  AllQueued(id[u])'
      BY DEF FoundNoneLeft
    <3>1. CASE u = t
      BY <2>3, <3>1
    <3>2. CASE u # t
      <4>1. pc[u] = "complete" /\ id'[u] = id[u] /\ id[u] \in Campaigns
        BY <2>1, <3>2 DEF LocalsMatch
      <4>2. AllQueued(id[u])
        BY <1>0, <4>1 DEF Done, FoundNoneLeft
      <4>3. AllQueued(id[u])'
        BY <1>0, <4>1, <4>2
      <4> QED BY <4>1, <4>3 DEF AllQueued
    <3> QED BY <3>1, <3>2
  <2>4. CASE Select(t)
    <3>1. PICK w \in Windows(id[t]) : Goto(t, IF w = {} THEN "complete" ELSE "send")
      BY <2>4 DEF Select
    <3>2. CASE w # {}
      BY <2>2, <3>1, <3>2 DEF Goto, ThreadTypes
    <3>3. CASE w = {}
      <4>1. ScheduledRows(id[t]) = {}
        BY <3>1, <3>3, NoWindow
      <4>2. AllQueued(id[t])
        BY <4>1 DEF ScheduledRows, AllQueued, Traces, TracesOfRows
      <4>3. id[t] \in Campaigns /\ id'[t] = id[t] /\ pc'[t] = "complete"
        BY <2>4, <3>1, <3>3 DEF Select, Goto, LocalsMatch, ThreadTypes
      <4> QED BY <1>0, <2>3, <4>2, <4>3
    <3> QED BY <3>2, <3>3
  <2>5. CASE SelectFails(t) \/ NullResult(t) \/ MarkRowsFails(t)
    <3>1. id' = id /\ (pc'[t] = "complete" => id[t] \in gaveUp')
      BY <2>5 DEF SelectFails, NullResult, MarkRowsFails, CountError, Goto,
         ThreadTypes
    <3> QED BY <2>2, <2>3, <3>1
  <2>6. CASE StopSeen(t)
    <3>1. id' = id /\ pc[t] = "loop" /\ pc'[t] = "complete" /\ MayStop(t)
      BY <2>6 DEF StopSeen, Goto, locals, ThreadTypes
    <3>2. id[t] \in raced
      BY <3>1 DEF Owners, EntryRuns, Owns, MayStop
    <3> QED BY <1>0, <2>3, <3>1, <3>2
  <2>7. CASE \/ Begin(t) \/ StartFails(t) \/ MarkCampaign(t)
             \/ (\E r \in Rows : SendSms(t, r)) \/ MarkRows(t) \/ Complete(t)
    <3>1. pc'[t] # "complete"
      BY <2>7 DEF Begin, StartFails, MarkCampaign, SendSms, MarkRows, Complete,
         Return, Goto, ThreadTypes
    <3> QED BY <2>2, <3>1
  <2> QED BY <1>3, <2>4, <2>5, <2>6, <2>7 DEF CampaignThread
<1>4. CASE CampaignsUntouched \/ UNCHANGED vars
  BY <1>1, <1>4 DEF CampaignsUntouched, vars, locals
<1>5. CASE \/ \E r \in Rows, status \in {"scheduled", "answered"} : Answer(r, status)
           \/ UpdateRow \/ AppOther
  BY <1>4, <1>5 DEF Answer, UpdateRow, AppOther
<1>6. CASE ProcessEnds
  BY <1>1, <1>6 DEF ProcessEnds
<1> QED BY <1>2, <1>3, <1>4, <1>5, <1>6 DEF Next

LEMMA StepKeepsCompleted ==
  ASSUME Types, Done, [Next]_vars
  PROVE  CompletedMeansDone'
<1> USE DEF Types
<1>0. /\ \A r \in Rows : sent[r] > 0 => sent'[r] > 0
      /\ raced \subseteq raced' /\ gaveUp \subseteq gaveUp'
  BY HistoryGrows
<1>1. ASSUME \A c \in Campaigns : campaign'[c] = "completed" =>
               \/ campaign[c] = "completed" \/ AllQueued(c)
               \/ c \in raced \union gaveUp
      PROVE  CompletedMeansDone'
  BY <1>0, <1>1, CampaignAssumption DEF Done, CompletedMeansDone, AllQueued
<1>2. CASE campaign' = campaign
  BY <1>1, <1>2
<1>3. CASE Main
  BY <1>2, <1>3 DEF Main, Boot, Started, NoneFound, CreateFails, Sweep,
     StartCampaign, MainFrame, dbVars
<1>4. ASSUME NEW t \in Threads, CampaignThread(t) PROVE CompletedMeansDone'
  <2>1. CASE MarkCampaign(t)
    BY <1>1, <2>1 DEF MarkCampaign, DatabaseTypes
  <2>2. CASE Complete(t)
    <3>1. AllQueued(id[t]) \/ id[t] \in raced \union gaveUp
      BY <2>2 DEF Complete, Done, FoundNoneLeft
    <3> QED BY <1>1, <2>2, <3>1 DEF Complete, DatabaseTypes
  <2>3. CASE ~MarkCampaign(t) /\ ~Complete(t)
    BY <1>2, <1>4, <2>3 DEF CampaignThread, Begin, StartFails, Select,
       SelectFails, NullResult, StopSeen, SendSms, MarkRows, MarkRowsFails, dbVars
  <2> QED BY <2>1, <2>2, <2>3
<1>5. CASE \/ \E r \in Rows, status \in {"scheduled", "answered"} : Answer(r, status)
           \/ UpdateRow \/ AppOther \/ ProcessEnds \/ UNCHANGED vars
  BY <1>2, <1>5 DEF Answer, UpdateRow, AppOther, CampaignsUntouched, ProcessEnds,
     dbVars, vars
<1> QED BY <1>3, <1>4, <1>5 DEF Next

(* A campaign that is COMPLETED has had all its rows queued, whatever      *)
(* failed, was answered late or was restarted, unless a thread of it gave  *)
(* up on the database or it was started a second time.                     *)
THEOREM CompletedIsDone == Spec => []CompletedMeansDone
<1>1. Init => Traces /\ Done
  <2> SUFFICES ASSUME Init PROVE Traces /\ Done
    OBVIOUS
  <2>1. mq = << >> /\ Len(mq) = 0
    BY LenProperties, EmptySeq DEF Init, QueueInit
  <2> QED BY <2>1, CampaignAssumption
    DEF Init, QueueInit, Traces, TracesOfRows, TracesOfUpdates, Done,
        FoundNoneLeft, CompletedMeansDone
<1>2. /\ CampaignInv /\ QueueInv /\ Traces /\ Done /\ [Next]_vars
      => (Traces /\ Done)'
  BY StepKeepsTracesOfRows, StepKeepsTracesOfUpdates, StepKeepsFoundNoneLeft,
     StepKeepsCompleted DEF CampaignInv, Traces, Done
<1>3. Done => CompletedMeansDone
  BY DEF Done
<1> QED BY <1>1, <1>2, <1>3, CampaignIsKept, CampaignsUseQueue, QueueIsKept, PTL
  DEF Spec
-----------------------------------------------------------------------------
(* Rows that are queued again. *)

(* The rows a thread holds: where it holds none, whose they are, and that  *)
(* its campaign is not SCHEDULED any more.                                 *)
HoldsNone ==
  \A t \in Threads :
    /\ pc[t] \in {"start", "loop", "complete"} => submitted[t] = {}
    /\ pc[t] \in {"start", "loop", "mark", "complete"} => window[t] = {}
HoldsItsOwn ==
  \A t \in Threads, r \in Rows :
    r \in window[t] \/ r \in submitted[t] => CampaignOf[r] = id[t]
HoldsMarked ==
  \A t \in Threads :
    pc[t] \in {"loop", "send", "mark", "complete"} =>
      campaign[id[t]] # "scheduled"
Holds == HoldsNone /\ HoldsItsOwn /\ HoldsMarked

LEMMA ThreadKeepsHolds ==
  ASSUME Types, Holds, NEW t \in Threads, CampaignThread(t)
  PROVE  Holds'
<1> USE DEF Types, Holds
<1>1. ASSUME \A u \in Threads \ {t} :
               /\ pc'[u] = pc[u] /\ id'[u] = id[u]
               /\ window'[u] = window[u] /\ submitted'[u] = submitted[u],
             /\ pc'[t] \in {"start", "loop", "complete"} => submitted'[t] = {}
             /\ pc'[t] \in {"start", "loop", "mark", "complete"} => window'[t] = {},
             \A r \in window'[t] \union submitted'[t] : CampaignOf[r] = id'[t],
             \A c \in Campaigns : campaign[c] # "scheduled" =>
                                   campaign'[c] # "scheduled",
             pc'[t] \in {"loop", "send", "mark", "complete"} =>
               campaign'[id'[t]] # "scheduled"
      PROVE  Holds'
  <2>1. HoldsNone'
    BY <1>1 DEF HoldsNone
  <2>2. HoldsItsOwn'
    BY <1>1 DEF HoldsItsOwn
  <2>3. HoldsMarked'
    BY <1>1 DEF HoldsMarked, LocalsMatch
  <2> QED BY <2>1, <2>2, <2>3
<1>2. id[t] \in Campaigns \/ pc[t] \in {"none", "begin"}
  BY DEF LocalsMatch
<1>3. CASE Begin(t)
  <2>1. /\ pc'[t] \in {"none", "start"} /\ window'[t] = {} /\ submitted'[t] = {}
        /\ campaign' = campaign
        /\ \A u \in Threads \ {t} :
             /\ pc'[u] = pc[u] /\ id'[u] = id[u]
             /\ window'[u] = window[u] /\ submitted'[u] = submitted[u]
    BY <1>3 DEF Begin, Return, Goto, dbVars, ThreadTypes, LocalsMatch
  <2> QED BY <1>1, <2>1
<1>4. CASE StartFails(t) \/ Complete(t)
  <2>1. /\ pc'[t] = "none" /\ window'[t] = {} /\ submitted'[t] = {}
        /\ \A c \in Campaigns : campaign[c] # "scheduled" =>
                                campaign'[c] # "scheduled"
        /\ \A u \in Threads \ {t} :
             /\ pc'[u] = pc[u] /\ id'[u] = id[u]
             /\ window'[u] = window[u] /\ submitted'[u] = submitted[u]
    BY <1>4 DEF StartFails, Complete, Return, Goto, dbVars, ThreadTypes,
                DatabaseTypes
  <2> QED BY <1>1, <2>1
<1>5. CASE MarkCampaign(t)
  <2>1. /\ pc'[t] = "loop" /\ window' = window /\ submitted' = submitted
        /\ id' = id /\ pc[t] = "start"
        /\ campaign' = [campaign EXCEPT ![id[t]] = "picked"]
        /\ \A u \in Threads \ {t} : pc'[u] = pc[u]
    BY <1>5 DEF MarkCampaign, Goto, locals, ThreadTypes
  <2>2. window[t] = {} /\ submitted[t] = {}
    BY <2>1 DEF HoldsNone
  <2> QED BY <1>1, <1>2, <2>1, <2>2 DEF DatabaseTypes
<1>6. CASE Select(t)
  <2>1. PICK w \in Windows(id[t]) :
          /\ window' = [window EXCEPT ![t] = w]
          /\ Goto(t, IF w = {} THEN "complete" ELSE "send")
    BY <1>6 DEF Select
  <2>2. \A r \in w : CampaignOf[r] = id[t]
    BY DEF Windows, ScheduledRows
  <2>3. /\ pc[t] = "loop" /\ id' = id /\ submitted' = submitted
        /\ campaign' = campaign
    BY <1>6 DEF Select, dbVars
  <2>4. submitted[t] = {}
    BY <2>3 DEF HoldsNone
  <2>5. /\ pc'[t] = IF w = {} THEN "complete" ELSE "send"
        /\ window'[t] = w
        /\ \A u \in Threads \ {t} : pc'[u] = pc[u] /\ window'[u] = window[u]
    BY <2>1 DEF Goto, ThreadTypes
  <2>6. campaign[id[t]] # "scheduled"
    BY <2>3 DEF HoldsMarked
  <2> QED BY <1>1, <2>2, <2>3, <2>4, <2>5, <2>6
<1>7. CASE SelectFails(t) \/ NullResult(t) \/ StopSeen(t)
  <2>1. /\ pc[t] = "loop" /\ id' = id /\ submitted' = submitted
        /\ window' = window /\ campaign' = campaign
        /\ pc'[t] \in {"loop", "complete"}
        /\ \A u \in Threads \ {t} : pc'[u] = pc[u]
    BY <1>7 DEF SelectFails, NullResult, StopSeen, CountError, Goto, locals,
                dbVars, ThreadTypes
  <2>2. submitted[t] = {} /\ window[t] = {} /\ campaign[id[t]] # "scheduled"
    BY <2>1 DEF HoldsNone, HoldsMarked
  <2> QED BY <1>1, <2>1, <2>2
<1>8. ASSUME NEW q \in Rows, SendSms(t, q) PROVE Holds'
  <2>1. /\ pc[t] = "send" /\ id' = id /\ campaign' = campaign
        /\ q \in window[t] /\ window'[t] = window[t] \ {q}
        /\ submitted'[t] = submitted[t] \union {q}
        /\ pc'[t] = IF window[t] = {q} THEN "mark" ELSE "send"
        /\ \A u \in Threads \ {t} :
             /\ pc'[u] = pc[u]
             /\ window'[u] = window[u] /\ submitted'[u] = submitted[u]
    BY <1>8 DEF SendSms, Goto, dbVars, ThreadTypes
  <2>2. campaign[id[t]] # "scheduled"
    BY <2>1 DEF HoldsMarked
  <2>3. window[t] \subseteq Rows /\ submitted[t] \subseteq Rows
    BY DEF ThreadTypes
  <2>4. \A r \in window[t] \union submitted[t] : CampaignOf[r] = id[t]
    BY <2>3 DEF HoldsItsOwn
  <2> QED BY <1>1, <2>1, <2>2, <2>4
<1>9. CASE MarkRows(t) \/ MarkRowsFails(t)
  <2>1. /\ pc[t] = "mark" /\ id' = id /\ campaign' = campaign
        /\ window' = window /\ submitted'[t] = {}
        /\ pc'[t] \in {"loop", "complete"}
        /\ \A u \in Threads \ {t} :
             pc'[u] = pc[u] /\ submitted'[u] = submitted[u]
    BY <1>9 DEF MarkRows, MarkRowsFails, CountError, Goto, dbVars, ThreadTypes
  <2>2. window[t] = {} /\ campaign[id[t]] # "scheduled"
    BY <2>1 DEF HoldsNone, HoldsMarked
  <2> QED BY <1>1, <2>1, <2>2
<1> QED BY <1>3, <1>4, <1>5, <1>6, <1>7, <1>8, <1>9 DEF CampaignThread

LEMMA StepKeepsHolds ==
  ASSUME Types, Holds, [Next]_vars
  PROVE  Holds'
<1> USE DEF Types, Holds
<1>1. ASSUME UNCHANGED <<campaign, locals>>,
             \A t \in Threads : pc'[t] = pc[t] \/ pc'[t] \in {"none", "begin"}
      PROVE  Holds'
  BY <1>1 DEF locals, HoldsNone, HoldsItsOwn, HoldsMarked
<1>2. CASE Main
  <2>1. UNCHANGED <<campaign, locals>>
    BY <1>2 DEF Main, Boot, Started, NoneFound, CreateFails, Sweep,
       StartCampaign, MainFrame, dbVars
  <2>2. \A t \in Threads : pc'[t] = pc[t] \/ pc'[t] \in {"none", "begin"}
    BY <1>2 DEF Main, Boot, Started, NoneFound, CreateFails, Sweep,
       StartCampaign, ThreadTypes
  <2> QED BY <1>1, <2>1, <2>2
<1>3. CASE CampaignsUntouched \/ UNCHANGED vars
  BY <1>1, <1>3 DEF CampaignsUntouched, vars, dbVars, locals
<1>4. CASE \/ \E r \in Rows, status \in {"scheduled", "answered"} : Answer(r, status)
           \/ UpdateRow \/ AppOther
  BY <1>3, <1>4 DEF Answer, UpdateRow, AppOther
<1>5. CASE ProcessEnds
  BY <1>5 DEF ProcessEnds, HoldsNone, HoldsItsOwn, HoldsMarked
<1> QED BY <1>2, <1>3, <1>4, <1>5, ThreadKeepsHolds DEF Next

(* The campaign of a thread that has yet to read campaignId is SCHEDULED.  *)
BeginsScheduled ==
  \A t \in Threads :
    pc[t] = "begin" /\ campaignId # 0 /\ campaignId \notin raced =>
      campaign[campaignId] = "scheduled"

(* Two threads that work on one campaign are one. *)
LEMMA OneThreadEach ==
  ASSUME Owners, NEW t \in Threads, NEW u \in Threads,
         pc[t] \notin {"none", "begin"}, pc[u] \notin {"none", "begin"},
         id[t] = id[u], id[t] \notin raced
  PROVE  t = u
BY DEF Owners, EntryRuns, Owns

LEMMA StepKeepsBeginsScheduled ==
  ASSUME Types, Owners, BeginsScheduled, [Next]_vars
  PROVE  BeginsScheduled'
<1> USE DEF Types
<1>1. CASE \/ ProcessEnds \/ UNCHANGED vars \/ CampaignsUntouched
  BY <1>1 DEF ProcessEnds, vars, dbVars, mainVars, CampaignsUntouched,
     BeginsScheduled
<1>2. CASE Main
  <2>1. campaign' = campaign /\ raced \subseteq raced'
    BY <1>2 DEF Main, Boot, Started, NoneFound, CreateFails, Sweep,
       StartCampaign, MainFrame, dbVars, Race
  <2>2. \/ campaignId' \in {campaignId, 0} /\ pc' = pc
        \/ campaignId' \in Campaigns /\ campaign[campaignId'] = "scheduled"
    BY <1>2 DEF Main, Boot, Started, NoneFound, CreateFails, Sweep,
       StartCampaign, Found, CanFind
  <2> QED BY <2>1, <2>2 DEF BeginsScheduled
<1>3. ASSUME NEW t \in Threads, CampaignThread(t) PROVE BeginsScheduled'
  <2>1. campaignId' = campaignId /\ raced' = raced
    BY <1>3 DEF CampaignThread, Begin, StartFails, MarkCampaign, Select,
       SelectFails, NullResult, StopSeen, SendSms, MarkRows, MarkRowsFails,
       Complete, ThreadFrame, mainVars
  <2>2. \A u \in Threads : pc'[u] = "begin" => pc[u] = "begin"
    BY <1>3 DEF CampaignThread, Begin, StartFails, MarkCampaign, Select,
       SelectFails, NullResult, StopSeen, SendSms, MarkRows, MarkRowsFails,
       Complete, CountError, Return, Goto, ThreadTypes
  <2>3. CASE campaign' = campaign
    BY <2>1, <2>2, <2>3 DEF BeginsScheduled
  <2>4. CASE MarkCampaign(t) \/ Complete(t)
    <3>1. /\ pc[t] \notin {"none", "begin"}
          /\ \A c \in Campaigns : c # id[t] => campaign'[c] = campaign[c]
      BY <2>4 DEF MarkCampaign, Complete, DatabaseTypes
    <3>2. ASSUME NEW u \in Threads, pc[u] = "begin", campaignId # 0,
                 campaignId \notin raced
          PROVE  campaignId # id[t]
      BY <3>1, <3>2 DEF Owners, BeginsOnItsEntry, EntryRuns, Owns
    <3>3. campaignId # 0 => campaignId \in Campaigns
      BY DEF MainTypes
    <3> QED BY <2>1, <2>2, <3>1, <3>2, <3>3 DEF BeginsScheduled
  <2>5. CASE ~MarkCampaign(t) /\ ~Complete(t)
    BY <2>3, <1>3, <2>5 DEF CampaignThread, Begin, StartFails, Select,
       SelectFails, NullResult, StopSeen, SendSms, MarkRows, MarkRowsFails, dbVars
  <2> QED BY <2>4, <2>5
<1>4. CASE \/ \E r \in Rows, status \in {"scheduled", "answered"} : Answer(r, status)
           \/ UpdateRow \/ AppOther
  BY <1>1, <1>4 DEF Answer, UpdateRow, AppOther
<1> QED BY <1>1, <1>2, <1>3, <1>4 DEF Next

(* A row has room when it may be queued once more: the one to come, and    *)
(* one for each failed mark and each zero, not all used up.                *)
Room(r) == sent[r] < 1 + unmarked[r] + zeroed[r]
MayBeSelected(c) == campaign[c] = "scheduled" \/ \E t \in Threads : id[t] = c

RowInv(r) ==
  CampaignOf[r] \notin raced =>
    /\ sent[r] <= 1 + unmarked[r] + zeroed[r]
    /\ (\E t \in Threads : r \in window[t]) => Room(r)
    /\ /\ row[r] = "scheduled" /\ MayBeSelected(CampaignOf[r])
       /\ \A t \in Threads : r \notin submitted[t]
       => Room(r)
RowsInv == \A r \in Rows : RowInv(r)

(* Steps that count nothing for the row, select nothing and do not forget  *)
(* that it was queued. *)
LEMMA RowIsKept ==
  ASSUME NEW r \in Rows, RowInv(r), raced \subseteq raced',
         sent'[r] = sent[r], unmarked'[r] = unmarked[r], zeroed'[r] = zeroed[r],
         \A t \in Threads : r \in window'[t] => r \in window[t],
         CampaignOf[r] \notin raced' /\ row'[r] = "scheduled" =>
           /\ row[r] = "scheduled"
           /\ MayBeSelected(CampaignOf[r])' =>
                /\ MayBeSelected(CampaignOf[r])
                /\ \A t \in Threads : r \in submitted[t] => r \in submitted'[t]
  PROVE  RowInv(r)'
BY DEF RowInv, Room

LEMMA ThreadKeepsRows ==
  ASSUME Types, Owners, Holds, BeginsScheduled, RowsInv,
         NEW t \in Threads, CampaignThread(t)
  PROVE  RowsInv'
<1> SUFFICES ASSUME NEW r \in Rows PROVE RowInv(r)'
  BY DEF RowsInv
<1> USE DEF Types
<1>0. /\ RowInv(r) /\ CampaignOf[r] \in Campaigns /\ CampaignOf[r] # 0
      /\ sent[r] \in Nat /\ unmarked[r] \in Nat /\ zeroed[r] \in Nat
  BY CampaignAssumption DEF RowsInv, CountTypes
<1>1. raced' = raced /\ zeroed' = zeroed
  BY DEF CampaignThread, Begin, StartFails, MarkCampaign, Select, SelectFails,
         NullResult, StopSeen, SendSms, MarkRows, MarkRowsFails, Complete,
         ThreadFrame
<1>2. CASE Begin(t)
  <2>1. /\ UNCHANGED <<campaign, row, sent, unmarked>>
        /\ pc[t] = "begin"
        /\ \A u \in Threads : window'[u] \subseteq window[u]
        /\ submitted[t] = {}
        /\ \A u \in Threads \ {t} : id'[u] = id[u] /\ submitted'[u] = submitted[u]
        /\ id'[t] \in {0, campaignId}
    BY <1>2 DEF Begin, Return, dbVars, ThreadTypes, LocalsMatch
  <2>2. CampaignOf[r] \notin raced /\ MayBeSelected(CampaignOf[r])'
          => MayBeSelected(CampaignOf[r])
    BY <1>0, <2>1 DEF MayBeSelected, BeginsScheduled
  <2> QED BY <1>0, <1>1, <2>1, <2>2, RowIsKept
<1>3. CASE StartFails(t) \/ Complete(t)
  <2>1. /\ UNCHANGED <<row, sent, unmarked>>
        /\ pc[t] \in {"start", "complete"}
        /\ \A c \in Campaigns : campaign'[c] = "scheduled" => campaign[c] = "scheduled"
        /\ \A u \in Threads : window'[u] \subseteq window[u]
        /\ \A u \in Threads \ {t} : id'[u] = id[u] /\ submitted'[u] = submitted[u]
        /\ id'[t] = 0
    BY <1>3 DEF StartFails, Complete, Return, dbVars, ThreadTypes, DatabaseTypes
  <2>2. submitted[t] = {}
    BY <2>1 DEF Holds, HoldsNone
  <2>3. MayBeSelected(CampaignOf[r])' => MayBeSelected(CampaignOf[r])
    BY <1>0, <2>1 DEF MayBeSelected
  <2> QED BY <1>0, <1>1, <2>1, <2>2, <2>3, RowIsKept
<1>4. CASE MarkCampaign(t) \/ SelectFails(t) \/ NullResult(t) \/ StopSeen(t)
  <2>1. /\ UNCHANGED <<row, sent, unmarked, window, submitted, id>>
        /\ \A c \in Campaigns : campaign'[c] = "scheduled" => campaign[c] = "scheduled"
    BY <1>4 DEF MarkCampaign, SelectFails, NullResult, StopSeen, locals, dbVars,
                DatabaseTypes
  <2>2. MayBeSelected(CampaignOf[r])' => MayBeSelected(CampaignOf[r])
    BY <1>0, <2>1 DEF MayBeSelected
  <2> QED BY <1>0, <1>1, <2>1, <2>2, RowIsKept
<1>5. CASE Select(t)
  <2>1. /\ UNCHANGED <<campaign, row, sent, unmarked, submitted, id>>
        /\ pc[t] = "loop"
        /\ \A u \in Threads \ {t} : window'[u] = window[u]
        /\ window'[t] \subseteq ScheduledRows(id[t])
    BY <1>5 DEF Select, dbVars, ThreadTypes, Windows
  <2>2. MayBeSelected(CampaignOf[r])' <=> MayBeSelected(CampaignOf[r])
    BY <2>1 DEF MayBeSelected
  <2>3. CASE r \notin window'[t]
    BY <1>0, <1>1, <2>1, <2>2, <2>3, RowIsKept
  <2>4. CASE r \in window'[t] /\ CampaignOf[r] \notin raced
    <3>1. CampaignOf[r] = id[t] /\ row[r] = "scheduled"
      BY <2>1, <2>4 DEF ScheduledRows
    <3>2. MayBeSelected(CampaignOf[r])
      BY <3>1 DEF MayBeSelected
    <3>3. ASSUME NEW u \in Threads, r \in submitted[u] PROVE FALSE
      <4>1. CampaignOf[r] = id[u] /\ pc[u] \notin {"none", "begin"}
        BY <3>3 DEF Holds, HoldsItsOwn, LocalsMatch
      <4>2. t = u
        BY <2>1, <2>4, <3>1, <4>1, OneThreadEach
      <4> QED BY <2>1, <3>3, <4>2 DEF Holds, HoldsNone
    <3>4. Room(r)
      BY <1>0, <2>4, <3>1, <3>2, <3>3 DEF RowInv
    <3> QED BY <1>0, <2>1, <3>4, <1>1 DEF RowInv, Room
  <2> QED BY <1>1, <2>3, <2>4 DEF RowInv
<1>6. ASSUME NEW q \in Rows, SendSms(t, q) PROVE RowInv(r)'
  <2>1. /\ UNCHANGED <<campaign, row, unmarked, id>>
        /\ pc[t] = "send" /\ q \in window[t]
        /\ \A p \in Rows : sent'[p] = IF p = q THEN sent[p] + 1 ELSE sent[p]
        /\ \A u \in Threads :
             window'[u] = IF u = t THEN window[u] \ {q} ELSE window[u]
        /\ \A u \in Threads :
             submitted'[u] = IF u = t THEN submitted[u] \union {q} ELSE submitted[u]
    BY <1>6 DEF SendSms, dbVars, ThreadTypes, CountTypes
  <2>2. MayBeSelected(CampaignOf[r])' <=> MayBeSelected(CampaignOf[r])
    BY <2>1 DEF MayBeSelected
  <2>3. CASE r # q
    BY <1>0, <1>1, <2>1, <2>2, <2>3, RowIsKept
  <2>4. CASE r = q /\ CampaignOf[r] \notin raced
    <3>1. Room(r)
      BY <1>0, <2>1, <2>4 DEF RowInv
    <3>2. \A u \in Threads : r \notin window'[u]
      <4> SUFFICES ASSUME NEW u \in Threads, u # t, r \in window[u] PROVE FALSE
        BY <2>1, <2>4
      <4>1. CampaignOf[r] = id[u] /\ CampaignOf[r] = id[t]
        BY <2>1, <2>4 DEF Holds, HoldsItsOwn
      <4>2. pc[u] \notin {"none", "begin"}
        BY DEF LocalsMatch
      <4> QED BY <2>1, <2>4, <4>1, <4>2, OneThreadEach
    <3>3. r \in submitted'[t]
      BY <2>1, <2>4
    <3>4. sent'[r] <= 1 + unmarked'[r] + zeroed'[r]
      BY <1>0, <1>1, <2>1, <2>4, <3>1 DEF Room
    <3> QED BY <3>2, <3>3, <3>4 DEF RowInv
  <2> QED BY <1>1, <2>3, <2>4 DEF RowInv
<1>7. CASE MarkRows(t)
  <2>1. /\ UNCHANGED <<campaign, sent, unmarked, window, id>>
        /\ row'[r] = "scheduled" => row[r] = "scheduled" /\ r \notin submitted[t]
        /\ \A u \in Threads \ {t} : submitted'[u] = submitted[u]
    BY <1>7 DEF MarkRows, Marked, ThreadTypes
  <2>2. MayBeSelected(CampaignOf[r])' <=> MayBeSelected(CampaignOf[r])
    BY <2>1 DEF MayBeSelected
  <2> QED BY <1>0, <1>1, <2>1, <2>2, RowIsKept
<1>8. CASE MarkRowsFails(t)
  <2>1. /\ UNCHANGED <<campaign, row, sent, window, id>>
        /\ unmarked'[r] = unmarked[r] + (IF r \in submitted[t] THEN 1 ELSE 0)
        /\ \A u \in Threads \ {t} : submitted'[u] = submitted[u]
    BY <1>8 DEF MarkRowsFails, dbVars, ThreadTypes
  <2>2. MayBeSelected(CampaignOf[r])' <=> MayBeSelected(CampaignOf[r])
    BY <2>1 DEF MayBeSelected
  <2>3. CASE r \notin submitted[t]
    BY <1>0, <1>1, <2>1, <2>2, <2>3, RowIsKept
  <2>4. CASE r \in submitted[t] /\ CampaignOf[r] \notin raced
    <3>1. Room(r)'
      BY <1>0, <1>1, <2>1, <2>4 DEF RowInv, Room
    <3>2. sent'[r] <= 1 + unmarked'[r] + zeroed'[r]
      BY <1>0, <1>1, <2>1, <2>4 DEF RowInv
    <3> QED BY <3>1, <3>2 DEF RowInv
  <2> QED BY <1>1, <2>3, <2>4 DEF RowInv
<1> QED BY <1>2, <1>3, <1>4, <1>5, <1>6, <1>7, <1>8 DEF CampaignThread

LEMMA StepKeepsRows ==
  ASSUME Types, QueueInv, Owners, Holds, BeginsScheduled, RowsInv, [Next]_vars
  PROVE  RowsInv'
<1> SUFFICES ASSUME NEW r \in Rows, \A t \in Threads : ~CampaignThread(t)
             PROVE  RowInv(r)'
  BY ThreadKeepsRows DEF RowsInv
<1> USE DEF Types
<1>0. /\ RowInv(r) /\ CampaignOf[r] \in Campaigns
      /\ sent[r] \in Nat /\ unmarked[r] \in Nat /\ zeroed[r] \in Nat
  BY CampaignAssumption DEF RowsInv, CountTypes
<1>1. CASE Main
  <2>1. UNCHANGED <<campaign, row, id, window, submitted, sent, unmarked, zeroed>>
    BY <1>1 DEF Main, Boot, Started, NoneFound, CreateFails, Sweep,
       StartCampaign, MainFrame, dbVars, locals, rowHistory
  <2>2. MayBeSelected(CampaignOf[r])' <=> MayBeSelected(CampaignOf[r])
    BY <2>1 DEF MayBeSelected
  <2>3. raced \subseteq raced'
    BY <1>1 DEF Main, Boot, Started, NoneFound, CreateFails, Sweep,
       StartCampaign, Race
  <2> QED BY <1>0, <2>1, <2>2, <2>3, RowIsKept
<1>2. ASSUME UNCHANGED <<campaign, id, window, submitted, sent, unmarked, raced>>,
             row'[r] = row[r], zeroed'[r] = zeroed[r]
      PROVE  RowInv(r)'
  <2>1. MayBeSelected(CampaignOf[r])' <=> MayBeSelected(CampaignOf[r])
    BY <1>2 DEF MayBeSelected
  <2> QED BY <1>0, <1>2, <2>1, RowIsKept
<1>3. CASE UpdateRow
  <2>1. /\ UNCHANGED <<campaign, id, window, submitted, sent, unmarked, raced>>
        /\ r # msg.row => row'[r] = row[r] /\ zeroed'[r] = zeroed[r]
        /\ r = msg.row => /\ row'[r] = msg.status
                          /\ zeroed'[r] = zeroed[r] +
                               (IF msg.status = "scheduled" THEN 1 ELSE 0)
    BY <1>3 DEF UpdateRow, CampaignsUntouched, locals, CountTypes, DatabaseTypes
  <2>2. CASE r # msg.row
    BY <1>2, <2>1, <2>2
  <2>3. MayBeSelected(CampaignOf[r])' <=> MayBeSelected(CampaignOf[r])
    BY <2>1 DEF MayBeSelected
  <2>4. CASE r = msg.row /\ msg.status # "scheduled"
    BY <1>0, <2>1, <2>3, <2>4, RowIsKept
  <2>5. CASE r = msg.row /\ msg.status = "scheduled"
    BY <1>0, <2>1, <2>5 DEF RowInv, Room
  <2> QED BY <2>2, <2>4, <2>5
<1>4. CASE ProcessEnds
  <2>1. /\ UNCHANGED <<campaign, row, sent, unmarked, zeroed, raced>>
        /\ \A t \in Threads : id'[t] = 0 /\ window'[t] = {}
    BY <1>4 DEF ProcessEnds, dbVars, rowHistory
  <2>2. MayBeSelected(CampaignOf[r])' => campaign[CampaignOf[r]] = "scheduled"
    BY <1>0, <2>1, CampaignAssumption DEF MayBeSelected
  <2>3. ASSUME NEW t \in Threads, r \in submitted[t]
        PROVE  campaign[CampaignOf[r]] # "scheduled"
    <3>1. CampaignOf[r] = id[t] /\ pc[t] \in {"send", "mark"}
      BY <2>3 DEF Holds, HoldsItsOwn, HoldsNone, LocalsMatch, ThreadTypes, Labels
    <3> QED BY <3>1 DEF Holds, HoldsMarked
  <2> QED BY <1>0, <2>1, <2>2, <2>3, RowIsKept DEF MayBeSelected
<1>5. CASE \/ \E q \in Rows, status \in {"scheduled", "answered"} : Answer(q, status)
           \/ AppOther \/ UNCHANGED vars
  BY <1>2, <1>5 DEF Answer, AppOther, CampaignsUntouched, vars, dbVars, locals,
     rowHistory
<1> QED BY <1>1, <1>3, <1>4, <1>5 DEF Next

(* A row is queued once, and once more for each time that its mark failed  *)
(* or an answer set it back: no window, retry, failed start, restart or    *)
(* late answer adds to that, unless its campaign was started twice.        *)
THEOREM SentAgainForAReason == Spec => []SentAgainOnlyIfUnmarked
<1>1. Init => Holds /\ BeginsScheduled /\ RowsInv
  BY CampaignAssumption
  DEF Init, Holds, HoldsNone, HoldsItsOwn, HoldsMarked, BeginsScheduled,
      RowsInv, RowInv, Room
<1>2. /\ CampaignInv /\ QueueInv /\ Holds /\ BeginsScheduled /\ RowsInv
      /\ [Next]_vars
      => (Holds /\ BeginsScheduled /\ RowsInv)'
  BY StepKeepsHolds, StepKeepsBeginsScheduled, StepKeepsRows DEF CampaignInv
<1>3. RowsInv => SentAgainOnlyIfUnmarked
  BY DEF RowsInv, RowInv, SentAgainOnlyIfUnmarked
<1> QED BY <1>1, <1>2, <1>3, CampaignIsKept, CampaignsUseQueue, QueueIsKept, PTL
  DEF Spec
=============================================================================
