----------------------------- MODULE SmsCampaign ---------------------------
(***************************************************************************)
(* Campaigns: Main looks for a scheduled campaign, enters it in            *)
(* G_smsCampaignMap and starts a CampaignThread for it, which selects      *)
(* windows of scheduled rows, queues an SMS for each, marks the rows       *)
(* PICKED, and at last marks the campaign COMPLETED.                       *)
(*                                                                         *)
(* The database is the only memory: a row is marked after its SMS was      *)
(* queued, a campaign after Main has let go of its thread, each by a query *)
(* of its own that may fail.  The answers of the SMSC write the same       *)
(* rows, through the update queue (EXTENDS UpdateQueue).                   *)
(*                                                                         *)
(* Abstracted: what happens between sendQueue and the answer (SmsPipeline) *)
(* and which status an answer has (ReceiptMatch), except that a status of  *)
(* zero means SCHEDULED here; the gate in front of SendSms is a delay.  A  *)
(* thread slot is a pthread; slots are used again.                         *)
(***************************************************************************)
EXTENDS UpdateQueue, FiniteSets

CONSTANTS
  Campaigns,
  Rows,
  CampaignOf,                 \* [Rows -> Campaigns]: iCampaignId
  Threads,
  SMS_CAMPAIGN_WINDOW_SIZE, MAX_SMS_CAMPAIGN, MAX_CAMPAIN_ERROR,
  MaxFaults,    \* bound: everything that goes wrong, together (Faults)
  MaxAnswers    \* bound: SMS that are answered

ASSUME CampaignAssumption ==
  /\ Campaigns \subseteq Nat \ {0} /\ IsFiniteSet(Campaigns)
  /\ IsFiniteSet(Rows) /\ CampaignOf \in [Rows -> Campaigns]
  /\ IsFiniteSet(Threads)
  /\ SMS_CAMPAIGN_WINDOW_SIZE \in Nat \ {0} /\ MAX_SMS_CAMPAIGN \in Nat \ {0}
  /\ MAX_CAMPAIN_ERROR \in Nat
  /\ MaxFaults \in Nat /\ MaxAnswers \in Nat
  /\ Updates = [row : Rows, status : {"scheduled", "answered"}]

VARIABLES
  campaign, row,     \* iStatus in CampaignMaster and in the campaign's table
  mainPc,            \* Main: "boot", "select", "wait" or "sweep"
  campaignId,        \* the variable every CampaignThread is given the address of
  G_smsCampaignMap,  \* campaign -> [thStatus, thId]
  visit,             \* entries the loop over the map has not come to
  pc, id,            \* threads: where they are, the campaign they read
  window, submitted, \* rows selected and not queued; rows of submittedMsisdn
  campaign_error_cnt,
  pending,           \* [Rows -> Nat]: SMS of a row without an answer
  answers, failures, crashes,
  (* history *)
  sent,              \* [Rows -> Nat]: how often a row was queued
  unmarked, zeroed,  \* [Rows -> Nat]: marks that failed, zeros executed
  raced,             \* campaigns started while a thread had them or none yet
  gaveUp,            \* campaigns a thread stopped because of the database
  leftPicked         \* campaigns left PICKED by a process that ended or by a
                     \* thread whose last query failed

dbVars == <<campaign, row>>
mainVars == <<mainPc, campaignId, visit>>
locals == <<id, window, submitted, campaign_error_cnt>>
smscVars == <<pending, answers>>
rowHistory == <<sent, unmarked, zeroed>>
vars == <<queueVars, dbVars, mainVars, G_smsCampaignMap, pc, locals, smscVars,
          failures, crashes, rowHistory, raced, gaveUp, leftPicked>>

-----------------------------------------------------------------------------
Live(t) == pc[t] # "none"
Entered(c) == c \in DOMAIN G_smsCampaignMap

\* Bug: the entries before it are erased too.
BugErasedUpTo(c) ==
  [d \in {e \in DOMAIN G_smsCampaignMap : e > c} |-> G_smsCampaignMap[d]]

Erased(c) == [d \in DOMAIN G_smsCampaignMap \ {c} |-> G_smsCampaignMap[d]]

(* A slot is free when nobody will join it any more; which of the free     *)
(* ones is taken makes no difference.                                      *)
FreeSlots(c) ==
  {t \in Threads : /\ ~Live(t)
                   /\ \A d \in DOMAIN Erased(c) : Erased(c)[d].thId # t}
Free(t, c) == FreeSlots(c) # {} /\ t = CHOOSE u \in FreeSlots(c) : TRUE

(* A write to l_campaignItr->second.  When the entry was erased under the  *)
(* thread it goes to freed memory.                                         *)
SetStatus(c, status) ==
  G_smsCampaignMap' =
    IF Entered(c) THEN [G_smsCampaignMap EXCEPT ![c].thStatus = status]
    ELSE G_smsCampaignMap

(* What the loop's condition may find; anything in freed memory. *)
MayRun(t) == Entered(id[t]) => G_smsCampaignMap[id[t]].thStatus = "running"
MayStop(t) == Entered(id[t]) => G_smsCampaignMap[id[t]].thStatus # "running"

(* Failed queries, connections and pthread_create, and ends of either      *)
(* process; a campaign started under a thread counts for two.              *)
Faults == failures + crashes + badQueries + appEnds + 2 * Cardinality(raced)
OneMoreFault == Faults < MaxFaults
DatabaseFails == OneMoreFault /\ failures' = failures + 1

Init ==
  /\ QueueInit
  /\ campaign = [c \in Campaigns |-> "scheduled"]
  /\ row = [r \in Rows |-> "scheduled"]
  /\ mainPc = "boot" /\ campaignId = 0 /\ visit = {}
  /\ G_smsCampaignMap = [c \in {} |-> 0]
  /\ pc = [t \in Threads |-> "none"] /\ id = [t \in Threads |-> 0]
  /\ window = [t \in Threads |-> {}] /\ submitted = [t \in Threads |-> {}]
  /\ campaign_error_cnt = [t \in Threads |-> 0]
  /\ pending = [r \in Rows |-> 0] /\ answers = 0
  /\ failures = 0 /\ crashes = 0
  /\ sent = [r \in Rows |-> 0] /\ unmarked = [r \in Rows |-> 0]
  /\ zeroed = [r \in Rows |-> 0]
  /\ raced = {} /\ gaveUp = {} /\ leftPicked = {}

-----------------------------------------------------------------------------
(* Main. *)

MainFrame ==
  UNCHANGED <<dbVars, locals, smscVars, crashes, rowHistory, gaveUp, leftPicked>>

(* Every Esme object is constructed before the first campaign. *)
Boot ==
  /\ mainPc = "boot" /\ Open
  /\ IF mesi_mqState' = "failed" THEN DatabaseFails ELSE UNCHANGED failures
  /\ mainPc' = "select"
  /\ UNCHANGED <<campaignId, visit, G_smsCampaignMap, pc, raced>> /\ MainFrame

(* IsActiveCampaign returns c, if the map is not full. *)
CanFind(c) ==
  /\ Cardinality(DOMAIN G_smsCampaignMap) < MAX_SMS_CAMPAIGN
  /\ campaign[c] = "scheduled"
Found(c) == mainPc = "select" /\ CanFind(c)

\* Bug: the id of the new thread is not stored in the entry.
BugNoThId(c, t) ==
  [d \in DOMAIN G_smsCampaignMap \union {c} |->
     IF Entered(d) THEN G_smsCampaignMap[d]
     ELSE [thStatus |-> "req_run", thId |-> 0]]

(* The map's insert keeps an entry that is there, with its status. *)
Inserted(c, t) ==
  [d \in DOMAIN G_smsCampaignMap \union {c} |->
     IF d # c THEN G_smsCampaignMap[d]
     ELSE [thStatus |-> IF Entered(c) THEN G_smsCampaignMap[c].thStatus
                        ELSE "req_run",
           thId |-> t]]

(* The campaign is started again: another thread may still read campaignId *)
(* or has this campaign already.                                           *)
Racing(c) == \E u \in Threads : pc[u] = "begin" \/ (Live(u) /\ id[u] = c)
Race(c) ==
  IF Racing(c)
    THEN c \notin raced /\ Faults + 2 <= MaxFaults /\ raced' = raced \union {c}
    ELSE UNCHANGED raced

(* The map is written and a thread created, which will read campaignId.    *)
(* Between IsActiveCampaign and pthread_create nothing shared is read, so  *)
(* they are one step.                                                      *)
StartCampaign(c, t) ==
  /\ Found(c) /\ Free(t, c)
  /\ campaignId' = c
  /\ G_smsCampaignMap' = Inserted(c, t)
  /\ pc' = [pc EXCEPT ![t] = "begin"]
  /\ mainPc' = "wait"
  /\ Race(c)
  /\ UNCHANGED <<queueVars, visit, failures>> /\ MainFrame

(* pthread_create fails: the entry is erased, an older one as well. *)
CreateFails(c) ==
  /\ Found(c) /\ DatabaseFails
  /\ campaignId' = c
  /\ G_smsCampaignMap' = Erased(c)
  /\ Race(c)
  /\ UNCHANGED <<queueVars, mainPc, visit, pc>> /\ MainFrame

(* Main sees that the thread has set its status. *)
Started ==
  /\ mainPc = "wait" /\ G_smsCampaignMap[campaignId].thStatus # "req_run"
  /\ mainPc' = "select"
  /\ UNCHANGED <<queueVars, campaignId, visit, G_smsCampaignMap, pc, failures,
                 raced>>
  /\ MainFrame

(* The loop over the map goes on with the entries it has not come to. *)
SweepOn(entries) ==
  /\ visit' = entries
  /\ mainPc' = IF entries = {} THEN "select" ELSE "sweep"

(* IsActiveCampaign returns 0: there is none, the map is full, or a query  *)
(* fails.                                                                  *)
NoneFound ==
  /\ mainPc = "select"
  /\ \/ (\A c \in Campaigns : ~CanFind(c)) /\ UNCHANGED failures
     \/ DatabaseFails
  /\ campaignId' = 0
  /\ SweepOn(DOMAIN G_smsCampaignMap)
  /\ UNCHANGED <<queueVars, G_smsCampaignMap, pc, raced>> /\ MainFrame

Stopped(c) == G_smsCampaignMap[c].thStatus = "stop"

(* A stopped entry is erased once its thread has been joined; others stay. *)
Sweep(c) ==
  /\ mainPc = "sweep" /\ c \in visit /\ \A d \in visit : c <= d
  /\ SweepOn(visit \ {c})
  /\ \/ ~Stopped(c) /\ UNCHANGED G_smsCampaignMap
     \/ /\ Stopped(c) /\ ~Live(G_smsCampaignMap[c].thId)
        /\ G_smsCampaignMap' = Erased(c)
  /\ UNCHANGED <<queueVars, campaignId, pc, failures, raced>> /\ MainFrame

-----------------------------------------------------------------------------
(* CampaignThread on thread t. *)

ThreadFrame == UNCHANGED <<queueVars, mainVars, answers, crashes, zeroed, raced>>
Goto(t, label) == pc' = [pc EXCEPT ![t] = label]
ResetErrors(t) == campaign_error_cnt' = [campaign_error_cnt EXCEPT ![t] = 0]

(* The thread returns, and its locals are gone. *)
Return(t) ==
  /\ Goto(t, "none") /\ ResetErrors(t)
  /\ id' = [id EXCEPT ![t] = 0] /\ window' = [window EXCEPT ![t] = {}]
  /\ submitted' = [submitted EXCEPT ![t] = {}]

(* It reads campaignId through the pointer and looks for its entry. *)
Begin(t) ==
  /\ pc[t] = "begin"
  /\ SetStatus(campaignId, "running")
  /\ IF Entered(campaignId)
       THEN /\ id' = [id EXCEPT ![t] = campaignId] /\ Goto(t, "start")
            /\ UNCHANGED <<window, submitted, campaign_error_cnt>>
       ELSE Return(t)
  /\ UNCHANGED <<dbVars, pending, failures, sent, unmarked, gaveUp, leftPicked>>
  /\ ThreadFrame

(* No connection to an SMSC or to the database, or a query fails: the      *)
(* campaign stays SCHEDULED.                                               *)
StartFails(t) ==
  /\ pc[t] = "start" /\ DatabaseFails
  /\ SetStatus(id[t], "stop")
  /\ Return(t)
  /\ UNCHANGED <<dbVars, pending, sent, unmarked, gaveUp, leftPicked>>
  /\ ThreadFrame

(* "Update Campaign So that it will not pick again". *)
MarkCampaign(t) ==
  /\ pc[t] = "start"
  /\ campaign' = [campaign EXCEPT ![id[t]] = "picked"]
  /\ SetStatus(id[t], "running")
  /\ Goto(t, "loop")
  /\ UNCHANGED <<row, locals, pending, failures, sent, unmarked, gaveUp,
                 leftPicked>>
  /\ ThreadFrame

\* Bug: the rows of the windows before are asked for.
BugPickedRows(c) == {r \in Rows : CampaignOf[r] = c /\ row[r] = "picked"}

ScheduledRows(c) == {r \in Rows : CampaignOf[r] = c /\ row[r] = "scheduled"}
Windows(c) ==
  {w \in SUBSET ScheduledRows(c) :
     \/ Cardinality(w) = SMS_CAMPAIGN_WINDOW_SIZE
     \/ w = ScheduledRows(c) /\ Cardinality(w) < SMS_CAMPAIGN_WINDOW_SIZE}

(* The next window; without a row in it the campaign is done. *)
Select(t) ==
  /\ pc[t] = "loop" /\ MayRun(t)
  /\ \E w \in Windows(id[t]) :
       /\ window' = [window EXCEPT ![t] = w]
       /\ Goto(t, IF w = {} THEN "complete" ELSE "send")
  /\ ResetErrors(t)
  /\ UNCHANGED <<dbVars, G_smsCampaignMap, id, submitted, pending, failures,
                 sent, unmarked, gaveUp, leftPicked>>
  /\ ThreadFrame

\* Bug: after too many errors the thread returns at once.
BugGiveUpReturns(t) ==
  /\ campaign_error_cnt' = [campaign_error_cnt EXCEPT ![t] = @ + 1]
  /\ Goto(t, IF campaign_error_cnt[t] = MAX_CAMPAIN_ERROR THEN "none" ELSE "loop")
  /\ UNCHANGED gaveUp

(* A query of the loop failed; after too many in a row the thread gives up *)
(* and goes on to mark the campaign COMPLETED.                             *)
CountError(t) ==
  /\ campaign_error_cnt' = [campaign_error_cnt EXCEPT ![t] = @ + 1]
  /\ IF campaign_error_cnt[t] + 1 > MAX_CAMPAIN_ERROR
       THEN Goto(t, "complete") /\ gaveUp' = gaveUp \union {id[t]}
       ELSE Goto(t, "loop") /\ UNCHANGED gaveUp

SelectFails(t) ==
  /\ pc[t] = "loop" /\ MayRun(t) /\ DatabaseFails
  /\ CountError(t)
  /\ UNCHANGED <<dbVars, G_smsCampaignMap, id, window, submitted, pending, sent,
                 unmarked, leftPicked>>
  /\ ThreadFrame

(* mysql_store_result fails, which mcfn_GetResultSet does not notice: the  *)
(* window has no rows.                                                     *)
NullResult(t) ==
  /\ pc[t] = "loop" /\ MayRun(t) /\ DatabaseFails
  /\ Goto(t, "complete") /\ ResetErrors(t)
  /\ gaveUp' = gaveUp \union {id[t]}
  /\ UNCHANGED <<dbVars, G_smsCampaignMap, id, window, submitted, pending, sent,
                 unmarked, leftPicked>>
  /\ ThreadFrame

(* Another thread of this campaign has set its entry to STOP. *)
StopSeen(t) ==
  /\ pc[t] = "loop" /\ MayStop(t)
  /\ Goto(t, "complete")
  /\ UNCHANGED <<dbVars, G_smsCampaignMap, locals, pending, failures, sent,
                 unmarked, gaveUp, leftPicked>>
  /\ ThreadFrame

(* SendSms of a row of the window, on the first connection that takes it. *)
SendSms(t, r) ==
  /\ pc[t] = "send" /\ r \in window[t]
  /\ window' = [window EXCEPT ![t] = @ \ {r}]
  /\ submitted' = [submitted EXCEPT ![t] = @ \union {r}]
  /\ sent' = [sent EXCEPT ![r] = @ + 1]
  /\ pending' = [pending EXCEPT ![r] = @ + 1]
  /\ Goto(t, IF window[t] = {r} THEN "mark" ELSE "send")
  /\ UNCHANGED <<dbVars, G_smsCampaignMap, id, campaign_error_cnt, failures,
                 unmarked, gaveUp, leftPicked>>
  /\ ThreadFrame

\* Bug: the rows that are left of the window are marked.
BugMarkedLeft(t) == [r \in Rows |-> IF r \in window[t] THEN "picked" ELSE row[r]]

Marked(t) == [r \in Rows |-> IF r \in submitted[t] THEN "picked" ELSE row[r]]

(* The rows of the window are marked, whatever their status is by now. *)
MarkRows(t) ==
  /\ pc[t] = "mark"
  /\ row' = Marked(t)
  /\ submitted' = [submitted EXCEPT ![t] = {}]
  /\ ResetErrors(t)
  /\ Goto(t, "loop")
  /\ UNCHANGED <<campaign, G_smsCampaignMap, id, window, pending, failures, sent,
                 unmarked, gaveUp, leftPicked>>
  /\ ThreadFrame

MarkRowsFails(t) ==
  /\ pc[t] = "mark" /\ DatabaseFails
  /\ unmarked' =
       [r \in Rows |-> unmarked[r] + (IF r \in submitted[t] THEN 1 ELSE 0)]
  /\ submitted' = [submitted EXCEPT ![t] = {}]
  /\ CountError(t)
  /\ UNCHANGED <<dbVars, G_smsCampaignMap, id, window, pending, sent, leftPicked>>
  /\ ThreadFrame

(* The campaign is marked COMPLETED, or stays PICKED if that query fails.  *)
Complete(t) ==
  /\ pc[t] = "complete"
  /\ \/ /\ campaign' = [campaign EXCEPT ![id[t]] = "completed"]
        /\ UNCHANGED <<failures, leftPicked>>
     \/ /\ DatabaseFails
        /\ leftPicked' = leftPicked \union {id[t]}
        /\ UNCHANGED campaign
  /\ SetStatus(id[t], "stop")
  /\ Return(t)
  /\ UNCHANGED <<row, pending, sent, unmarked, gaveUp>>
  /\ ThreadFrame

-----------------------------------------------------------------------------
(* The rest of the world. *)

CampaignsUntouched ==
  UNCHANGED <<campaign, mainVars, G_smsCampaignMap, pc, locals, failures,
              crashes, sent, unmarked, raced, gaveUp, leftPicked>>

(* The SMS of a row is answered, and a worker writes the row's status to   *)
(* the update queue.                                                       *)
Answer(r, status) ==
  /\ pending[r] > 0 /\ answers < MaxAnswers
  /\ pending' = [pending EXCEPT ![r] = @ - 1]
  /\ answers' = answers + 1
  /\ Write([row |-> r, status |-> status]) \/ WriteRefused
  /\ UNCHANGED <<row, zeroed>> /\ CampaignsUntouched

(* DbInsertApp executes an update. *)
UpdateRow ==
  /\ Execute
  /\ row' = [row EXCEPT ![msg.row] = msg.status]
  /\ zeroed' = [zeroed EXCEPT ![msg.row] =
                  @ + (IF msg.status = "scheduled" THEN 1 ELSE 0)]
  /\ UNCHANGED smscVars /\ CampaignsUntouched

(* What else DbInsertApp does leaves the tables alone. *)
AppOther ==
  /\ AppStarts \/ Read \/ (OneMoreFault /\ (ExecuteFails \/ AppEnds))
  /\ UNCHANGED <<row, zeroed, smscVars>> /\ CampaignsUntouched

(* The ESME's process ends, by a crash or by SIGINT with campaigns running *)
(* (Main waits for none), and is started again.                            *)
ProcessEnds ==
  /\ mainPc # "boot" /\ OneMoreFault
  /\ crashes' = crashes + 1
  /\ HandleLost
  /\ mainPc' = "boot" /\ campaignId' = 0 /\ visit' = {}
  /\ G_smsCampaignMap' = [c \in {} |-> 0]
  /\ pc' = [t \in Threads |-> "none"] /\ id' = [t \in Threads |-> 0]
  /\ window' = [t \in Threads |-> {}] /\ submitted' = [t \in Threads |-> {}]
  /\ campaign_error_cnt' = [t \in Threads |-> 0]
  /\ pending' = [r \in Rows |-> 0]
  /\ leftPicked' = leftPicked \union {c \in Campaigns : campaign[c] = "picked"}
  /\ UNCHANGED <<dbVars, answers, failures, rowHistory, raced, gaveUp>>

Main ==
  \/ Boot \/ Started \/ NoneFound
  \/ \E c \in Campaigns :
       CreateFails(c) \/ Sweep(c) \/ \E t \in Threads : StartCampaign(c, t)

CampaignThread(t) ==
  \/ Begin(t) \/ StartFails(t) \/ MarkCampaign(t)
  \/ Select(t) \/ SelectFails(t) \/ NullResult(t) \/ StopSeen(t)
  \/ \E r \in Rows : SendSms(t, r)
  \/ MarkRows(t) \/ MarkRowsFails(t) \/ Complete(t)

Next ==
  \/ Main \/ \E t \in Threads : CampaignThread(t)
  \/ \E r \in Rows, status \in {"scheduled", "answered"} : Answer(r, status)
  \/ UpdateRow \/ AppOther \/ ProcessEnds

Spec == Init /\ [][Next]_vars

-----------------------------------------------------------------------------
(* PROPERTIES *)

TypeOK ==
  /\ QueueTypeOK
  /\ campaign \in [Campaigns -> {"scheduled", "picked", "completed"}]
  /\ row \in [Rows -> {"scheduled", "picked", "answered"}]
  /\ mainPc \in {"boot", "select", "wait", "sweep"}
  /\ campaignId \in Campaigns \union {0} /\ visit \subseteq DOMAIN G_smsCampaignMap
  /\ DOMAIN G_smsCampaignMap \subseteq Campaigns
  /\ \A c \in DOMAIN G_smsCampaignMap :
       G_smsCampaignMap[c] \in [thStatus : {"req_run", "running", "stop"},
                               thId : Threads]
  /\ pc \in [Threads -> {"none", "begin", "start", "loop", "send", "mark",
                         "complete"}]
  /\ id \in [Threads -> Campaigns \union {0}]
  /\ window \in [Threads -> SUBSET Rows] /\ submitted \in [Threads -> SUBSET Rows]
  /\ campaign_error_cnt \in [Threads -> Nat]
  /\ pending \in [Rows -> Nat]
  /\ answers \in Nat /\ failures \in Nat /\ crashes \in Nat
  /\ sent \in [Rows -> Nat] /\ unmarked \in [Rows -> Nat]
  /\ zeroed \in [Rows -> Nat]
  /\ raced \subseteq Campaigns /\ gaveUp \subseteq Campaigns
  /\ leftPicked \subseteq Campaigns

(* A campaign is COMPLETED only when every row of it has been queued,      *)
(* unless a thread gave up on the database or two threads shared the       *)
(* campaign's entry: the exceptions are what the code's "Once Done" (line  *)
(* 253) leaves out.                                                        *)
CompletedMeansDone ==
  \A r \in Rows :
    campaign[CampaignOf[r]] = "completed"
      /\ CampaignOf[r] \notin raced \union gaveUp => sent[r] > 0

(* A row is queued again only after the mark of an earlier window failed   *)
(* or an answer set it back to SCHEDULED, once for each time: windows,     *)
(* retries, failed starts and a restart of the process never repeat one.   *)
SentAgainOnlyIfUnmarked ==
  \A r \in Rows :
    CampaignOf[r] \notin raced => sent[r] <= 1 + unmarked[r] + zeroed[r]

(* The entry a thread writes its status to is in the map until the thread  *)
(* has returned, and names that thread, so that Main joins the right one.  *)
(* (Two threads of one campaign break it: the first to end has the entry   *)
(* erased under the other.)                                                *)
EntryOutlivesThread ==
  \A t \in Threads :
    Live(t) /\ pc[t] # "begin" /\ id[t] \notin raced =>
      Entered(id[t]) /\ G_smsCampaignMap[id[t]].thId = t

(* A campaign that is PICKED, which no query will find again, has a thread *)
(* that works on it: unless the process ended or the last query of a       *)
(* thread failed, which leave it PICKED for good.                          *)
PickedHasThread ==
  \A c \in Campaigns \ leftPicked :
    campaign[c] = "picked" => \E t \in Threads : Live(t) /\ id[t] = c
=============================================================================
