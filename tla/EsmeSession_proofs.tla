------------------------ MODULE EsmeSession_proofs -------------------------
(***************************************************************************)
(* Theorems about EsmeSession, for any number of workers, descriptors,     *)
(* lost connections, refusals and stops.                                   *)
(*                                                                         *)
(* m_esmeSocket and the set of open descriptors are changed by three       *)
(* threads without a lock, in CloseConnection and OpenConnection.  While   *)
(* no read has failed and no shutdown has begun, the reader and the main   *)
(* thread are not in CloseConnection, so the link thread alone opens and   *)
(* closes; what is then left to see is that it never opens a socket while  *)
(* it has one, and forgets the number only after it has closed it.         *)
(***************************************************************************)
EXTENDS EsmeSession, FiniteSetTheorems, SequenceTheorems, TLAPS

CloseLabels == {"close", "closeFd", "closeReset", "closeIdle"}
StopLabels == {"stop", "unbind", "unbindWrite", "stopWait", "stopEnd"}
LinkLabels == {"look", "start", "reopen", "connect", "bind", "bindWrite",
               "startWait", "probe", "sleep"} \union StopLabels
                                              \union CloseLabels
ReaderLabels == {"select", "read"} \union CloseLabels
MainLabels == {"run", "delete", "deleted"} \union StopLabels \union CloseLabels
WorkerLabels == {"idle", "process", "already"}
Labels == LinkLabels \union ReaderLabels \union MainLabels
            \union WorkerLabels \union {"write"}
Backs == {"none", "look", "startWait", "stopEnd", "select", "deleted"}

(* Every thread is in its own code, and a call returns to its caller.      *)
Places ==
  /\ pc \in [Threads -> Labels] /\ ret \in [Threads -> Backs]
  /\ pc["link"] \in LinkLabels
  /\ pc["link"] \in {"connect", "bind", "bindWrite"} =>
       ret["link"] \in {"look", "startWait"}
  /\ pc["link"] \in CloseLabels => ret["link"] \in {"look", "stopEnd"}
  /\ pc["reader"] \in ReaderLabels
  /\ pc["reader"] \in CloseLabels => ret["reader"] = "select"
  /\ pc["reader"] = "read" => rFd \in Fds
  /\ pc["main"] \in MainLabels
  /\ pc["main"] \in CloseLabels => ret["main"] \in {"stopEnd", "deleted"}
  /\ \A s \in Senders : pc[s] \in {"idle", "write"}
  /\ \A w \in Workers : /\ pc[w] \in WorkerLabels
                        /\ pc[w] # "idle" => pdu[w] \in Frames

(* While only the link thread may close, it is the one that has the        *)
(* socket: open or just closed.                                            *)
LinkAlone ==
  ~failedRead /\ pc["main"] = "run" =>
    /\ pc["reader"] \in {"select", "read"}
    /\ open \subseteq {m_esmeSocket}
    /\ pc["link"] = "closeReset" => open = {}
-----------------------------------------------------------------------------
(* Numbers: the lowest free descriptor is free. *)

LEMMA LeastElement ==
  ASSUME NEW S \in SUBSET Nat, S # {}
  PROVE  \E x \in S : \A y \in S : x <= y
<1> DEFINE T == {1 .. n : n \in S}
           R == StrictSubsetOrdering(Nat)
<1>1. T # {} /\ T \subseteq FiniteSubsetsOf(Nat)
  <2>1. \A n \in S : IsFiniteSet(1 .. n) /\ 1 .. n \subseteq Nat
    BY FS_Interval
  <2> QED BY <2>1 DEF FiniteSubsetsOf
<1>2. \E A \in T : \A B \in T : ~ (<<B, A>> \in R)
  BY <1>1, FS_StrictSubsetOrderingWellFounded, WFMin
<1>3. PICK x \in S : \A y \in S : ~ (<<1 .. y, 1 .. x>> \in R)
  BY <1>2
<1>4. ASSUME NEW y \in S, y < x
      PROVE  <<1 .. y, 1 .. x>> \in R
  BY <1>4 DEF StrictSubsetOrdering
<1> HIDE DEF R
<1>5. \A y \in S : ~ (y < x)
  BY <1>3, <1>4
<1>6. \A y \in S : y \in Int /\ x \in Int
  OBVIOUS
<1> QED BY <1>5, <1>6

LEMMA LowestFree ==
  ASSUME open \subseteq Fds, open # Fds
  PROVE  Min(Fds \ open) \in Fds \ open
<1>1. Fds \ open # {}
  OBVIOUS
<1>2. Fds \ open \in SUBSET Nat
  <2>1. \A fd \in Fds : fd \in Nat
    BY SessionAssumption DEF Fds
  <2> QED BY <2>1
<1>3. \E x \in Fds \ open : \A y \in Fds \ open : x <= y
  BY <1>1, <1>2, LeastElement
<1> QED BY <1>3 DEF Min

LEMMA OpenedIsTyped ==
  ASSUME TypeOK, OpenSocket
  PROVE  /\ m_esmeSocket' \in {NoFd} \union Fds
         /\ open' \subseteq Fds /\ open \subseteq open'
BY LowestFree DEF TypeOK, OpenSocket

-----------------------------------------------------------------------------
(* Types. *)

LEMMA ThreadsAreApart ==
  /\ {"link", "main", "reader"} \subseteq Threads
  /\ Workers \subseteq Threads /\ Senders \subseteq Threads
  /\ \A w \in Workers : w \notin {"link", "main", "reader"} \union Senders
  /\ \A s \in Senders : s \notin {"link", "main", "reader"}
BY SessionAssumption DEF Threads

LEMMA WriteIsTyped ==
  ASSUME TypeOK, NEW t, NEW request \in Seq({"bind", "unbind"}), NEW next,
         Write(t, request, next)
  PROVE  /\ m_esmeState' \in States
         /\ requests' \in [Fds -> Seq({"bind", "unbind"})]
<1>1. CASE Sent(request)
  <2>1. /\ m_esmeSocket \in Fds
        /\ requests[m_esmeSocket] \in Seq({"bind", "unbind"})
    BY <1>1 DEF Sent, Peer, TypeOK
  <2>2. requests[m_esmeSocket] \o request \in Seq({"bind", "unbind"})
    BY <2>1, ConcatProperties
  <2> QED BY <1>1, <2>1, <2>2 DEF Sent, TypeOK
<1>2. CASE Lost \/ WriteFailed
  BY <1>2 DEF Lost, WriteFailed, TypeOK, States
<1> QED BY <1>1, <1>2 DEF Write

LEMMA WriteKeepsTypes ==
  ASSUME TypeOK, NEW t, NEW request \in Seq({"bind", "unbind"}), NEW next,
         Write(t, request, next), rFd' = rFd,
         pdu' \in [Workers -> Frames \union {"none"}]
  PROVE  TypeOK'
BY WriteIsTyped DEF TypeOK, Write, countVars

LEMMA CloseKeepsTypes ==
  ASSUME TypeOK, NEW t, CloseConnection(t)
  PROVE  TypeOK'
<1>1. CASE CloseCheck(t)
  BY <1>1 DEF CloseCheck, TypeOK, sessionVars, netVars, localVars, countVars
<1>2. CASE CloseFd(t)
  <2>1. /\ open' = open \ {m_esmeSocket} /\ bound' = bound \ {m_esmeSocket}
        /\ peer' = [fd \in Fds |-> IF fd = m_esmeSocket THEN "none"
                                   ELSE peer[fd]]
        /\ requests' = [fd \in Fds |-> IF fd = m_esmeSocket THEN << >>
                                       ELSE requests[fd]]
        /\ inbox' = [fd \in Fds |-> IF fd = m_esmeSocket THEN << >>
                                    ELSE inbox[fd]]
        /\ stale' = (stale \/ AnswerUnderWay)
        /\ UNCHANGED <<sessionVars, receiveQueue, localVars, drops, refusals,
                       delivers, failedRead, undecoded>>
    BY <1>2 DEF CloseFd
  <2>2. << >> \in Seq({"bind", "unbind"}) /\ << >> \in Seq(Frames)
    BY EmptySeq
  <2>3. /\ requests' \in [Fds -> Seq({"bind", "unbind"})]
        /\ inbox' \in [Fds -> Seq(Frames)]
        /\ peer' \in [Fds -> {"none", "up", "fin", "rst"}]
        /\ \A fd \in Fds : peer'[fd] # "none" => fd \in open'
    BY <2>1, <2>2 DEF TypeOK
  <2>4. stale' \in BOOLEAN
    BY <2>1
  <2> QED BY <2>1, <2>3, <2>4 DEF TypeOK, sessionVars, localVars
<1>3. CASE CloseReset(t) \/ CloseIdle(t)
  BY <1>3 DEF CloseReset, CloseIdle, TypeOK, States, sessionVars, netVars,
     localVars, countVars
<1> QED BY <1>1, <1>2, <1>3 DEF CloseConnection

LEMMA StopKeepsTypes ==
  ASSUME TypeOK, NEW t, Stop(t)
  PROVE  TypeOK'
<1>1. CASE UnBindWrite(t)
  <2>1. <<"unbind">> \in Seq({"bind", "unbind"})
    OBVIOUS
  <2> QED BY <1>1, <2>1, WriteKeepsTypes DEF UnBindWrite, localVars, TypeOK
<1>2. CASE StopBegin(t) \/ UnBind(t) \/ StopWait(t) \/ StopEnd(t)
  BY <1>2 DEF StopBegin, UnBind, StopWait, StopEnd, TypeOK, States, netVars,
     sessionVars, localVars, countVars
<1> QED BY <1>1, <1>2 DEF Stop

LEMMA LinkKeepsTypes ==
  ASSUME TypeOK, LinkCheckThread
  PROVE  TypeOK'
<1> USE DEF sessionVars, netVars, localVars, countVars
<1>1. CASE StartBegin \/ Reopen
  BY <1>1, OpenedIsTyped DEF StartBegin, Reopen, TypeOK
<1>2. CASE NoDescriptor \/ Bind \/ StartWait \/ Look \/ Sleep
  BY <1>2 DEF NoDescriptor, Bind, StartWait, Look, Sleep, TypeOK, States
<1>3. CASE ConnectFails
  BY <1>3, SessionAssumption DEF ConnectFails, ConnectRefused, TypeOK, States
<1>4. CASE Connect
  BY <1>4 DEF Connect, TypeOK, States
<1>5. CASE BindWrite \/ Probe
  <2>1. /\ <<"bind">> \in Seq({"bind", "unbind"})
        /\ << >> \in Seq({"bind", "unbind"})
    BY EmptySeq
  <2>2. CASE UNCHANGED <<sessionVars, netVars, receiveQueue, localVars,
                         countVars>>
    BY <2>2 DEF TypeOK
  <2> QED BY <1>5, <2>1, <2>2, WriteKeepsTypes DEF BindWrite, Probe, TypeOK
<1> QED
  BY <1>1, <1>2, <1>3, <1>4, <1>5, StopKeepsTypes, CloseKeepsTypes
     DEF LinkCheckThread, Start
LEMMA QueueProperties ==
  ASSUME NEW S, NEW q \in Seq(S)
  PROVE  /\ q # << >> => Head(q) \in S /\ Tail(q) \in Seq(S)
         /\ \A x \in S : Append(q, x) \in Seq(S)
BY HeadTailProperties, AppendProperties

LEMMA ReaderKeepsTypes ==
  ASSUME TypeOK, Places, ThSmsReader
  PROVE  TypeOK'
<1> USE DEF sessionVars, netVars, countVars
<1>1. CASE Select \/ ReadSkip
  BY <1>1 DEF Select, ReadSkip, TypeOK
<1>2. CASE ReadFrame
  <2>1. rFd \in Fds /\ inbox[rFd] \in Seq(Frames) /\ inbox[rFd] # << >>
    BY <1>2 DEF ReadFrame, At, Places, TypeOK
  <2>2. /\ Head(inbox[rFd]) \in Frames /\ Tail(inbox[rFd]) \in Seq(Frames)
        /\ Append(receiveQueue, Head(inbox[rFd])) \in Seq(Frames)
    BY <2>1, QueueProperties DEF TypeOK
  <2> QED BY <1>2, <2>1, <2>2 DEF ReadFrame, TypeOK
<1>3. CASE ReadEnd \/ ReadError
  BY <1>3 DEF ReadEnd, ReadError, TypeOK, States
<1> QED BY <1>1, <1>2, <1>3, CloseKeepsTypes DEF ThSmsReader

LEMMA WorkerKeepsTypes ==
  ASSUME TypeOK, NEW w \in Workers, OnReceivePdu(w)
  PROVE  TypeOK'
<1> USE DEF sessionVars, netVars, countVars
<1>1. CASE TakePdu(w)
  <2>1. Head(receiveQueue) \in Frames /\ Tail(receiveQueue) \in Seq(Frames)
    BY <1>1, QueueProperties DEF TakePdu, TypeOK
  <2> QED BY <1>1, <2>1 DEF TakePdu, TypeOK
<1>2. CASE ProcessAnswer(w) \/ ProcessBare(w) \/ AlreadyBound(w)
  BY <1>2 DEF ProcessAnswer, ProcessBare, AlreadyBound, Done, TypeOK, States
<1>3. CASE ProcessDeliver(w)
  <2>1. << >> \in Seq({"bind", "unbind"})
    BY EmptySeq
  <2>2. pdu' \in [Workers -> Frames \union {"none"}]
    BY <1>3 DEF ProcessDeliver, TypeOK
  <2> QED BY <1>3, <2>1, <2>2, WriteKeepsTypes DEF ProcessDeliver
<1> QED BY <1>1, <1>2, <1>3 DEF OnReceivePdu

LEMMA SmscKeepsTypes ==
  ASSUME TypeOK, NEW fd \in Fds,
         SmscAnswer(fd) \/ SmscDeliver(fd) \/ ConnectionLost(fd)
  PROVE  TypeOK'
<1> USE DEF sessionVars, localVars
<1>1. CASE SmscAnswer(fd)
  <2>1. PICK answer \in IF Head(requests[fd]) = "bind" THEN BindAnswer(fd)
                        ELSE {"unbindOk"} :
          /\ inbox' = [inbox EXCEPT ![fd] = Append(@, answer)]
          /\ bound' = CASE answer = "bindOk" -> bound \union {fd}
                        [] answer = "unbindOk" -> bound \ {fd}
                        [] OTHER -> bound
          /\ refusals' = IF answer \in {"bindFail", "bindBare"}
                          THEN refusals + 1 ELSE refusals
    BY <1>1 DEF SmscAnswer
  <2>2. /\ answer \in Frames
        /\ answer \in {"bindFail", "bindBare"} => refusals < MaxRefusals
    BY <2>1 DEF BindAnswer, Frames
  <2>3. /\ requests[fd] \in Seq({"bind", "unbind"}) /\ requests[fd] # << >>
        /\ inbox[fd] \in Seq(Frames) /\ fd \in open
    BY <1>1 DEF SmscAnswer, TypeOK
  <2>4. /\ Tail(requests[fd]) \in Seq({"bind", "unbind"})
        /\ Append(inbox[fd], answer) \in Seq(Frames)
    BY <2>2, <2>3, QueueProperties
  <2>5. refusals' \in 0 .. MaxRefusals
    BY <2>1, <2>2, SessionAssumption DEF TypeOK
  <2>6. bound' \subseteq open
    BY <2>1, <2>3 DEF TypeOK
  <2>7. /\ requests' \in [Fds -> Seq({"bind", "unbind"})]
        /\ inbox' \in [Fds -> Seq(Frames)]
    BY <1>1, <2>1, <2>4 DEF SmscAnswer, TypeOK
  <2> QED BY <1>1, <2>5, <2>6, <2>7 DEF SmscAnswer, TypeOK
<1>2. CASE SmscDeliver(fd)
  <2>1. "deliver" \in Frames /\ inbox[fd] \in Seq(Frames)
    BY DEF Frames, TypeOK
  <2>2. Append(inbox[fd], "deliver") \in Seq(Frames)
    BY <2>1, QueueProperties
  <2>3. delivers' \in 0 .. MaxDelivers
    BY <1>2, SessionAssumption DEF SmscDeliver, TypeOK
  <2> QED BY <1>2, <2>2, <2>3 DEF SmscDeliver, TypeOK
<1>3. CASE ConnectionLost(fd)
  <2>1. << >> \in Seq({"bind", "unbind"}) /\ << >> \in Seq(Frames)
    BY EmptySeq
  <2>2. drops' \in 0 .. MaxDrops
    BY <1>3, SessionAssumption DEF ConnectionLost, TypeOK
  <2>3. fd \in open
    BY <1>3 DEF ConnectionLost, TypeOK
  <2>4. /\ peer' \in [Fds -> {"none", "up", "fin", "rst"}]
        /\ \A e \in Fds : peer'[e] # "none" => e \in open
        /\ inbox' \in [Fds -> Seq(Frames)]
        /\ requests' \in [Fds -> Seq({"bind", "unbind"})]
    BY <1>3, <2>1, <2>3, ZenonT(30) DEF ConnectionLost, TypeOK
  <2> QED BY <1>3, <2>2, <2>4 DEF ConnectionLost, TypeOK
<1> QED BY <1>1, <1>2, <1>3

LEMMA TypesAreKept ==
  ASSUME TypeOK, Places, [Next]_vars
  PROVE  TypeOK'
<1> USE DEF sessionVars, netVars, localVars, countVars
<1>1. CASE Main
  BY <1>1, StopKeepsTypes, CloseKeepsTypes DEF Main, Delete, TypeOK
<1>2. CASE Shutdown \/ \E s \in Senders : SendCheck(s)
  BY <1>2 DEF Shutdown, SendCheck, TypeOK
<1>3. ASSUME NEW s \in Senders, SendWrite(s)
      PROVE  TypeOK'
  <2>1. << >> \in Seq({"bind", "unbind"})
    BY EmptySeq
  <2> QED BY <1>3, <2>1, WriteKeepsTypes DEF SendWrite, TypeOK
<1>4. CASE UNCHANGED vars
  BY <1>4 DEF vars, TypeOK
<1> QED
  BY <1>1, <1>2, <1>3, <1>4, LinkKeepsTypes, ReaderKeepsTypes,
     WorkerKeepsTypes, SmscKeepsTypes DEF Next
-----------------------------------------------------------------------------
(* Places: a step moves one thread, to a label of that thread. *)

(* What is the same of every thread that does not move. *)
OneMoves(t) ==
  /\ pc' \in [Threads -> Labels] /\ ret' \in [Threads -> Backs]
  /\ \A u \in Threads \ {t} : pc'[u] = pc[u] /\ ret'[u] = ret[u]

LEMMA MovesOne ==
  ASSUME Places, NEW t \in Threads, NEW l \in Labels, NEW b \in Backs
  PROVE  /\ Goto(t, l) /\ UNCHANGED ret =>
              OneMoves(t) /\ pc'[t] = l /\ ret'[t] = ret[t]
         /\ Call(t, l, b) => OneMoves(t) /\ pc'[t] = l /\ ret'[t] = b
BY DEF Goto, Call, OneMoves, Places

LEMMA ReturnMovesOne ==
  ASSUME Places, NEW t \in Threads, Return(t), ret[t] \in Labels
  PROVE  OneMoves(t) /\ pc'[t] = ret[t] /\ ret'[t] = "none"
BY DEF Return, Goto, Call, OneMoves, Places, Backs

LEMMA LinkMoves ==
  ASSUME Places, OneMoves("link"), rFd' = rFd, pdu' = pdu,
         pc'["link"] \in LinkLabels,
         pc'["link"] \in {"connect", "bind", "bindWrite"} =>
           ret'["link"] \in {"look", "startWait"},
         pc'["link"] \in CloseLabels => ret'["link"] \in {"look", "stopEnd"}
  PROVE  Places'
BY ThreadsAreApart DEF Places, OneMoves

LEMMA MainMoves ==
  ASSUME Places, OneMoves("main"), rFd' = rFd, pdu' = pdu,
         pc'["main"] \in MainLabels,
         pc'["main"] \in CloseLabels => ret'["main"] \in {"stopEnd", "deleted"}
  PROVE  Places'
BY ThreadsAreApart DEF Places, OneMoves

LEMMA ReaderMoves ==
  ASSUME Places, OneMoves("reader"), pdu' = pdu,
         pc'["reader"] \in ReaderLabels,
         pc'["reader"] \in CloseLabels => ret'["reader"] = "select",
         pc'["reader"] = "read" => rFd' \in Fds
  PROVE  Places'
BY ThreadsAreApart DEF Places, OneMoves

LEMMA WorkerMoves ==
  ASSUME Places, NEW w \in Workers, OneMoves(w), rFd' = rFd,
         pc'[w] \in WorkerLabels, pc'[w] # "idle" => pdu'[w] \in Frames,
         \A v \in Workers \ {w} : pdu'[v] = pdu[v]
  PROVE  Places'
<1>1. \A v \in Workers : /\ pc'[v] \in WorkerLabels
                         /\ pc'[v] # "idle" => pdu'[v] \in Frames
  BY ThreadsAreApart DEF Places, OneMoves
<1> QED BY <1>1, ThreadsAreApart DEF Places, OneMoves

LEMMA ClosePlaces ==
  ASSUME Places, NEW t \in {"link", "main", "reader"}, CloseConnection(t)
  PROVE  Places'
<1>1. t \in Threads /\ rFd' = rFd /\ pdu' = pdu
  BY ThreadsAreApart DEF CloseConnection, CloseCheck, CloseFd, CloseReset,
     CloseIdle,
     localVars
<1>2. /\ pc[t] \in CloseLabels
      /\ t = "link" => ret[t] \in {"look", "stopEnd"}
      /\ t = "main" => ret[t] \in {"stopEnd", "deleted"}
      /\ t = "reader" => ret[t] = "select"
  BY DEF Places, CloseConnection, CloseCheck, CloseFd, CloseReset, CloseIdle,
     At,
     CloseLabels
<1>3. \/ Return(t)
      \/ Goto(t, "closeFd") /\ UNCHANGED ret
      \/ Goto(t, "closeReset") /\ UNCHANGED ret
      \/ Goto(t, "closeIdle") /\ UNCHANGED ret
  BY DEF CloseConnection, CloseCheck, CloseFd, CloseReset, CloseIdle
<1>4. /\ ret[t] \in Labels /\ ret[t] \in Backs
      /\ {"closeFd", "closeReset", "closeIdle"} \subseteq Labels
  BY <1>2 DEF Labels, LinkLabels, ReaderLabels, MainLabels, CloseLabels,
     StopLabels, Backs
<1>5. /\ OneMoves(t)
      /\ \/ pc'[t] = ret[t]
         \/ /\ pc'[t] \in {"closeFd", "closeReset", "closeIdle"}
            /\ ret'[t] = ret[t]
  BY <1>1, <1>3, <1>4, MovesOne, ReturnMovesOne
<1>6. CASE t = "link"
  BY <1>1, <1>2, <1>5, <1>6, LinkMoves DEF LinkLabels, CloseLabels, StopLabels
<1>7. CASE t = "main"
  BY <1>1, <1>2, <1>5, <1>7, MainMoves DEF MainLabels, CloseLabels, StopLabels
<1>8. CASE t = "reader"
  BY <1>1, <1>2, <1>5, <1>8, ReaderMoves DEF ReaderLabels, CloseLabels
<1> QED BY <1>6, <1>7, <1>8

LEMMA StopPlaces ==
  ASSUME Places, NEW t \in {"link", "main"}, Stop(t)
  PROVE  Places'
<1>1. t \in Threads /\ rFd' = rFd /\ pdu' = pdu
  BY ThreadsAreApart DEF Stop, StopBegin, UnBind, UnBindWrite, StopWait,
     StopEnd, localVars
<1>2. \/ /\ \E l \in {"unbind", "unbindWrite", "delete", "look"} :
              Goto(t, l) /\ UNCHANGED ret /\ (l = "delete" => t = "main")
                         /\ (l = "look" => t = "link")
      \/ Call(t, "stopWait", "none")
      \/ Call(t, "close", "stopEnd")
  BY DEF Stop, StopBegin, UnBind, UnBindWrite, Write, StopWait, StopEnd
<1>3. /\ {"unbind", "unbindWrite", "delete", "look", "stopWait", "close"}
           \subseteq Labels
      /\ {"none", "stopEnd"} \subseteq Backs
  BY DEF Labels, LinkLabels, MainLabels, StopLabels, CloseLabels, Backs
<1>4. /\ OneMoves(t)
      /\ \/ pc'[t] \in {"unbind", "unbindWrite", "stopWait"}
         \/ pc'[t] = "delete" /\ t = "main"
         \/ pc'[t] = "look" /\ t = "link"
         \/ pc'[t] = "close" /\ ret'[t] = "stopEnd"
  BY <1>1, <1>2, <1>3, MovesOne
<1>5. CASE t = "link"
  BY <1>1, <1>4, <1>5, LinkMoves DEF LinkLabels, CloseLabels, StopLabels
<1>6. CASE t = "main"
  BY <1>1, <1>4, <1>6, MainMoves DEF MainLabels, CloseLabels, StopLabels
<1> QED BY <1>5, <1>6

LEMMA LinkPlaces ==
  ASSUME Places, LinkCheckThread
  PROVE  Places'
<1>1. CASE Stop("link") \/ CloseConnection("link")
  BY <1>1, StopPlaces, ClosePlaces
<1>2. CASE Look \/ Probe \/ Sleep \/ Start
  <2>1. rFd' = rFd /\ pdu' = pdu
    BY <1>2 DEF Look, Probe, Sleep, Start, StartBegin, Reopen, NoDescriptor,
       ConnectFails, Connect, Bind, BindWrite, StartWait, localVars
  <2>2. \/ \E l \in {"look", "stop", "start", "probe", "reopen", "sleep"} :
             Goto("link", l) /\ UNCHANGED ret
        \/ \E l \in {"bind", "bindWrite"} :
             /\ Goto("link", l) /\ UNCHANGED ret
             /\ pc["link"] \in {"connect", "bind"}
        \/ \E l \in {"sleep", "look"} : Call("link", l, "none")
        \/ \E l \in {"connect", "bind"} :
             \/ Call("link", l, "look") \/ Call("link", l, "startWait")
        \/ Call("link", "close", "look")
        \/ pc["link"] \in {"connect", "bind"} /\ Return("link")
        \/ pc["link"] = "bindWrite" /\ Call("link", ret["link"], "none")
    BY <1>2 DEF Look, Probe, Sleep, Start, StartBegin, Reopen, NoDescriptor,
       ConnectFails, Connect, Bind, BindWrite, StartWait, Write, At
  <2>3. /\ {"look", "stop", "start", "probe", "reopen", "sleep", "bind",
            "bindWrite", "connect", "close", "startWait"} \subseteq Labels
        /\ {"look", "startWait", "none"} \subseteq Backs
        /\ "link" \in Threads
    BY ThreadsAreApart
       DEF Labels, LinkLabels, StopLabels, CloseLabels, Backs
  <2>4. pc["link"] \in {"connect", "bind", "bindWrite"} =>
          ret["link"] \in {"look", "startWait"}
    BY DEF Places
  <2>5. /\ OneMoves("link")
        /\ \/ pc'["link"] \in {"look", "stop", "start", "probe", "reopen",
                               "sleep", "startWait"}
           \/ /\ pc'["link"] \in {"connect", "bind", "bindWrite"}
              /\ ret'["link"] \in {"look", "startWait"}
           \/ pc'["link"] = "close" /\ ret'["link"] = "look"
    BY <2>2, <2>3, <2>4, MovesOne, ReturnMovesOne
  <2> QED
    BY <2>1, <2>5, LinkMoves DEF LinkLabels, CloseLabels, StopLabels
<1> QED BY <1>1, <1>2 DEF LinkCheckThread
LEMMA ReaderPlaces ==
  ASSUME TypeOK, Places, ThSmsReader
  PROVE  Places'
<1>1. CASE CloseConnection("reader")
  BY <1>1, ClosePlaces
<1>2. CASE Select \/ ReadSkip \/ ReadFrame \/ ReadEnd \/ ReadError
  <2>1. pdu' = pdu /\ (rFd' = NoFd \/ rFd' \in Fds)
    BY <1>2 DEF Select, ReadSkip, ReadFrame, ReadEnd, ReadError, TypeOK,
       localVars
  <2>2. \/ Goto("reader", "read") /\ UNCHANGED ret /\ rFd' \in Fds
        \/ Goto("reader", "select") /\ UNCHANGED ret
        \/ Call("reader", "close", "select")
    BY <1>2 DEF Select, ReadSkip, ReadFrame, ReadEnd, ReadError, TypeOK
  <2>3. {"read", "select", "close"} \subseteq Labels /\ "select" \in Backs
        /\ "reader" \in Threads
    BY ThreadsAreApart DEF Labels, ReaderLabels, CloseLabels, Backs
  <2>4. /\ OneMoves("reader")
        /\ \/ pc'["reader"] = "read" /\ rFd' \in Fds
           \/ pc'["reader"] = "select"
           \/ pc'["reader"] = "close" /\ ret'["reader"] = "select"
    BY <2>2, <2>3, MovesOne
  <2> QED BY <2>1, <2>4, ReaderMoves DEF ReaderLabels, CloseLabels
<1> QED BY <1>1, <1>2 DEF ThSmsReader

LEMMA WorkerPlaces ==
  ASSUME TypeOK, Places, NEW w \in Workers, OnReceivePdu(w)
  PROVE  Places'
<1>1. w \in Threads /\ {"idle", "process", "already"} \subseteq Labels
      /\ "none" \in Backs
  BY ThreadsAreApart DEF Labels, WorkerLabels, Backs
<1>2. rFd' = rFd /\ \A v \in Workers \ {w} : pdu'[v] = pdu[v]
  BY DEF OnReceivePdu, TakePdu, ProcessAnswer, ProcessBare, AlreadyBound,
     ProcessDeliver, Done, TypeOK
<1>3. \/ Goto(w, "idle") /\ UNCHANGED ret
      \/ Call(w, "idle", "none")
      \/ /\ \E l \in {"process", "already"} : Goto(w, l) /\ UNCHANGED ret
         /\ pdu'[w] \in Frames
  <2>1. CASE TakePdu(w)
    <3>1. Head(receiveQueue) \in Frames
      BY <2>1, QueueProperties DEF TakePdu, TypeOK
    <3> QED BY <2>1, <3>1 DEF TakePdu, TypeOK
  <2>2. CASE ProcessAnswer(w)
    <3>1. pdu[w] \in Frames
      BY <2>2 DEF ProcessAnswer, At, Places
    <3> QED BY <2>2, <3>1 DEF ProcessAnswer, Done
  <2>3. CASE ProcessBare(w) \/ AlreadyBound(w) \/ ProcessDeliver(w)
    BY <2>3 DEF ProcessBare, AlreadyBound, ProcessDeliver, Done, Write
  <2> QED BY <2>1, <2>2, <2>3 DEF OnReceivePdu
<1>4. /\ OneMoves(w)
      /\ \/ pc'[w] = "idle"
         \/ pc'[w] \in {"process", "already"} /\ pdu'[w] \in Frames
  BY <1>1, <1>3, MovesOne
<1> QED BY <1>2, <1>4, WorkerMoves DEF WorkerLabels

LEMMA MainPlaces ==
  ASSUME Places, Main \/ Shutdown
  PROVE  Places'
<1>1. CASE Stop("main") \/ CloseConnection("main")
  BY <1>1, StopPlaces, ClosePlaces
<1>2. CASE Delete \/ Shutdown
  <2>1. rFd' = rFd /\ pdu' = pdu
    BY <1>2 DEF Delete, Shutdown, localVars
  <2>2. {"stop", "close"} \subseteq Labels /\ "deleted" \in Backs
        /\ "main" \in Threads
    BY ThreadsAreApart DEF Labels, MainLabels, StopLabels, CloseLabels, Backs
  <2>3. \/ Goto("main", "stop") /\ UNCHANGED ret
        \/ Call("main", "close", "deleted")
    BY <1>2 DEF Delete, Shutdown
  <2>4. /\ OneMoves("main")
        /\ \/ pc'["main"] = "stop"
           \/ pc'["main"] = "close" /\ ret'["main"] = "deleted"
    BY <2>2, <2>3, MovesOne
  <2> QED BY <2>1, <2>4, MainMoves DEF MainLabels, StopLabels, CloseLabels
<1> QED BY <1>1, <1>2 DEF Main

LEMMA SenderPlaces ==
  ASSUME Places, NEW s \in Senders, SendCheck(s) \/ SendWrite(s)
  PROVE  Places'
<1>1. rFd' = rFd /\ pdu' = pdu
  BY DEF SendCheck, SendWrite, localVars
<1>2. {"idle", "write"} \subseteq Labels /\ "none" \in Backs
      /\ s \in Threads
  BY ThreadsAreApart DEF Labels, WorkerLabels, Backs
<1>3. \/ Goto(s, "write") /\ UNCHANGED ret
      \/ Call(s, "idle", "none")
  BY DEF SendCheck, SendWrite, Write
<1>4. OneMoves(s) /\ pc'[s] \in {"idle", "write"}
  BY <1>2, <1>3, MovesOne
<1> QED BY <1>1, <1>4, ThreadsAreApart DEF Places, OneMoves

LEMMA PlacesAreKept ==
  ASSUME TypeOK, Places, [Next]_vars
  PROVE  Places'
<1>1. CASE UNCHANGED vars
  BY <1>1 DEF vars, localVars, Places
<1>2. CASE \E fd \in Fds :
             SmscAnswer(fd) \/ SmscDeliver(fd) \/ ConnectionLost(fd)
  BY <1>2 DEF SmscAnswer, SmscDeliver, ConnectionLost, localVars, Places
<1> QED
  BY <1>1, <1>2, LinkPlaces, ReaderPlaces, WorkerPlaces, MainPlaces,
     SenderPlaces DEF Next

LEMMA TypesAtStart == Init => TypeOK /\ Places
<1>1. << >> \in Seq({"bind", "unbind"}) /\ << >> \in Seq(Frames)
  BY EmptySeq
<1>2. Init => TypeOK
  <2> SUFFICES ASSUME Init PROVE TypeOK
    OBVIOUS
  <2>1. /\ requests \in [Fds -> Seq({"bind", "unbind"})]
        /\ inbox \in [Fds -> Seq(Frames)] /\ receiveQueue \in Seq(Frames)
    BY <1>1 DEF Init
  <2>2. /\ drops \in 0 .. MaxDrops /\ refusals \in 0 .. MaxRefusals
        /\ delivers \in 0 .. MaxDelivers
    BY SessionAssumption DEF Init
  <2> QED BY <2>1, <2>2 DEF Init, TypeOK, States
<1>3. Init => Places
  <2> SUFFICES ASSUME Init PROVE Places
    OBVIOUS
  <2>1. /\ pc["link"] = "look" /\ pc["main"] = "run"
        /\ pc["reader"] = "select"
        /\ \A s \in Senders : pc[s] = "idle"
        /\ \A w \in Workers : pc[w] = "idle"
    BY ThreadsAreApart DEF Init
  <2>2. /\ pc = [t \in Threads |-> pc[t]]
        /\ \A t \in Threads : pc[t] \in {"look", "run", "select", "idle"}
    BY <2>1 DEF Init, Threads
  <2>3. {"look", "run", "select", "idle"} \subseteq Labels
    BY DEF Labels, LinkLabels, MainLabels, ReaderLabels, WorkerLabels
  <2>4. pc \in [Threads -> Labels]
    BY <2>2, <2>3
  <2>5. ret \in [Threads -> Backs]
    BY DEF Init, Backs
  <2> QED
    BY <2>1, <2>4, <2>5
       DEF Places, LinkLabels, MainLabels, ReaderLabels, WorkerLabels,
           CloseLabels
<1> QED BY <1>2, <1>3

(* The session's state is always well-formed: an open descriptor is a      *)
(* descriptor, a connection that is up or half closed has one, the SMSC    *)
(* holds only open ones bound, queues hold the frames that are read.       *)
THEOREM SessionIsTyped == Spec => []TypeOK
<1>1. Init => TypeOK /\ Places
  BY TypesAtStart
<1>2. TypeOK /\ Places /\ [Next]_vars => (TypeOK /\ Places)'
  BY TypesAreKept, PlacesAreKept
<1> QED BY <1>1, <1>2, PTL DEF Spec

-----------------------------------------------------------------------------
(* No socket is forgotten. *)

LEMMA LinkKeepsItsSocket ==
  ASSUME TypeOK, Places, LinkAlone, LinkCheckThread,
         ~failedRead', pc'["main"] = "run"
  PROVE  /\ open' \subseteq {m_esmeSocket'}
         /\ pc'["link"] = "closeReset" => open' = {}
<1>1. /\ open \subseteq {m_esmeSocket} /\ m_esmeSocket \in {NoFd} \union Fds
      /\ pc["link"] = "closeReset" => open = {}
      /\ open \subseteq Fds
  <2>1. failedRead' = failedRead
    BY DEF LinkCheckThread, Look, Probe, Sleep, Start, StartBegin, Reopen,
       NoDescriptor, ConnectFails, Connect, Bind, BindWrite, StartWait, Write,
       Stop, StopBegin, UnBind, UnBindWrite, StopWait, StopEnd,
       CloseConnection, CloseCheck, CloseFd, CloseReset, CloseIdle, countVars
  <2>2. pc'["main"] = pc["main"]
    BY ThreadsAreApart
       DEF LinkCheckThread, Look, Probe, Sleep, Start, StartBegin, Reopen,
       NoDescriptor, ConnectFails, Connect, Bind, BindWrite, StartWait, Write,
       Stop, StopBegin, UnBind, UnBindWrite, StopWait, StopEnd,
       CloseConnection, CloseCheck, CloseFd, CloseReset, CloseIdle, Return,
       Call, Goto,
       Places
  <2> QED BY <2>1, <2>2 DEF LinkAlone, TypeOK
<1>2. NoFd \notin Fds
  BY SessionAssumption DEF NoFd, Fds
<1>3. CASE CloseConnection("link")
  <2>1. CASE CloseFd("link")
    BY <1>1, <2>1 DEF CloseFd, sessionVars
  <2>2. CASE CloseReset("link") \/ CloseIdle("link")
    <3>1. pc'["link"] # "closeReset"
      BY <2>2, ThreadsAreApart
         DEF CloseReset, CloseIdle, Return, Call, Goto, At, Places, CloseLabels
    <3>2. CASE CloseReset("link")
      BY <1>1, <3>1, <3>2 DEF CloseReset, At, netVars
    <3> QED BY <1>1, <2>2, <3>1, <3>2 DEF CloseIdle, netVars
  <2>3. CASE CloseCheck("link")
    <3>1. pc'["link"] # "closeReset"
      BY <2>3, ThreadsAreApart
         DEF CloseCheck, Return, Call, Goto, At, Places, CloseLabels
    <3> QED BY <1>1, <2>3, <3>1 DEF CloseCheck, netVars, sessionVars
  <2> QED BY <1>3, <2>1, <2>2, <2>3 DEF CloseConnection
<1>4. CASE StartBegin \/ Reopen
  <2>1. open' \subseteq {m_esmeSocket'}
    BY <1>1, <1>2, <1>4 DEF StartBegin, Reopen, OpenSocket
  <2>2. pc'["link"] = "connect"
    BY <1>4, ThreadsAreApart DEF StartBegin, Reopen, Call, Goto, Places
  <2> QED BY <2>1, <2>2
<1>5. CASE Look \/ Probe \/ Sleep \/ Stop("link") \/ NoDescriptor
           \/ ConnectFails \/ Connect \/ Bind \/ BindWrite \/ StartWait
  <2>1. open' = open /\ m_esmeSocket' = m_esmeSocket
    BY <1>5 DEF Look, Probe, Sleep, NoDescriptor, ConnectFails, Connect,
       Bind, BindWrite, StartWait, Write, Stop, StopBegin, UnBind,
       UnBindWrite, StopWait, StopEnd, netVars, sessionVars
  <2>2. pc'["link"] # "closeReset"
    BY <1>5, ThreadsAreApart
       DEF Look, Probe, Sleep, NoDescriptor, ConnectFails, Connect,
       Bind, BindWrite, StartWait, Write, Stop, StopBegin, UnBind,
       UnBindWrite, StopWait, StopEnd, Return, Call, Goto, At, Places
  <2> QED BY <1>1, <2>1, <2>2
<1> QED BY <1>3, <1>4, <1>5 DEF LinkCheckThread, Start
LEMMA ReaderKeepsApart ==
  ASSUME TypeOK, Places, LinkAlone, ThSmsReader, ~failedRead',
         pc'["main"] = "run"
  PROVE  LinkAlone'
<1>1. pc["main"] = pc'["main"] /\ pc["link"] = pc'["link"]
  BY ThreadsAreApart
     DEF ThSmsReader, Select, ReadSkip, ReadFrame, ReadEnd, ReadError,
     CloseConnection, CloseCheck, CloseFd, CloseReset, CloseIdle, Return,
     Call, Goto,
     Places
<1>2. ~failedRead
  BY DEF ThSmsReader, Select, ReadSkip, ReadFrame, ReadEnd, ReadError,
     CloseConnection, CloseCheck, CloseFd, CloseReset, CloseIdle, countVars,
     TypeOK
<1>3. pc["reader"] \in {"select", "read"}
  BY <1>1, <1>2 DEF LinkAlone
<1>4. Select \/ ReadSkip \/ ReadFrame \/ ReadEnd
  BY <1>3 DEF ThSmsReader, ReadError, CloseConnection, CloseCheck, CloseFd,
     CloseReset, CloseIdle, At
<1>5. pc'["reader"] \in {"select", "read"}
  BY <1>4, ThreadsAreApart
     DEF Select, ReadSkip, ReadFrame, ReadEnd, Goto, Places
<1>6. UNCHANGED <<open, m_esmeSocket>>
  BY <1>4 DEF Select, ReadSkip, ReadFrame, ReadEnd, sessionVars, netVars
<1> QED BY <1>1, <1>2, <1>3, <1>5, <1>6 DEF LinkAlone

(* Nobody else moves the link or the reader thread, or opens or closes.    *)
LEMMA OthersKeepApart ==
  ASSUME Places, LinkAlone,
         UNCHANGED <<open, m_esmeSocket, failedRead>>,
         pc'["link"] = pc["link"], pc'["reader"] = pc["reader"],
         pc'["main"] = "run" => pc["main"] = "run"
  PROVE  LinkAlone'
BY DEF LinkAlone

LEMMA LinkAloneIsKept ==
  ASSUME TypeOK, Places, LinkAlone, [Next]_vars
  PROVE  LinkAlone'
<1> SUFFICES ASSUME ~failedRead', pc'["main"] = "run" PROVE LinkAlone'
  BY DEF LinkAlone
<1>1. CASE LinkCheckThread
  <2>1. pc'["reader"] = pc["reader"] /\ pc'["main"] = pc["main"]
    BY <1>1, ThreadsAreApart
       DEF LinkCheckThread, Look, Probe, Sleep, Start, StartBegin, Reopen,
       NoDescriptor, ConnectFails, Connect, Bind, BindWrite, StartWait, Write,
       Stop, StopBegin, UnBind, UnBindWrite, StopWait, StopEnd,
       CloseConnection, CloseCheck, CloseFd, CloseReset, CloseIdle, Return,
       Call, Goto,
       Places
  <2>2. failedRead' = failedRead
    BY <1>1 DEF LinkCheckThread, Look, Probe, Sleep, Start, StartBegin,
       Reopen, NoDescriptor, ConnectFails, Connect, Bind, BindWrite,
       StartWait, Write, Stop, StopBegin, UnBind, UnBindWrite, StopWait,
       StopEnd, CloseConnection, CloseCheck, CloseFd, CloseReset, CloseIdle,
       countVars
  <2> QED BY <1>1, <2>1, <2>2, LinkKeepsItsSocket DEF LinkAlone
<1>2. CASE ThSmsReader
  BY <1>2, ReaderKeepsApart
<1>3. CASE Main \/ Shutdown
  <2>1. CASE Shutdown \/ Stop("main") \/ Delete
    BY <2>1, ThreadsAreApart
       DEF Shutdown, Stop, StopBegin, UnBind, UnBindWrite, Write, StopWait,
       StopEnd, Delete, Call, Goto, Places
  <2>2. CASE CloseConnection("main")
    <3>1. ret["main"] \in {"stopEnd", "deleted"}
      BY <2>2 DEF CloseConnection, CloseCheck, CloseFd, CloseReset, CloseIdle,
         At,
         Places, CloseLabels
    <3> QED
      BY <2>2, <3>1, ThreadsAreApart
         DEF CloseConnection, CloseCheck, CloseFd, CloseReset, CloseIdle,
            Return,
         Call, Goto, Places
  <2> QED BY <1>3, <2>1, <2>2 DEF Main
<1>4. ASSUME NEW s \in Senders, SendCheck(s) \/ SendWrite(s)
      PROVE  LinkAlone'
  <2>1. /\ pc'["link"] = pc["link"] /\ pc'["reader"] = pc["reader"]
        /\ pc'["main"] = pc["main"]
    BY <1>4, ThreadsAreApart
       DEF SendCheck, SendWrite, Write, Call, Goto, Places
  <2>2. UNCHANGED <<open, m_esmeSocket, failedRead>>
    BY <1>4 DEF SendCheck, SendWrite, Write, sessionVars, netVars, countVars
  <2> QED BY <2>1, <2>2, OthersKeepApart
<1>5. ASSUME NEW w \in Workers, OnReceivePdu(w)
      PROVE  LinkAlone'
  <2>1. /\ pc'["link"] = pc["link"] /\ pc'["reader"] = pc["reader"]
        /\ pc'["main"] = pc["main"]
    BY <1>5, ThreadsAreApart
       DEF OnReceivePdu, TakePdu, ProcessAnswer, ProcessBare, AlreadyBound,
       ProcessDeliver, Done, Write, Call, Goto, Places
  <2>2. UNCHANGED <<open, m_esmeSocket, failedRead>>
    BY <1>5 DEF OnReceivePdu, TakePdu, ProcessAnswer, ProcessBare,
       AlreadyBound, ProcessDeliver, Write, sessionVars, netVars, countVars
  <2> QED BY <2>1, <2>2, OthersKeepApart
<1>6. ASSUME NEW fd \in Fds,
             SmscAnswer(fd) \/ SmscDeliver(fd) \/ ConnectionLost(fd)
      PROVE  LinkAlone'
  BY <1>6, OthersKeepApart
     DEF SmscAnswer, SmscDeliver, ConnectionLost, sessionVars
<1>7. CASE UNCHANGED vars
  BY <1>7, OthersKeepApart DEF vars, sessionVars, netVars, countVars
<1> QED BY <1>1, <1>2, <1>3, <1>4, <1>5, <1>6, <1>7 DEF Next

(* While no read has failed and no shutdown has begun, every open          *)
(* descriptor is m_esmeSocket: none is lost by a start, a bind that is     *)
(* refused, a stop of the link thread, whatever the SMSC closes meanwhile. *)
THEOREM SocketsAreKept == Spec => []NoForgottenSocket
<1>1. Init => TypeOK /\ Places
  BY TypesAtStart
<1>2. Init => LinkAlone
  BY ThreadsAreApart DEF Init, LinkAlone
<1>3. TypeOK /\ Places /\ LinkAlone /\ [Next]_vars
        => (TypeOK /\ Places /\ LinkAlone)'
  BY TypesAreKept, PlacesAreKept, LinkAloneIsKept
<1>4. LinkAlone => NoForgottenSocket
  BY DEF LinkAlone, NoForgottenSocket, At, Deleted
<1> QED BY <1>1, <1>2, <1>3, <1>4, PTL DEF Spec
=============================================================================
