---------------------------- MODULE EsmeSession ----------------------------
(***************************************************************************)
(* The connection of one Esme object.  m_esmeState and m_esmeSocket are    *)
(* read and written, without a lock, by                                    *)
(*   - the link thread, which starts, binds, probes and stops it;          *)
(*   - the reader thread, which reads its socket and may close it;         *)
(*   - the pool's workers, which process bind and unbind answers;          *)
(*   - every thread that writes a PDU: a failed write is ST_ERROR;         *)
(*   - the main thread, which stops and deletes the object at exit while   *)
(*     the others still run.                                               *)
(*                                                                         *)
(* Descriptors are small numbers and are reused, as by POSIX: the lowest   *)
(* free one is opened.  NoFd is -1.  Frames are whole (the framer is not   *)
(* modelled here), and PDUs that do not touch the session are left out,    *)
(* except deliver_sm, whose answer is written in any state.                *)
(***************************************************************************)
EXTENDS Naturals, Sequences, FiniteSets, FiniteSetsExt

CONSTANTS
  Workers,       \* pool threads that process PDUs
  Senders,       \* threads that submit
  MaxFd,         \* descriptors 1 .. MaxFd
  MaxDrops,      \* bound: connections the peer or the network closes
  MaxRefusals,   \* bound: refused connects and binds
  MaxDelivers,   \* bound: deliver_sm PDUs
  MaxStops       \* bound: 1 if the main thread may shut down, else 0

ASSUME SessionAssumption ==
  /\ MaxFd \in Nat \ {0}
  /\ MaxDrops \in Nat /\ MaxRefusals \in Nat /\ MaxDelivers \in Nat
  /\ MaxStops \in {0, 1}
  /\ Workers \cap Senders = {}
  /\ (Workers \union Senders) \cap {"link", "main", "reader"} = {}

NoFd == 0
Fds == 1 .. MaxFd
Threads == {"link", "main", "reader"} \union Workers \union Senders

States == {"ST_IDLE", "ST_CONNECTED", "ST_NOTCONNECTED", "ST_BIND_REQ",
           "ST_BIND", "ST_BIND_FAIL", "ST_UNBIND_REQ", "ST_UNBIND", "ST_ERROR"}

VARIABLES
  m_esmeState, m_esmeSocket, m_isSendSms,
  open,          \* descriptors the process has open
  peer,          \* [Fds -> "none" | "up" | "fin" | "rst"]: the TCP connection
  requests,      \* [Fds -> Seq]: session requests the SMSC has not answered
  inbox,         \* [Fds -> Seq]: frames that can be read
  bound,         \* descriptors whose connection the SMSC considers bound
  receiveQueue,  \* frames read; the pool processes them
  pc, ret,       \* threads; where CloseConnection or Write returns to
  rFd,           \* the descriptor select() was called with
  pdu,           \* [Workers -> frame]
  drops, refusals, delivers,   \* how often
  failedRead,    \* history: a read() failed
  stale,         \* history: a connection was closed before its bind or
                 \* unbind answers were processed
  undecoded      \* history: a bind answer was a bare header

sessionVars == <<m_esmeState, m_esmeSocket, m_isSendSms>>
netVars == <<open, peer, requests, inbox, bound>>
localVars == <<rFd, pdu>>
countVars == <<drops, refusals, delivers, failedRead, stale, undecoded>>
vars == <<sessionVars, netVars, receiveQueue, pc, ret, localVars, countVars>>

Frames == {"bindOk", "bindFail", "bindBare", "alreadyBound", "unbindOk",
           "deliver"}

Init ==
  /\ m_esmeState = "ST_IDLE" /\ m_esmeSocket = NoFd /\ m_isSendSms = TRUE
  /\ open = {} /\ peer = [fd \in Fds |-> "none"]
  /\ requests = [fd \in Fds |-> << >>] /\ inbox = [fd \in Fds |-> << >>]
  /\ bound = {} /\ receiveQueue = << >>
  /\ pc = [t \in Threads |-> CASE t = "link" -> "look" [] t = "main" -> "run"
                               [] t = "reader" -> "select" [] OTHER -> "idle"]
  /\ ret = [t \in Threads |-> "none"]
  /\ rFd = NoFd /\ pdu = [w \in Workers |-> "none"]
  /\ drops = 0 /\ refusals = 0 /\ delivers = 0
  /\ failedRead = FALSE /\ stale = FALSE /\ undecoded = FALSE

(* Once the main thread has deleted the object nothing more is said of it. *)
Deleted == pc["main"] = "deleted"
At(t, label) == pc[t] = label /\ ~Deleted
Goto(t, label) == pc' = [pc EXCEPT ![t] = label]
Call(t, label, back) == Goto(t, label) /\ ret' = [ret EXCEPT ![t] = back]
Return(t) == Call(t, ret[t], "none")

-----------------------------------------------------------------------------
(* Write: a request reaches the SMSC, is lost on a half-closed connection, *)
(* or fails and puts the object in ST_ERROR.                               *)

Peer == IF m_esmeSocket = NoFd THEN "none" ELSE peer[m_esmeSocket]

Sent(request) ==
  /\ Peer = "up"
  /\ requests' = [requests EXCEPT ![m_esmeSocket] = @ \o request]
  /\ UNCHANGED m_esmeState

Lost ==
  /\ Peer = "fin"
  /\ UNCHANGED <<requests, m_esmeState>>

WriteFailed ==
  /\ Peer # "up"
  /\ m_esmeState' = "ST_ERROR" /\ UNCHANGED requests

Write(t, request, next) ==
  /\ Sent(request) \/ Lost \/ WriteFailed
  /\ Call(t, next, "none")
  /\ UNCHANGED <<m_esmeSocket, m_isSendSms, open, peer, inbox, bound,
                 receiveQueue, countVars>>

-----------------------------------------------------------------------------
(* CloseConnection, on the link, main or reader thread.  The descriptor,   *)
(* m_esmeSocket and m_esmeState are given up one after the other: another  *)
(* thread may open and connect a socket in between.                        *)

CloseCheck(t) ==
  /\ At(t, "close")
  /\ IF \/ m_esmeState \in {"ST_IDLE", "ST_NOTCONNECTED"}
        \/ m_esmeSocket = NoFd
       THEN Return(t)
       ELSE Goto(t, "closeFd") /\ UNCHANGED ret
  /\ UNCHANGED <<sessionVars, netVars, receiveQueue, localVars, countVars>>

AnswerUnderWay ==
  \/ \E i \in DOMAIN receiveQueue : receiveQueue[i] # "deliver"
  \/ \E w \in Workers : pdu[w] \notin {"none", "deliver"}

CloseFd(t) ==
  /\ At(t, "closeFd")
  /\ open' = open \ {m_esmeSocket} /\ bound' = bound \ {m_esmeSocket}
  /\ peer' = [fd \in Fds |-> IF fd = m_esmeSocket THEN "none" ELSE peer[fd]]
  /\ requests' = [fd \in Fds |-> IF fd = m_esmeSocket THEN << >>
                                 ELSE requests[fd]]
  /\ inbox' = [fd \in Fds |-> IF fd = m_esmeSocket THEN << >> ELSE inbox[fd]]
  /\ Goto(t, "closeReset")
  /\ stale' = (stale \/ AnswerUnderWay)
  /\ UNCHANGED <<sessionVars, receiveQueue, ret, localVars, drops, refusals,
                 delivers, failedRead, undecoded>>

CloseReset(t) ==
  /\ At(t, "closeReset")
  /\ m_esmeSocket' = NoFd
  /\ Goto(t, "closeIdle")
  /\ UNCHANGED <<m_esmeState, m_isSendSms, netVars, receiveQueue, ret,
                 localVars, countVars>>

CloseIdle(t) ==
  /\ At(t, "closeIdle")
  /\ m_esmeState' = "ST_IDLE"
  /\ Return(t)
  /\ UNCHANGED <<m_esmeSocket, m_isSendSms, netVars, receiveQueue, localVars,
                 countVars>>

CloseConnection(t) ==
  CloseCheck(t) \/ CloseFd(t) \/ CloseReset(t) \/ CloseIdle(t)

-----------------------------------------------------------------------------
(* Stop, on the link thread (a connection in ST_ERROR) or the main thread. *)

StopBegin(t) ==
  /\ At(t, "stop")
  /\ m_isSendSms' = FALSE
  /\ IF m_esmeState = "ST_BIND" THEN Goto(t, "unbind") /\ UNCHANGED ret
                                ELSE Call(t, "close", "stopEnd")
  /\ UNCHANGED <<m_esmeState, m_esmeSocket, netVars, receiveQueue, localVars,
                 countVars>>

UnBind(t) ==
  /\ At(t, "unbind")
  /\ m_esmeState' = "ST_UNBIND_REQ"
  /\ Goto(t, "unbindWrite")
  /\ UNCHANGED <<m_esmeSocket, m_isSendSms, netVars, receiveQueue, ret,
                 localVars, countVars>>

UnBindWrite(t) == At(t, "unbindWrite") /\ Write(t, <<"unbind">>, "stopWait")
                  /\ UNCHANGED localVars

StopWait(t) ==
  /\ At(t, "stopWait") /\ m_esmeState # "ST_UNBIND_REQ"
  /\ Call(t, "close", "stopEnd")
  /\ UNCHANGED <<sessionVars, netVars, receiveQueue, localVars, countVars>>

(* The main thread then deletes the object. *)
StopEnd(t) ==
  /\ At(t, "stopEnd")
  /\ m_esmeState' = "ST_IDLE"
  /\ Goto(t, IF t = "main" THEN "delete" ELSE "look")
  /\ UNCHANGED <<m_esmeSocket, m_isSendSms, netVars, receiveQueue, ret,
                 localVars, countVars>>

Stop(t) ==
  \/ StopBegin(t)
  \/ UnBind(t) \/ UnBindWrite(t)
  \/ StopWait(t) \/ StopEnd(t)

-----------------------------------------------------------------------------
(* Start, OpenConnection and Bind, on the link thread.                     *)

\* Bug: the result of socket() is not tested.
BugNoFailureTest ==
  IF m_esmeSocket = NoFd
    THEN LET fd == IF open = Fds THEN MaxFd + 1 ELSE Min(Fds \ open) IN
         m_esmeSocket' = fd /\ open' = open \union {fd}
    ELSE UNCHANGED <<m_esmeSocket, open>>

\* Bug: a new socket every time, whether there is one already or not.
BugAlwaysOpens ==
  /\ open # Fds
  /\ m_esmeSocket' = Min(Fds \ open)
  /\ open' = open \union {Min(Fds \ open)}

(* OpenConnection keeps a socket it already has; only a new one is opened. *)
OpenSocket ==
  IF m_esmeSocket = NoFd
    THEN /\ open # Fds
         /\ m_esmeSocket' = Min(Fds \ open)
         /\ open' = open \union {Min(Fds \ open)}
    ELSE UNCHANGED <<m_esmeSocket, open>>

\* Bug: Start leaves sending paused after a Stop.
BugStartStaysPaused ==
  /\ At("link", "start") /\ OpenSocket
  /\ Call("link", "connect", "startWait")
  /\ UNCHANGED <<m_esmeState, m_isSendSms, peer, requests, inbox, bound,
                 receiveQueue, localVars, countVars>>

StartBegin ==
  /\ At("link", "start") /\ OpenSocket
  /\ m_isSendSms' = TRUE
  /\ Call("link", "connect", "startWait")
  /\ UNCHANGED <<m_esmeState, peer, requests, inbox, bound, receiveQueue,
                 localVars, countVars>>

Reopen ==
  /\ At("link", "reopen") /\ OpenSocket
  /\ Call("link", "connect", "look")
  /\ UNCHANGED <<m_esmeState, m_isSendSms, peer, requests, inbox, bound,
                 receiveQueue, localVars, countVars>>

(* socket() fails when no descriptor is free. *)
NoDescriptor ==
  /\ pc["link"] \in {"start", "reopen"}
  /\ m_esmeSocket = NoFd /\ open = Fds
  /\ m_isSendSms' = (m_isSendSms \/ At("link", "start"))
  /\ Goto("link", "look")
  /\ UNCHANGED <<m_esmeState, m_esmeSocket, netVars, receiveQueue, ret,
                 localVars, countVars>>

(* connect() may be refused, and fails on a socket that is gone or was     *)
(* connected before.                                                       *)
ConnectRefused ==
  \/ /\ m_esmeSocket \notin open \/ Peer # "none"
     /\ UNCHANGED refusals
  \/ /\ refusals < MaxRefusals
     /\ refusals' = refusals + 1

ConnectFails ==
  /\ At("link", "connect") /\ ConnectRefused
  /\ m_esmeState' = "ST_NOTCONNECTED"
  /\ Call("link", "look", "none")
  /\ UNCHANGED <<m_esmeSocket, m_isSendSms, netVars, receiveQueue, localVars,
                 drops, delivers, failedRead, stale, undecoded>>

Connect ==
  /\ At("link", "connect")
  /\ m_esmeSocket \in open /\ Peer = "none"
  /\ peer' = [peer EXCEPT ![m_esmeSocket] = "up"]
  /\ m_esmeState' = "ST_CONNECTED"
  /\ IF ret["link"] = "startWait" THEN Goto("link", "bind") /\ UNCHANGED ret
                                  ELSE Return("link")
  /\ UNCHANGED <<m_esmeSocket, m_isSendSms, open, requests, inbox, bound,
                 receiveQueue, localVars, countVars>>

Bind ==
  /\ At("link", "bind")
  /\ IF m_esmeState = "ST_BIND"
       THEN Return("link") /\ UNCHANGED m_esmeState
       ELSE /\ m_esmeState' = "ST_BIND_REQ"
            /\ Goto("link", "bindWrite") /\ UNCHANGED ret
  /\ UNCHANGED <<m_esmeSocket, m_isSendSms, netVars, receiveQueue, localVars,
                 countVars>>

BindWrite == At("link", "bindWrite") /\ Write("link", <<"bind">>, ret["link"])
             /\ UNCHANGED localVars

(* The wait ends in any state but ST_BIND_REQ; a refused bind is closed.  *)
StartWait ==
  /\ At("link", "startWait") /\ m_esmeState # "ST_BIND_REQ"
  /\ IF m_esmeState = "ST_BIND_FAIL" THEN Call("link", "close", "look")
                                     ELSE Goto("link", "look") /\ UNCHANGED ret
  /\ UNCHANGED <<sessionVars, netVars, receiveQueue, localVars, countVars>>

Start ==
  \/ StartBegin \/ Reopen \/ NoDescriptor \/ ConnectFails
  \/ Connect \/ Bind \/ BindWrite \/ StartWait

-----------------------------------------------------------------------------
(* The link thread's loop.                                                 *)

Look ==
  /\ At("link", "look")
  /\ \/ m_esmeState = "ST_ERROR" /\ Goto("link", "stop") /\ UNCHANGED ret
     \/ m_esmeState = "ST_IDLE" /\ Goto("link", "start") /\ UNCHANGED ret
     \/ m_esmeState = "ST_BIND" /\ Goto("link", "probe") /\ UNCHANGED ret
     \/ /\ m_esmeState \in {"ST_BIND_FAIL", "ST_CONNECTED"}
        /\ Call("link", "bind", "look")
     \/ /\ m_esmeState = "ST_NOTCONNECTED"
        /\ Goto("link", "reopen")
        /\ UNCHANGED ret
  /\ UNCHANGED <<sessionVars, netVars, receiveQueue, localVars, countVars>>

(* SendEnquireLink; the thread then sleeps, still holding its iterator of  *)
(* esmeInstanceMap.                                                        *)
Probe ==
  /\ At("link", "probe")
  /\ IF m_esmeState = "ST_BIND"
       THEN Write("link", << >>, "sleep")
       ELSE /\ Goto("link", "sleep")
            /\ UNCHANGED <<sessionVars, netVars, receiveQueue, ret, countVars>>
  /\ UNCHANGED localVars

Sleep ==
  /\ At("link", "sleep") /\ Goto("link", "look")
  /\ UNCHANGED <<sessionVars, netVars, receiveQueue, ret, localVars, countVars>>

LinkCheckThread ==
  Look \/ Probe \/ Sleep \/ Start \/ Stop("link")
  \/ CloseConnection("link")

-----------------------------------------------------------------------------
(* The reader thread.                                                      *)

Readable(fd) == inbox[fd] # << >> \/ peer[fd] \in {"fin", "rst"}

Select ==
  /\ At("reader", "select")
  /\ m_esmeSocket # NoFd /\ Readable(m_esmeSocket)
  /\ m_esmeState \notin {"ST_IDLE", "ST_ERROR", "ST_NOTCONNECTED"}
  /\ rFd' = m_esmeSocket
  /\ Goto("reader", "read")
  /\ UNCHANGED <<sessionVars, netVars, receiveQueue, ret, pdu, countVars>>

(* FD_ISSET on the present descriptor: after a restart it is another one.  *)
ReadSkip ==
  /\ At("reader", "read") /\ m_esmeSocket # rFd
  /\ Goto("reader", "select") /\ rFd' = NoFd
  /\ UNCHANGED <<sessionVars, netVars, receiveQueue, ret, pdu, countVars>>

(* Read: the frame is queued and OnReceivePdu is posted.  A reused         *)
(* descriptor without data blocks the thread.                              *)
ReadFrame ==
  /\ At("reader", "read") /\ m_esmeSocket = rFd /\ inbox[rFd] # << >>
  /\ receiveQueue' = Append(receiveQueue, Head(inbox[rFd]))
  /\ inbox' = [inbox EXCEPT ![rFd] = Tail(@)]
  /\ Goto("reader", "select") /\ rFd' = NoFd
  /\ UNCHANGED <<sessionVars, open, peer, requests, bound, ret, pdu, countVars>>

\* Bug: end of file is not an error.
BugEndIsNoError ==
  /\ At("reader", "read") /\ m_esmeSocket = rFd
  /\ inbox[rFd] = << >> /\ peer[rFd] = "fin"
  /\ Goto("reader", "select") /\ rFd' = NoFd
  /\ UNCHANGED <<sessionVars, netVars, receiveQueue, ret, pdu, countVars>>

ReadEnd ==
  /\ At("reader", "read") /\ m_esmeSocket = rFd
  /\ inbox[rFd] = << >> /\ peer[rFd] = "fin"
  /\ m_esmeState' = "ST_ERROR"
  /\ Goto("reader", "select") /\ rFd' = NoFd
  /\ UNCHANGED <<m_esmeSocket, m_isSendSms, netVars, receiveQueue, ret, pdu,
                 countVars>>

ReadError ==
  /\ At("reader", "read") /\ m_esmeSocket = rFd
  /\ peer[rFd] \in {"rst", "none"}
  /\ m_esmeState' = "ST_ERROR" /\ failedRead' = TRUE
  /\ Call("reader", "close", "select") /\ rFd' = NoFd
  /\ UNCHANGED <<m_esmeSocket, m_isSendSms, netVars, receiveQueue, pdu,
                 drops, refusals, delivers, stale, undecoded>>

ThSmsReader ==
  Select \/ ReadSkip \/ ReadFrame \/ ReadEnd \/ ReadError
  \/ CloseConnection("reader")

-----------------------------------------------------------------------------
(* OnReceivePdu on worker w, and the other writers.                        *)

TakePdu(w) ==
  /\ At(w, "idle") /\ receiveQueue # << >>
  /\ pdu' = [pdu EXCEPT ![w] = Head(receiveQueue)]
  /\ receiveQueue' = Tail(receiveQueue)
  /\ Goto(w, "process")
  /\ UNCHANGED <<sessionVars, netVars, ret, rFd, countVars>>

Done(w) == Goto(w, "idle") /\ pdu' = [pdu EXCEPT ![w] = "none"]

(* An answer sets the state, whichever connection it came from. *)
ProcessAnswer(w) ==
  /\ At(w, "process") /\ pdu[w] \notin {"deliver", "bindBare"}
  /\ m_esmeState' = CASE pdu[w] = "bindOk" -> "ST_BIND"
                      [] pdu[w] = "unbindOk" -> "ST_UNBIND"
                      [] OTHER -> "ST_BIND_FAIL"
  /\ IF pdu[w] = "alreadyBound" THEN Goto(w, "already") /\ UNCHANGED pdu
                               ELSE Done(w)
  /\ UNCHANGED <<m_esmeSocket, m_isSendSms, netVars, receiveQueue, ret,
                 rFd, countVars>>

(* A bare header has no system_id: the constructor throws, the packaged    *)
(* task keeps the exception, and the answer has no effect.                 *)
ProcessBare(w) ==
  /\ At(w, "process") /\ pdu[w] = "bindBare"
  /\ Done(w)
  /\ undecoded' = TRUE
  /\ UNCHANGED <<sessionVars, netVars, receiveQueue, ret, rFd, drops, refusals,
                 delivers, failedRead, stale>>

(* ESME_RALYBND: the failure just stored becomes a success. *)
AlreadyBound(w) ==
  /\ At(w, "already")
  /\ m_esmeState' = "ST_BIND"
  /\ Done(w)
  /\ UNCHANGED <<m_esmeSocket, m_isSendSms, netVars, receiveQueue, ret,
                 rFd, countVars>>

(* A deliver_sm is answered whatever the state. *)
ProcessDeliver(w) ==
  /\ At(w, "process") /\ pdu[w] = "deliver"
  /\ Write(w, << >>, "idle")
  /\ pdu' = [pdu EXCEPT ![w] = "none"] /\ UNCHANGED rFd

OnReceivePdu(w) ==
  \/ TakePdu(w) \/ ProcessAnswer(w) \/ ProcessBare(w) \/ AlreadyBound(w)
  \/ ProcessDeliver(w)

(* SendSubmitSm tests the state, and writes later. *)
SendCheck(s) ==
  /\ At(s, "idle") /\ m_esmeState = "ST_BIND"
  /\ Goto(s, "write")
  /\ UNCHANGED <<sessionVars, netVars, receiveQueue, ret, localVars, countVars>>

SendWrite(s) ==
  /\ At(s, "write")
  /\ Write(s, << >>, "idle")
  /\ UNCHANGED localVars

-----------------------------------------------------------------------------
(* The main thread at exit.                                                *)

Shutdown ==
  /\ At("main", "run") /\ MaxStops = 1 /\ Goto("main", "stop")
  /\ UNCHANGED <<sessionVars, netVars, receiveQueue, ret, localVars, countVars>>

(* delete: the destructor closes the connection. *)
Delete ==
  /\ At("main", "delete") /\ Call("main", "close", "deleted")
  /\ UNCHANGED <<sessionVars, netVars, receiveQueue, localVars, countVars>>

Main == Stop("main") \/ Delete \/ CloseConnection("main")

-----------------------------------------------------------------------------
(* The SMSC and the network (external).                                    *)

(* A refusal may come as a whole bind answer or as a bare header.          *)
BindAnswer(fd) ==
  IF fd \in bound THEN {"alreadyBound"}
  ELSE {"bindOk"} \union
         (IF refusals < MaxRefusals THEN {"bindFail", "bindBare"} ELSE {})

SmscAnswer(fd) ==
  /\ peer[fd] = "up" /\ requests[fd] # << >>
  /\ requests' = [requests EXCEPT ![fd] = Tail(@)]
  /\ \E answer \in IF Head(requests[fd]) = "bind" THEN BindAnswer(fd)
                   ELSE {"unbindOk"} :
       /\ inbox' = [inbox EXCEPT ![fd] = Append(@, answer)]
       /\ bound' = CASE answer = "bindOk" -> bound \union {fd}
                     [] answer = "unbindOk" -> bound \ {fd}
                     [] OTHER -> bound
       /\ refusals' = IF answer \in {"bindFail", "bindBare"}
                       THEN refusals + 1 ELSE refusals
  /\ UNCHANGED <<sessionVars, open, peer, receiveQueue, pc, ret, localVars,
                 drops, delivers, failedRead, stale, undecoded>>

SmscDeliver(fd) ==
  /\ peer[fd] = "up" /\ fd \in bound /\ delivers < MaxDelivers
  /\ delivers' = delivers + 1
  /\ inbox' = [inbox EXCEPT ![fd] = Append(@, "deliver")]
  /\ UNCHANGED <<sessionVars, open, peer, requests, bound, receiveQueue, pc,
                 ret, localVars, drops, refusals, failedRead, stale, undecoded>>

(* Closed in order, unread frames can still be read; reset, they are gone. *)
ConnectionLost(fd) ==
  /\ peer[fd] = "up" /\ drops < MaxDrops
  /\ drops' = drops + 1
  /\ requests' = [requests EXCEPT ![fd] = << >>] /\ bound' = bound \ {fd}
  /\ \/ peer' = [peer EXCEPT ![fd] = "fin"] /\ UNCHANGED inbox
     \/ /\ peer' = [peer EXCEPT ![fd] = "rst"]
        /\ inbox' = [inbox EXCEPT ![fd] = << >>]
  /\ UNCHANGED <<sessionVars, open, receiveQueue, pc, ret, localVars, refusals,
                 delivers, failedRead, stale, undecoded>>

-----------------------------------------------------------------------------
(* Start waits for an answer that came as a bare header: until the         *)
(* connection is lost nothing may happen any more.                         *)
StuckInStart == undecoded /\ m_esmeState = "ST_BIND_REQ"

Next ==
  \/ LinkCheckThread \/ ThSmsReader \/ Main \/ Shutdown
  \/ \E s \in Senders : SendCheck(s) \/ SendWrite(s)
  \/ \E w \in Workers : OnReceivePdu(w)
  \/ \E fd \in Fds : SmscAnswer(fd) \/ SmscDeliver(fd) \/ ConnectionLost(fd)
  \/ (Deleted \/ StuckInStart) /\ UNCHANGED vars

Spec == Init /\ [][Next]_vars

(* Threads run, and the SMSC answers on a connection that stays up.        *)
Fairness ==
  /\ WF_vars(LinkCheckThread) /\ WF_vars(ThSmsReader)
  /\ WF_vars(Main) /\ \A s \in Senders : WF_vars(SendWrite(s))
  /\ \A w \in Workers : WF_vars(OnReceivePdu(w))
  /\ \A fd \in Fds : WF_vars(SmscAnswer(fd))

FairSpec == Spec /\ Fairness

-----------------------------------------------------------------------------
(* PROPERTIES *)

TypeOK ==
  /\ m_esmeState \in States /\ m_esmeSocket \in {NoFd} \union Fds
  /\ m_isSendSms \in BOOLEAN
  /\ open \subseteq Fds /\ bound \subseteq open
  /\ peer \in [Fds -> {"none", "up", "fin", "rst"}]
  /\ \A fd \in Fds : peer[fd] # "none" => fd \in open
  /\ requests \in [Fds -> Seq({"bind", "unbind"})]
  /\ inbox \in [Fds -> Seq(Frames)] /\ receiveQueue \in Seq(Frames)
  /\ rFd \in {NoFd} \union Fds /\ pdu \in [Workers -> Frames \union {"none"}]
  /\ drops \in 0 .. MaxDrops /\ refusals \in 0 .. MaxRefusals
  /\ delivers \in 0 .. MaxDelivers
  /\ failedRead \in BOOLEAN /\ stale \in BOOLEAN /\ undecoded \in BOOLEAN

(* No connection is forgotten while it is open: every open descriptor is   *)
(* m_esmeSocket.  It takes a read that fails, or a shutdown, for a second  *)
(* thread to run CloseConnection, and to lose a socket the link thread has *)
(* just opened.                                                            *)
NoForgottenSocket ==
  ~failedRead /\ At("main", "run") => open \subseteq {m_esmeSocket}

(* The ST_IDLE of a reader whose read failed came after the link thread    *)
(* had connected again: Start connects the connected socket (EISCONN), and *)
(* in ST_NOTCONNECTED so does every later round; nobody reads the socket.  *)
ConnectsAgain ==
  /\ failedRead /\ m_esmeState = "ST_NOTCONNECTED" /\ Peer # "none"

(* After the last lost connection and the last refusal the object ends up  *)
(* bound and sending, and stays so, until it is stopped.  Two other ends   *)
(* are named: it waits for ever in Start for the answer to a bind that was *)
(* refused by a bare header, which has no effect; or it connects again for *)
(* ever, after a read that failed.  (A stale answer is another matter.)    *)
Serving ==
  /\ m_esmeState = "ST_BIND" /\ m_isSendSms
  /\ m_esmeSocket \in bound
ComesBack ==
  \/ <>[]Serving \/ <>[]StuckInStart \/ <>[]ConnectsAgain
  \/ <>stale \/ <>(~At("main", "run"))

(* "Already Binded" (Bind, on ST_BIND): the object does not go on for ever *)
(* taking a connection for bound that is not.                              *)
BoundIsBound == []<>(m_esmeState = "ST_BIND" => m_esmeSocket \in bound)

(* A lost connection is noticed: its descriptor is given up, unless the    *)
(* object connects again for ever.                                         *)
HasLost(fd) == m_esmeSocket = fd /\ peer[fd] \in {"fin", "rst"}
LossIsNoticed ==
  \A fd \in Fds :
    HasLost(fd) ~> ~HasLost(fd) \/ Deleted \/ []ConnectsAgain

(* Stop returns on the main thread, whatever the other threads do. *)
StopReturns == At("main", "stop") ~> Deleted
=============================================================================
