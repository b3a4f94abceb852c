------------------------------- MODULE Framer ------------------------------
(***************************************************************************)
(* How Esme::Read cuts the octets of the connection into PDUs.  read()     *)
(* returns any number of the octets that have arrived; they are appended   *)
(* to m_readNetBuffer, and as long as the buffer starts with a whole PDU,  *)
(* by the command_length in its first four octets, that PDU is moved to    *)
(* receiveQueue and a task posted for it.                                  *)
(*                                                                         *)
(* Two things make this fragile.  command_length is read whether or not    *)
(* four octets are there: the missing ones are whatever follows the buffer *)
(* on the heap (Junk).  And nothing empties the buffer when a connection   *)
(* is lost, so what is left of the old stream is the beginning of the new. *)
(***************************************************************************)
EXTENDS Integers, Sequences, FiniteSets

CONSTANTS
  Frames,       \* PDUs the SMSC may send, as sequences of octets
  Junk,         \* values of the octets behind the buffer
  MaxRead,      \* MAX_READ_BUFFER_LENGTH
  MaxFrames,    \* bound: PDUs the SMSC sends
  MaxLosses     \* bound: connections that end

Octet == 0 .. 255
MIN_PDU_LENGTH == 16

(* Smpp::get_command_length: the first four octets, highest first. *)
get_command_length(b) ==
  ((b[1] * 256 + b[2]) * 256 + b[3]) * 256 + b[4]

(* A PDU of the SMSC tells its own length. *)
ASSUME FramerAssumption ==
  /\ \A f \in Frames : /\ f \in Seq(Octet) /\ Len(f) >= MIN_PDU_LENGTH
                       /\ get_command_length(f) = Len(f)
  /\ Junk \subseteq Octet /\ Junk # {}
  /\ MaxRead \in Nat \ {0} /\ MaxFrames \in Nat /\ MaxLosses \in Nat

VARIABLES
  wire,             \* octets the SMSC sent on this connection, unread
  peer,             \* "up", or "ended" by the SMSC or the network
  m_esmeState,      \* "up" or "error"
  m_readNetBuffer,
  requireBytes,     \* local of Read
  pc,               \* where the reader is: "select", "split" or "post"
  receiveQueue,     \* PDUs waiting for OnReceivePdu
  tasks,            \* tasks posted and not begun
  frames, losses,   \* how many were sent, how many connections ended
  (* history *)
  taken,            \* every octet read so far, on all connections
  cuts,             \* how many of them were cut off when a PDU was pushed
  base,             \* Len(taken) when this connection was opened
  ends,             \* where, counting from base, its PDUs end
  aligned           \* the buffer starts where a PDU starts

connVars == <<wire, peer, m_esmeState>>
boundVars == <<frames, losses>>
streamVars == <<taken, base, ends>>
vars == <<connVars, m_readNetBuffer, requireBytes, pc, receiveQueue, tasks,
          boundVars, streamVars, cuts, aligned>>

-----------------------------------------------------------------------------
(* NetBuffer: the octets between begin and end are removed, if they are    *)
(* all there.                                                              *)
Erase(b, begin, end) ==
  IF begin < end /\ Len(b) > begin /\ Len(b) >= end
    THEN SubSeq(b, 1, begin) \o SubSeq(b, end + 1, Len(b))
    ELSE b

(* What get_command_length finds at the start of the buffer when the heap  *)
(* behind it holds g.                                                      *)
LengthField(b, g) ==
  get_command_length([i \in 1 .. 4 |-> IF i <= Len(b) THEN b[i] ELSE g[i]])

Whole(n, b) == n > 0 /\ n <= Len(b)

(* How many octets have left the buffer with a PDU. *)
Cut == IF cuts = << >> THEN 0 ELSE cuts[Len(cuts)]

Init ==
  /\ wire = << >> /\ peer = "up" /\ m_esmeState = "up"
  /\ m_readNetBuffer = << >> /\ requireBytes = 0 /\ pc = "select"
  /\ receiveQueue = << >> /\ tasks = 0
  /\ frames = 0 /\ losses = 0
  /\ taken = << >> /\ cuts = << >> /\ base = 0 /\ ends = {} /\ aligned = TRUE

-----------------------------------------------------------------------------
(* The SMSC and the network (external). *)

SmscSend(f) ==
  /\ peer = "up" /\ frames < MaxFrames
  /\ wire' = wire \o f
  /\ frames' = frames + 1
  /\ ends' = ends \union {Len(taken) + Len(wire) + Len(f)}
  /\ UNCHANGED <<peer, m_esmeState, m_readNetBuffer, requireBytes, pc,
                 receiveQueue, tasks, losses, taken, base, cuts, aligned>>

(* The connection ends, in the middle of a PDU if it so happens. *)
ConnectionEnds ==
  /\ peer = "up" /\ losses < MaxLosses
  /\ peer' = "ended" /\ losses' = losses + 1
  /\ \E n \in 0 .. Len(wire) : wire' = SubSeq(wire, 1, n)
  /\ UNCHANGED <<m_esmeState, m_readNetBuffer, requireBytes, pc,
                 receiveQueue, tasks, frames, streamVars, cuts, aligned>>

-----------------------------------------------------------------------------
(* Esme::Read, called by ThSmsReader for a readable socket of an object    *)
(* that is not in ST_ERROR.                                                *)

Readable == pc = "select" /\ m_esmeState = "up"

(* An octet behind the buffer was taken for part of a length, and the      *)
(* length fits: a PDU that nobody sent will be cut off.                    *)
Misread(b, n) == Len(b) < 4 /\ Whole(n, b)

(* n octets are read and appended. *)
Receive(n, g) ==
  /\ Readable
  /\ taken' = taken \o SubSeq(wire, 1, n)
  /\ wire' = SubSeq(wire, n + 1, Len(wire))
  /\ m_readNetBuffer' = m_readNetBuffer \o SubSeq(wire, 1, n)
  /\ requireBytes' = LengthField(m_readNetBuffer', g)
  /\ aligned' = (aligned /\ ~Misread(m_readNetBuffer', requireBytes'))
  /\ pc' = "split"
  /\ UNCHANGED <<peer, m_esmeState, receiveQueue, tasks, boundVars, base,
                 ends, cuts>>

(* read() returns 0 or -1; in both cases the link thread will reconnect. *)
ReadEnds ==
  /\ Readable /\ peer = "ended"
  /\ m_esmeState' = "error"
  /\ UNCHANGED <<wire, peer, m_readNetBuffer, requireBytes, pc, receiveQueue,
                 tasks, boundVars, streamVars, cuts, aligned>>

\* Bug: one octet of the next PDU is erased with this one.
BugEraseOneMore ==
  /\ pc = "split" /\ Whole(requireBytes, m_readNetBuffer)
  /\ receiveQueue' = Append(receiveQueue,
                            SubSeq(m_readNetBuffer, 1, requireBytes))
  /\ m_readNetBuffer' = Erase(m_readNetBuffer, 0, requireBytes + 1)
  /\ cuts' = Append(cuts, Cut + requireBytes)
  /\ pc' = "post"
  /\ UNCHANGED <<connVars, requireBytes, tasks, boundVars, streamVars, aligned>>

(* A whole PDU is copied out, erased and pushed ... *)
Split ==
  /\ pc = "split" /\ Whole(requireBytes, m_readNetBuffer)
  /\ receiveQueue' = Append(receiveQueue,
                            SubSeq(m_readNetBuffer, 1, requireBytes))
  /\ m_readNetBuffer' = Erase(m_readNetBuffer, 0, requireBytes)
  /\ cuts' = Append(cuts, Cut + requireBytes)
  /\ pc' = "post"
  /\ UNCHANGED <<connVars, requireBytes, tasks, boundVars, streamVars, aligned>>

\* Bug: one PDU per read.
BugOnePerRead(g) ==
  /\ pc = "post"
  /\ tasks' = tasks + 1
  /\ requireBytes' = 0
  /\ UNCHANGED aligned
  /\ pc' = "split"
  /\ UNCHANGED <<connVars, m_readNetBuffer, receiveQueue, boundVars,
                 streamVars, cuts>>

(* ... a task is posted for it, and the rest of the buffer looked at. *)
Post(g) ==
  /\ pc = "post"
  /\ tasks' = tasks + 1
  /\ requireBytes' = IF m_readNetBuffer = << >> THEN 0
                     ELSE LengthField(m_readNetBuffer, g)
  /\ aligned' = (aligned /\ ~Misread(m_readNetBuffer, requireBytes'))
  /\ pc' = "split"
  /\ UNCHANGED <<connVars, m_readNetBuffer, receiveQueue, boundVars,
                 streamVars, cuts>>

(* No whole PDU is left. *)
ReadReturns ==
  /\ pc = "split" /\ ~Whole(requireBytes, m_readNetBuffer)
  /\ pc' = "select"
  /\ UNCHANGED <<connVars, m_readNetBuffer, requireBytes, receiveQueue, tasks,
                 boundVars, streamVars, cuts, aligned>>

-----------------------------------------------------------------------------
(* Other threads. *)

(* A failed write sets ST_ERROR while the reader may be anywhere. *)
WriteFails ==
  /\ peer = "ended" /\ m_esmeState = "up"
  /\ m_esmeState' = "error"
  /\ UNCHANGED <<wire, peer, m_readNetBuffer, requireBytes, pc, receiveQueue,
                 tasks, boundVars, streamVars, cuts, aligned>>

\* Bug: a reconnection taken for a fresh object: the queued PDUs are dropped.
BugQueueCleared ==
  /\ m_esmeState = "error"
  /\ m_esmeState' = "up" /\ peer' = "up" /\ wire' = << >>
  /\ receiveQueue' = << >>
  /\ base' = Len(taken) /\ ends' = {}
  /\ aligned' = (m_readNetBuffer = << >>)
  /\ UNCHANGED <<m_readNetBuffer, requireBytes, pc, tasks, boundVars, taken,
                 cuts>>

(* The link thread closes the socket and connects again (EsmeSession has   *)
(* the steps): nothing of it touches m_readNetBuffer.                      *)
Reconnect ==
  /\ m_esmeState = "error"
  /\ m_esmeState' = "up" /\ peer' = "up" /\ wire' = << >>
  /\ base' = Len(taken) /\ ends' = {}
  /\ aligned' = (m_readNetBuffer = << >>)
  /\ UNCHANGED <<m_readNetBuffer, requireBytes, pc, receiveQueue, tasks,
                 boundVars, taken, cuts>>

\* Bug: a worker drains the queue on one task.
BugDrain ==
  /\ receiveQueue # << >>
  /\ tasks' = tasks - 1
  /\ receiveQueue' = Tail(receiveQueue)
  /\ UNCHANGED <<connVars, m_readNetBuffer, requireBytes, pc, boundVars,
                 streamVars, cuts, aligned>>

(* OnReceivePdu takes the oldest PDU: SmsPipeline has its steps. *)
OnReceivePdu ==
  /\ tasks > 0 /\ receiveQueue # << >>
  /\ tasks' = tasks - 1
  /\ receiveQueue' = Tail(receiveQueue)
  /\ UNCHANGED <<connVars, m_readNetBuffer, requireBytes, pc, boundVars,
                 streamVars, cuts, aligned>>

-----------------------------------------------------------------------------
Available == IF Len(wire) < MaxRead THEN Len(wire) ELSE MaxRead

Read ==
  \/ \E g \in [1 .. 4 -> Junk] :
       Post(g) \/ \E n \in 1 .. Available : Receive(n, g)
  \/ ReadEnds \/ Split \/ ReadReturns

(* Everybody waits for the SMSC. *)
Waiting ==
  /\ Readable /\ peer = "up" /\ wire = << >> /\ receiveQueue = << >>
  /\ UNCHANGED vars

Next ==
  \/ \E f \in Frames : SmscSend(f)
  \/ ConnectionEnds \/ Read \/ WriteFails \/ Reconnect \/ OnReceivePdu
  \/ Waiting

Spec == Init /\ [][Next]_vars

(* The reader and the link thread run; PDUs and losses are never forced.  *)
FairSpec == Spec /\ WF_vars(Read) /\ WF_vars(Reconnect)

-----------------------------------------------------------------------------
(* PROPERTIES *)

TypeOK ==
  /\ wire \in Seq(Octet) /\ m_readNetBuffer \in Seq(Octet)
  /\ taken \in Seq(Octet)
  /\ peer \in {"up", "ended"} /\ m_esmeState \in {"up", "error"}
  /\ requireBytes \in Nat /\ pc \in {"select", "split", "post"}
  /\ receiveQueue \in Seq(Seq(Octet)) /\ tasks \in Nat
  /\ frames \in Nat /\ losses \in Nat
  /\ cuts \in Seq(Nat) /\ base \in Nat /\ ends \subseteq Nat
  /\ aligned \in BOOLEAN

(* The buffer is exactly what has been read and not been cut off, and each *)
(* queued PDU is the piece of the stream between two cuts: read() may      *)
(* split and join PDUs as it likes and connections may change, no octet is *)
(* lost, doubled or moved on the way to receiveQueue.                      *)
CutAt(i) == IF i = 0 THEN 0 ELSE cuts[i]
PiecesOfTheStream ==
  /\ m_readNetBuffer = SubSeq(taken, Cut + 1, Len(taken))
  /\ \A i \in 1 .. Len(receiveQueue) :
       LET k == Len(cuts) - Len(receiveQueue) + i IN
         k > 0 /\ receiveQueue[i] = SubSeq(taken, CutAt(k - 1) + 1, CutAt(k))

(* On a connection that was opened with an empty buffer, and as long as no *)
(* octet behind the buffer has been taken for a fitting length, the stream *)
(* is cut where the SMSC ended its PDUs and nowhere else.                  *)
CutWhereTheyEnd ==
  aligned =>
    {cuts[i] : i \in {j \in DOMAIN cuts : cuts[j] > base}}
      = {e \in ends : e <= Cut}

(* On such a connection no PDU that has been read completely stays in the  *)
(* buffer when Read returns: the next one may be a long time coming.       *)
NothingHeldBack ==
  aligned /\ pc = "select" => \A e \in ends : e <= Len(taken) => e <= Cut

(* The PDUs handed on are those of the SMSC, and all that have arrived. *)
CutsAreEnds == CutWhereTheyEnd /\ NothingHeldBack

(* Every queued PDU has its task, or the reader is about to post it. *)
OneTaskPerPdu ==
  Len(receiveQueue) = tasks + (IF pc = "post" THEN 1 ELSE 0)

(* What was read is in the buffer, or in the queue with a task for it, or  *)
(* has been taken from there.                                              *)
NothingLostOnTheWay == PiecesOfTheStream /\ OneTaskPerPdu

(* However read() splits the stream, the n-th PDU of a connection reaches  *)
(* the queue, unless the connection ends first or is out of step.          *)
EveryPduArrives ==
  \A n \in 1 .. MaxFrames :
    Cardinality(ends) >= n ~>
      \/ Cardinality({e \in ends : e <= Cut}) >= n
      \/ peer = "ended" \/ ~aligned
=============================================================================
