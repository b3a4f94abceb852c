--------------------------- MODULE Framer_proofs ---------------------------
(***************************************************************************)
(* What Framer promises of the stream, proved for any PDUs, any reads, any *)
(* number of connections and anything behind the buffer.                   *)
(*                                                                         *)
(* That octets are neither lost nor moved is a matter of the buffer, the   *)
(* queue and the cuts.  That PDUs are cut where they end also needs what   *)
(* the connection carries: PDUs in a row, each with its own length in its  *)
(* first four octets, of which the last may be cut short.                  *)
(***************************************************************************)
EXTENDS Framer, SequenceTheorems, TLAPS

-----------------------------------------------------------------------------
(* Sequences cut in pieces. *)

(* A piece of what was there does not change when more is appended. *)
LEMMA PieceOfPrefix ==
  ASSUME NEW S, NEW s \in Seq(S), NEW t \in Seq(S),
         NEW a \in Nat, a > 0, NEW b \in Nat, b <= Len(s)
  PROVE  SubSeq(s \o t, a, b) = SubSeq(s, a, b)
<1>1. /\ s \o t \in Seq(S) /\ Len(s \o t) = Len(s) + Len(t)
      /\ \A i \in 1 .. Len(s) + Len(t) :
           (s \o t)[i] = IF i <= Len(s) THEN s[i] ELSE t[i - Len(s)]
  BY ConcatProperties
<1>2. Len(s) \in Nat /\ Len(t) \in Nat
  BY LenProperties
<1>3. \A i \in a .. b : (s \o t)[i] \in S /\ s[i] \in S /\ (s \o t)[i] = s[i]
  <2> SUFFICES ASSUME NEW i \in a .. b
               PROVE  (s \o t)[i] \in S /\ s[i] \in S /\ (s \o t)[i] = s[i]
    OBVIOUS
  <2>1. i \in 1 .. Len(s) /\ i \in 1 .. Len(s) + Len(t) /\ i <= Len(s)
    BY <1>2
  <2>2. s[i] \in S
    BY <2>1, ElementOfSeq
  <2> QED BY <1>1, <2>1, <2>2
<1>4. /\ SubSeq(s \o t, a, b) \in Seq(S)
      /\ Len(SubSeq(s \o t, a, b)) = IF a <= b THEN b - a + 1 ELSE 0
      /\ \A i \in 1 .. b - a + 1 :
           SubSeq(s \o t, a, b)[i] = (s \o t)[a + i - 1]
  BY <1>3, SubSeqProperties
<1>5. /\ SubSeq(s, a, b) \in Seq(S)
      /\ Len(SubSeq(s, a, b)) = IF a <= b THEN b - a + 1 ELSE 0
      /\ \A i \in 1 .. b - a + 1 : SubSeq(s, a, b)[i] = s[a + i - 1]
  BY <1>3, SubSeqProperties
<1>6. \A i \in 1 .. Len(SubSeq(s, a, b)) :
        SubSeq(s \o t, a, b)[i] = SubSeq(s, a, b)[i]
  <2> SUFFICES ASSUME NEW i \in 1 .. Len(SubSeq(s, a, b))
               PROVE  SubSeq(s \o t, a, b)[i] = SubSeq(s, a, b)[i]
    OBVIOUS
  <2>1. i \in 1 .. b - a + 1 /\ a + i - 1 \in a .. b
    BY <1>5
  <2> QED BY <1>3, <1>4, <1>5, <2>1
<1> QED BY <1>4, <1>5, <1>6, SeqEqual

(* What follows a cut, as a sequence of its own. *)
LEMMA RestOfStream ==
  ASSUME NEW S, NEW s \in Seq(S), NEW c \in Nat, c <= Len(s)
  PROVE  /\ SubSeq(s, c + 1, Len(s)) \in Seq(S)
         /\ Len(SubSeq(s, c + 1, Len(s))) = Len(s) - c
         /\ \A i \in 1 .. Len(s) - c : SubSeq(s, c + 1, Len(s))[i] = s[c + i]
<1>1. Len(s) \in Nat
  BY LenProperties
<1>2. \A i \in c + 1 .. Len(s) : s[i] \in S
  BY <1>1, ElementOfSeq
<1>3. /\ SubSeq(s, c + 1, Len(s)) \in Seq(S)
      /\ Len(SubSeq(s, c + 1, Len(s)))
           = IF c + 1 <= Len(s) THEN Len(s) - (c + 1) + 1 ELSE 0
      /\ \A i \in 1 .. Len(s) - (c + 1) + 1 :
           SubSeq(s, c + 1, Len(s))[i] = s[c + 1 + i - 1]
  BY <1>1, <1>2, SubSeqProperties
<1> QED BY <1>1, <1>3

(* Appending to the stream appends to what follows the cut. *)
LEMMA RestGrows ==
  ASSUME NEW S, NEW s \in Seq(S), NEW t \in Seq(S), NEW c \in Nat, c <= Len(s)
  PROVE  SubSeq(s \o t, c + 1, Len(s \o t)) = SubSeq(s, c + 1, Len(s)) \o t
<1> DEFINE r == SubSeq(s, c + 1, Len(s))
           u == SubSeq(s \o t, c + 1, Len(s \o t))
<1>1. /\ s \o t \in Seq(S) /\ Len(s \o t) = Len(s) + Len(t)
      /\ \A i \in 1 .. Len(s) + Len(t) :
           (s \o t)[i] = IF i <= Len(s) THEN s[i] ELSE t[i - Len(s)]
  BY ConcatProperties
<1>2. Len(s) \in Nat /\ Len(t) \in Nat
  BY LenProperties
<1>3. r \in Seq(S) /\ Len(r) = Len(s) - c
      /\ \A i \in 1 .. Len(s) - c : r[i] = s[c + i]
  BY RestOfStream
<1>4. u \in Seq(S) /\ Len(u) = Len(s) + Len(t) - c
      /\ \A i \in 1 .. Len(s) + Len(t) - c : u[i] = (s \o t)[c + i]
  <2>1. c <= Len(s \o t)
    BY <1>1, <1>2
  <2> QED BY <1>1, <2>1, RestOfStream
<1>5. /\ r \o t \in Seq(S) /\ Len(r \o t) = Len(s) - c + Len(t)
      /\ \A i \in 1 .. Len(s) - c + Len(t) :
           (r \o t)[i] = IF i <= Len(s) - c THEN r[i] ELSE t[i - (Len(s) - c)]
  <2> HIDE DEF r, u
  <2>1. r \in Seq(S)
    BY <1>3
  <2>2. /\ r \o t \in Seq(S) /\ Len(r \o t) = Len(r) + Len(t)
        /\ \A i \in 1 .. Len(r) + Len(t) :
             (r \o t)[i] = IF i <= Len(r) THEN r[i] ELSE t[i - Len(r)]
    BY <2>1, ConcatProperties
  <2> QED BY <1>3, <2>2
<1> HIDE DEF r, u
<1>6. \A i \in 1 .. Len(u) : u[i] = (r \o t)[i]
  <2> SUFFICES ASSUME NEW i \in 1 .. Len(u)
               PROVE  u[i] = (r \o t)[i]
    OBVIOUS
  <2>1. u[i] = IF c + i <= Len(s) THEN s[c + i] ELSE t[c + i - Len(s)]
    <3>1. c + i \in 1 .. Len(s) + Len(t) /\ i \in 1 .. Len(s) + Len(t) - c
      BY <1>2, <1>4
    <3>2. u[i] = (s \o t)[c + i]
      BY <1>4, <3>1
    <3>3. (s \o t)[c + i] = IF c + i <= Len(s) THEN s[c + i] ELSE t[c + i - Len(s)]
      BY <1>1, <3>1
    <3> QED BY <3>2, <3>3
  <2>2. (r \o t)[i] = IF i <= Len(s) - c THEN s[c + i] ELSE t[i - (Len(s) - c)]
    <3>1. i \in 1 .. Len(s) - c + Len(t)
      BY <1>2, <1>4
    <3>2. i <= Len(s) - c => i \in 1 .. Len(s) - c
      BY <1>2, <3>1
    <3> QED BY <1>3, <1>5, <3>1, <3>2
  <2>3. i \in Nat /\ c + i - Len(s) = i - (Len(s) - c)
        /\ (c + i <= Len(s) <=> i <= Len(s) - c)
    BY <1>2, <1>4
  <2> QED BY <2>1, <2>2, <2>3
<1>7. Len(u) = Len(r \o t)
  BY <1>2, <1>4, <1>5
<1>8. u = r \o t
  BY <1>4, <1>5, <1>6, <1>7, SeqEqual
<1> QED BY <1>8 DEF r, u

(* What Erase leaves when it takes the first n octets off a buffer. *)
LEMMA EraseFront ==
  ASSUME NEW S, NEW r \in Seq(S), NEW n \in Nat, n > 0, n <= Len(r)
  PROVE  /\ Erase(r, 0, n) \in Seq(S)
         /\ Len(Erase(r, 0, n)) = Len(r) - n
         /\ \A i \in 1 .. Len(r) - n : Erase(r, 0, n)[i] = r[n + i]
<1>1. Len(r) \in Nat
  BY LenProperties
<1>2. Erase(r, 0, n) = SubSeq(r, 1, 0) \o SubSeq(r, n + 1, Len(r))
  BY <1>1 DEF Erase
<1>3. SubSeq(r, 1, 0) = << >>
  BY SubSeqEmpty
<1>4. /\ SubSeq(r, n + 1, Len(r)) \in Seq(S)
      /\ Len(SubSeq(r, n + 1, Len(r))) = Len(r) - n
      /\ \A i \in 1 .. Len(r) - n : SubSeq(r, n + 1, Len(r))[i] = r[n + i]
  BY RestOfStream
<1>5. << >> \o SubSeq(r, n + 1, Len(r)) = SubSeq(r, n + 1, Len(r))
  BY <1>4, ConcatEmptySeq
<1> QED BY <1>2, <1>3, <1>4, <1>5

(* The first n octets after a cut, and what is left behind them. *)
LEMMA CutTheRest ==
  ASSUME NEW S, NEW s \in Seq(S), NEW c \in Nat, NEW n \in Nat,
         n > 0, c + n <= Len(s)
  PROVE  LET r == SubSeq(s, c + 1, Len(s)) IN
           /\ SubSeq(r, 1, n) = SubSeq(s, c + 1, c + n)
           /\ Erase(r, 0, n) = SubSeq(s, c + n + 1, Len(s))
<1> DEFINE r == SubSeq(s, c + 1, Len(s))
           q == SubSeq(s, c + n + 1, Len(s))
<1>1. Len(s) \in Nat
  BY LenProperties
<1>2. r \in Seq(S) /\ Len(r) = Len(s) - c
      /\ \A i \in 1 .. Len(s) - c : r[i] = s[c + i]
  BY <1>1, RestOfStream
<1>3. q \in Seq(S) /\ Len(q) = Len(s) - (c + n)
      /\ \A i \in 1 .. Len(s) - (c + n) : q[i] = s[c + n + i]
  BY <1>1, RestOfStream
<1>4. \A i \in 1 .. Len(r) : r[i] \in S
  BY <1>2, ElementOfSeq
<1>5. \A i \in c + 1 .. Len(s) : s[i] \in S
  BY <1>1, ElementOfSeq
<1>6. SubSeq(r, 1, n) = SubSeq(s, c + 1, c + n)
  <2>1. /\ SubSeq(r, 1, n) \in Seq(S) /\ Len(SubSeq(r, 1, n)) = n
        /\ \A i \in 1 .. n : SubSeq(r, 1, n)[i] = r[i]
    <3>1. \A i \in 1 .. n : r[i] \in S
      BY <1>1, <1>2, <1>4
    <3>2. /\ SubSeq(r, 1, n) \in Seq(S)
          /\ Len(SubSeq(r, 1, n)) = IF 1 <= n THEN n - 1 + 1 ELSE 0
          /\ \A i \in 1 .. n - 1 + 1 : SubSeq(r, 1, n)[i] = r[1 + i - 1]
      BY <3>1, SubSeqProperties
    <3> QED BY <3>2
  <2>2. /\ SubSeq(s, c + 1, c + n) \in Seq(S)
        /\ Len(SubSeq(s, c + 1, c + n)) = n
        /\ \A i \in 1 .. n : SubSeq(s, c + 1, c + n)[i] = s[c + i]
    <3>1. \A i \in c + 1 .. c + n : s[i] \in S
      BY <1>1, <1>5
    <3>2. /\ SubSeq(s, c + 1, c + n) \in Seq(S)
          /\ Len(SubSeq(s, c + 1, c + n))
               = IF c + 1 <= c + n THEN c + n - (c + 1) + 1 ELSE 0
          /\ \A i \in 1 .. c + n - (c + 1) + 1 :
               SubSeq(s, c + 1, c + n)[i] = s[c + 1 + i - 1]
      BY <3>1, SubSeqProperties
    <3> QED BY <3>2
  <2>3. \A i \in 1 .. n : SubSeq(r, 1, n)[i] = SubSeq(s, c + 1, c + n)[i]
    BY <1>1, <1>2, <2>1, <2>2
  <2> HIDE DEF r
  <2> QED BY <2>1, <2>2, <2>3, SeqEqual
<1>7. Erase(r, 0, n) = q
  <2> HIDE DEF r, q
  <2>1. /\ Erase(r, 0, n) \in Seq(S)
        /\ Len(Erase(r, 0, n)) = Len(r) - n
        /\ \A i \in 1 .. Len(r) - n : Erase(r, 0, n)[i] = r[n + i]
    <3>1. r \in Seq(S) /\ n <= Len(r)
      BY <1>1, <1>2
    <3> QED BY <3>1, EraseFront
  <2>2. \A i \in 1 .. Len(q) : Erase(r, 0, n)[i] = q[i]
    <3> SUFFICES ASSUME NEW i \in 1 .. Len(q)
                 PROVE  Erase(r, 0, n)[i] = q[i]
      OBVIOUS
    <3>1. i \in 1 .. Len(r) - n /\ n + i \in 1 .. Len(s) - c
          /\ c + (n + i) = c + n + i
      BY <1>1, <1>2, <1>3
    <3>2. Erase(r, 0, n)[i] = s[c + (n + i)]
      BY <1>2, <2>1, <3>1
    <3> QED BY <1>3, <3>1, <3>2
  <2>3. Len(Erase(r, 0, n)) = Len(q)
    BY <1>1, <1>2, <1>3, <2>1
  <2> QED BY <1>3, <2>1, <2>2, <2>3, SeqEqual
<1> QED BY <1>6, <1>7

-----------------------------------------------------------------------------
(* Types. *)

LEMMA LengthOfOctets ==
  ASSUME NEW h, \A i \in 1 .. 4 : h[i] \in Octet
  PROVE  get_command_length(h) \in Nat
<1>1. \A i \in 1 .. 4 : h[i] \in Nat
  BY SMTT(30) DEF Octet
<1>2. h[1] \in Nat /\ h[2] \in Nat /\ h[3] \in Nat /\ h[4] \in Nat
  BY <1>1
<1> QED BY <1>2 DEF get_command_length

(* Whatever lies behind the buffer, a length is a natural number. *)
LEMMA LengthIsNat ==
  ASSUME NEW b \in Seq(Octet), NEW g \in [1 .. 4 -> Junk]
  PROVE  LengthField(b, g) \in Nat
<1> DEFINE h == [i \in 1 .. 4 |-> IF i <= Len(b) THEN b[i] ELSE g[i]]
<1>1. \A i \in 1 .. 4 : h[i] \in Octet
  <2> SUFFICES ASSUME NEW i \in 1 .. 4 PROVE h[i] \in Octet
    OBVIOUS
  <2>1. CASE i <= Len(b)
    <3>1. i \in 1 .. Len(b)
      BY <2>1, LenProperties
    <3> QED BY <2>1, <3>1, ElementOfSeq
  <2>2. CASE ~(i <= Len(b))
    BY <2>2, FramerAssumption DEF FramerAssumption
  <2> QED BY <2>1, <2>2
<1>2. LengthField(b, g) = get_command_length(h)
  BY DEF LengthField
<1> QED BY <1>1, <1>2, LengthOfOctets

(* A read takes the front of the wire and leaves the rest. *)
LEMMA WireSplit ==
  ASSUME NEW w \in Seq(Octet), NEW n \in 0 .. Len(w)
  PROVE  /\ SubSeq(w, 1, n) \in Seq(Octet)
         /\ SubSeq(w, n + 1, Len(w)) \in Seq(Octet)
<1>1. Len(w) \in Nat /\ n \in Nat /\ n <= Len(w)
  BY LenProperties
<1>2. \A i \in 1 .. n : w[i] \in Octet
  BY <1>1, ElementOfSeq
<1>3. SubSeq(w, 1, n) \in Seq(Octet)
  BY <1>1, <1>2, SubSeqProperties
<1> QED BY <1>1, <1>3, RestOfStream

(* The octets of a whole PDU at the front of the buffer, and the buffer    *)
(* without them.                                                           *)
LEMMA SplitTypes ==
  ASSUME NEW b \in Seq(Octet), NEW n \in Nat, Whole(n, b)
  PROVE  SubSeq(b, 1, n) \in Seq(Octet) /\ Erase(b, 0, n) \in Seq(Octet)
<1>1. Len(b) \in Nat /\ n > 0 /\ n <= Len(b) /\ n \in 0 .. Len(b)
  BY LenProperties DEF Whole
<1> QED BY <1>1, WireSplit, EraseFront

LEMMA CutIsNat ==
  ASSUME TypeOK
  PROVE  Cut \in Nat
<1>1. CASE cuts = << >>
  BY <1>1 DEF Cut
<1>2. CASE cuts # << >>
  <2>1. cuts \in Seq(Nat) /\ Len(cuts) \in 1 .. Len(cuts)
    BY <1>2 DEF TypeOK
  <2> QED BY <1>2, <2>1, ElementOfSeq DEF Cut
<1> QED BY <1>1, <1>2

LEMMA TypeOKInit == Init => TypeOK
BY DEF Init, TypeOK

LEMMA TypeOKStep ==
  ASSUME TypeOK, [Next]_vars
  PROVE  TypeOK'
<1> USE DEF connVars, boundVars, streamVars
<1>1. ASSUME NEW f \in Frames, SmscSend(f) PROVE TypeOK'
  <2>1. f \in Seq(Octet) /\ wire \in Seq(Octet) /\ taken \in Seq(Octet)
    BY FramerAssumption DEF FramerAssumption, TypeOK
  <2>2. wire \o f \in Seq(Octet)
    BY <2>1, ConcatProperties
  <2>3. Len(taken) + Len(wire) + Len(f) \in Nat
    BY <2>1, LenProperties
  <2>4. ends' \subseteq Nat
    BY <1>1, <2>3 DEF SmscSend, TypeOK
  <2>5. wire' \in Seq(Octet)
    BY <1>1, <2>2 DEF SmscSend
  <2> QED BY <1>1, <2>4, <2>5 DEF SmscSend, TypeOK
<1>2. CASE ConnectionEnds
  <2>1. wire' \in Seq(Octet)
    BY <1>2, WireSplit DEF ConnectionEnds, TypeOK
  <2> QED BY <1>2, <2>1 DEF ConnectionEnds, TypeOK
<1>3. ASSUME NEW g \in [1 .. 4 -> Junk], Post(g) PROVE TypeOK'
  <2>1. LengthField(m_readNetBuffer, g) \in Nat
    BY LengthIsNat DEF TypeOK
  <2> QED BY <1>3, <2>1 DEF Post, TypeOK
<1>4. ASSUME NEW g \in [1 .. 4 -> Junk], NEW n \in 1 .. Available,
             Receive(n, g)
      PROVE  TypeOK'
  <2>1. wire \in Seq(Octet) /\ n \in 0 .. Len(wire)
    BY LenProperties, FramerAssumption DEF FramerAssumption, TypeOK, Available
  <2>2. /\ SubSeq(wire, 1, n) \in Seq(Octet)
        /\ SubSeq(wire, n + 1, Len(wire)) \in Seq(Octet)
    BY <2>1, WireSplit
  <2>3. taken' \in Seq(Octet) /\ m_readNetBuffer' \in Seq(Octet)
    BY <1>4, <2>2, ConcatProperties DEF Receive, TypeOK
  <2>4. LengthField(m_readNetBuffer', g) \in Nat
    BY <2>3, LengthIsNat
  <2> QED BY <1>4, <2>2, <2>3, <2>4 DEF Receive, TypeOK
<1>5. CASE ReadEnds
  BY <1>5 DEF ReadEnds, TypeOK
<1>6. CASE Split
  <2>1. /\ SubSeq(m_readNetBuffer, 1, requireBytes) \in Seq(Octet)
        /\ Erase(m_readNetBuffer, 0, requireBytes) \in Seq(Octet)
    BY <1>6, SplitTypes DEF Split, TypeOK
  <2>2. Cut + requireBytes \in Nat
    BY CutIsNat DEF TypeOK
  <2>3. receiveQueue' \in Seq(Seq(Octet)) /\ cuts' \in Seq(Nat)
    BY <1>6, <2>1, <2>2, AppendProperties DEF Split, TypeOK
  <2> QED BY <1>6, <2>1, <2>3 DEF Split, TypeOK
<1>7. CASE ReadReturns
  BY <1>7 DEF ReadReturns, TypeOK
<1>8. CASE WriteFails
  BY <1>8 DEF WriteFails, TypeOK
<1>9. CASE Reconnect
  <2>1. Len(taken) \in Nat
    BY LenProperties DEF TypeOK
  <2> QED BY <1>9, <2>1 DEF Reconnect, TypeOK
<1>10. CASE OnReceivePdu
  <2>1. receiveQueue' \in Seq(Seq(Octet))
    BY <1>10, HeadTailProperties DEF OnReceivePdu, TypeOK
  <2> QED BY <1>10, <2>1 DEF OnReceivePdu, TypeOK
<1>11. CASE UNCHANGED vars
  BY <1>11 DEF vars, TypeOK
<1> QED BY <1>1, <1>2, <1>3, <1>4, <1>5, <1>6, <1>7, <1>8, <1>9, <1>10, <1>11
        DEF Next, Read, Waiting

(* Every variable keeps its type: in particular no reading of the length   *)
(* field, junk included, makes the buffer anything but octets.             *)
THEOREM FramerTypes == Spec => []TypeOK
<1>1. TypeOK /\ [Next]_vars => TypeOK'
  BY TypeOKStep
<1> QED BY TypeOKInit, <1>1, PTL DEF Spec

-----------------------------------------------------------------------------
(* Pieces. *)

(* What PiecesOfTheStream needs besides itself: cuts lie in what has been  *)
(* read, and there is one for every queued PDU.                            *)
CutsInStream ==
  /\ \A i \in 1 .. Len(cuts) : cuts[i] <= Len(taken)
  /\ Len(receiveQueue) <= Len(cuts)

FramerInv == TypeOK /\ CutsInStream /\ PiecesOfTheStream

LEMMA CutInStream ==
  ASSUME TypeOK, CutsInStream
  PROVE  /\ Cut \in Nat /\ Cut <= Len(taken) /\ Len(cuts) \in Nat
         /\ Cut = CutAt(Len(cuts))
         /\ \A k \in 0 .. Len(cuts) :
              CutAt(k) \in Nat /\ CutAt(k) <= Len(taken)
<1>1. Len(cuts) \in Nat /\ Len(taken) \in Nat
  BY LenProperties DEF TypeOK
<1>2. \A k \in 0 .. Len(cuts) : CutAt(k) \in Nat /\ CutAt(k) <= Len(taken)
  <2> SUFFICES ASSUME NEW k \in 0 .. Len(cuts)
               PROVE  CutAt(k) \in Nat /\ CutAt(k) <= Len(taken)
    OBVIOUS
  <2>1. CASE k = 0
    BY <1>1, <2>1 DEF CutAt
  <2>2. CASE k # 0
    <3>1. k \in 1 .. Len(cuts)
      BY <1>1, <2>2
    <3>2. cuts[k] \in Nat
      BY <3>1, ElementOfSeq DEF TypeOK
    <3> QED BY <2>2, <3>1, <3>2 DEF CutAt, CutsInStream
  <2> QED BY <2>1, <2>2
<1>3. Cut = CutAt(Len(cuts))
  <2>1. cuts = << >> <=> Len(cuts) = 0
    BY EmptySeq DEF TypeOK
  <2> QED BY <2>1 DEF Cut, CutAt
<1>4. Len(cuts) \in 0 .. Len(cuts)
  BY <1>1
<1> QED BY <1>1, <1>2, <1>3, <1>4

(* Steps that touch neither the buffer nor the queue nor the history.      *)
LEMMA PiecesUntouched ==
  ASSUME FramerInv, UNCHANGED <<m_readNetBuffer, receiveQueue, taken, cuts>>
  PROVE  CutsInStream' /\ PiecesOfTheStream'
BY DEF FramerInv, CutsInStream, PiecesOfTheStream, Cut, CutAt

(* What is read is appended to the stream and to the buffer alike.         *)
LEMMA PiecesReceive ==
  ASSUME FramerInv, NEW g \in [1 .. 4 -> Junk], NEW n \in 1 .. Available,
         Receive(n, g)
  PROVE  CutsInStream' /\ PiecesOfTheStream'
<1> DEFINE t == SubSeq(wire, 1, n)
<1>1. t \in Seq(Octet)
  <2>1. wire \in Seq(Octet) /\ n \in 0 .. Len(wire)
    BY LenProperties, FramerAssumption
       DEF FramerAssumption, FramerInv, TypeOK, Available
  <2> QED BY <2>1, WireSplit
<1>2. /\ taken' = taken \o t /\ m_readNetBuffer' = m_readNetBuffer \o t
      /\ UNCHANGED <<receiveQueue, cuts>>
  BY DEF Receive
<1> HIDE DEF t
<1>3. /\ Cut \in Nat /\ Cut <= Len(taken) /\ Len(cuts) \in Nat
      /\ \A k \in 0 .. Len(cuts) : CutAt(k) \in Nat /\ CutAt(k) <= Len(taken)
  BY CutInStream DEF FramerInv
<1>4. taken \in Seq(Octet) /\ Len(taken) \in Nat /\ Len(t) \in Nat
  BY <1>1, LenProperties DEF FramerInv, TypeOK
<1>5. Len(taken') = Len(taken) + Len(t)
  BY <1>1, <1>2, <1>4, ConcatProperties
<1>6. Cut' = Cut /\ \A k \in 0 .. Len(cuts) : CutAt(k)' = CutAt(k)
  BY <1>2 DEF Cut, CutAt
<1>7. CutsInStream'
  <2>1. \A i \in 1 .. Len(cuts) : cuts[i] \in Nat /\ cuts[i] <= Len(taken)
    BY ElementOfSeq DEF FramerInv, TypeOK, CutsInStream
  <2> QED BY <1>2, <1>4, <1>5, <2>1 DEF FramerInv, CutsInStream
<1>8. m_readNetBuffer' = SubSeq(taken', Cut' + 1, Len(taken'))
  BY <1>1, <1>2, <1>3, <1>4, <1>6, RestGrows DEF FramerInv, PiecesOfTheStream
<1>9. ASSUME NEW i \in 1 .. Len(receiveQueue), NEW k,
             k = Len(cuts) - Len(receiveQueue) + i
      PROVE  /\ k > 0
             /\ receiveQueue[i] = SubSeq(taken', CutAt(k - 1) + 1, CutAt(k))
  <2>1. k > 0 /\ receiveQueue[i] = SubSeq(taken, CutAt(k - 1) + 1, CutAt(k))
    BY <1>9 DEF FramerInv, PiecesOfTheStream
  <2>2. Len(receiveQueue) \in Nat
    BY LenProperties DEF FramerInv, TypeOK
  <2>3. k \in 0 .. Len(cuts) /\ k - 1 \in 0 .. Len(cuts)
    BY <1>3, <1>9, <2>1, <2>2
  <2>4. CutAt(k - 1) + 1 \in Nat /\ CutAt(k - 1) + 1 > 0 /\ CutAt(k) \in Nat
        /\ CutAt(k) <= Len(taken)
    BY <1>3, <2>3, SMTT(30)
  <2>5. SubSeq(taken \o t, CutAt(k - 1) + 1, CutAt(k))
          = SubSeq(taken, CutAt(k - 1) + 1, CutAt(k))
    BY <1>1, <1>4, <2>4, PieceOfPrefix, SMTT(30)
  <2> QED BY <1>2, <2>1, <2>5
<1>10. ASSUME NEW i \in 1 .. Len(receiveQueue), NEW k,
             k = Len(cuts) - Len(receiveQueue) + i
       PROVE  /\ k > 0
              /\ receiveQueue[i] = SubSeq(taken', CutAt(k - 1)' + 1, CutAt(k)')
  <2>1. k > 0 /\ receiveQueue[i] = SubSeq(taken', CutAt(k - 1) + 1, CutAt(k))
    BY <1>9, <1>10
  <2>2. CutAt(k - 1)' = CutAt(k - 1) /\ CutAt(k)' = CutAt(k)
    BY <1>2 DEF CutAt
  <2> QED BY <2>1, <2>2
<1>11. PiecesOfTheStream'
  BY <1>2, <1>8, <1>10 DEF PiecesOfTheStream
<1> QED BY <1>7, <1>11

(* The PDU that is cut off is the next piece of the stream.                *)
LEMMA PiecesSplit ==
  ASSUME FramerInv, Split
  PROVE  CutsInStream' /\ PiecesOfTheStream'
<1> DEFINE n == requireBytes
           q == Len(receiveQueue)
           z == Len(cuts)
<1>1. /\ Cut \in Nat /\ Cut <= Len(taken) /\ z \in Nat /\ Cut = CutAt(z)
      /\ \A k \in 0 .. z : CutAt(k) \in Nat /\ CutAt(k) <= Len(taken)
  BY CutInStream DEF FramerInv
<1>2. taken \in Seq(Octet) /\ Len(taken) \in Nat /\ q \in Nat /\ q <= z
  BY LenProperties DEF FramerInv, TypeOK, CutsInStream
<1>3. m_readNetBuffer = SubSeq(taken, Cut + 1, Len(taken))
  BY DEF FramerInv, PiecesOfTheStream
<1>4. n \in Nat /\ n > 0 /\ Cut + n <= Len(taken)
  <2>1. Len(m_readNetBuffer) = Len(taken) - Cut
    BY <1>1, <1>2, <1>3, RestOfStream
  <2> QED BY <1>1, <1>2, <2>1 DEF FramerInv, TypeOK, Split, Whole
<1>5. /\ SubSeq(m_readNetBuffer, 1, n) = SubSeq(taken, Cut + 1, Cut + n)
      /\ Erase(m_readNetBuffer, 0, n) = SubSeq(taken, Cut + n + 1, Len(taken))
  BY <1>1, <1>2, <1>3, <1>4, CutTheRest
<1>6. /\ Len(cuts') = z + 1 /\ cuts'[z + 1] = Cut + n
      /\ \A i \in 1 .. z : cuts'[i] = cuts[i]
  BY <1>1, <1>4, AppendProperties DEF FramerInv, TypeOK, Split
<1>7. /\ Len(receiveQueue') = q + 1
      /\ receiveQueue'[q + 1] = SubSeq(taken, Cut + 1, Cut + n)
      /\ \A i \in 1 .. q : receiveQueue'[i] = receiveQueue[i]
  <2>1. SubSeq(m_readNetBuffer, 1, n) \in Seq(Octet)
    BY SplitTypes DEF FramerInv, TypeOK, Split
  <2>2. receiveQueue \in Seq(Seq(Octet))
        /\ receiveQueue' = Append(receiveQueue, SubSeq(m_readNetBuffer, 1, n))
    BY DEF FramerInv, TypeOK, Split
  <2> DEFINE x == SubSeq(m_readNetBuffer, 1, n)
  <2> HIDE DEF x
  <2>3. /\ Len(Append(receiveQueue, x)) = q + 1
        /\ Append(receiveQueue, x)[q + 1] = x
        /\ \A i \in 1 .. q : Append(receiveQueue, x)[i] = receiveQueue[i]
    <3>1. x \in Seq(Octet)
      BY <2>1 DEF x
    <3> QED BY <1>2, <2>2, <3>1, AppendProperties
  <2> QED BY <1>5, <2>2, <2>3 DEF x
<1>8. taken' = taken
  BY DEF Split, streamVars
<1>9. \A k \in 0 .. z : CutAt(k)' = CutAt(k)
  BY <1>6 DEF CutAt
<1>10. Cut' = Cut + n /\ \A k : k = z + 1 => CutAt(k)' = Cut + n
  <2>1. cuts' # << >> /\ z + 1 # 0
    BY <1>1, <1>6
  <2>2. ASSUME NEW k, k = z + 1 PROVE CutAt(k)' = cuts'[z + 1]
    BY <2>1, <2>2 DEF CutAt
  <2>3. Cut' = cuts'[z + 1]
    BY <1>6, <2>1 DEF Cut
  <2> QED BY <1>6, <2>2, <2>3
<1>11. CutsInStream'
  <2>1. ASSUME NEW i \in 1 .. z + 1 PROVE cuts'[i] <= Len(taken)
    <3>1. i = z + 1 \/ i \in 1 .. z
      BY <1>1
    <3>2. i = z + 1 => cuts'[i] <= Len(taken)
      BY <1>4, <1>6
    <3>3. i \in 1 .. z => cuts'[i] <= Len(taken)
      BY <1>6 DEF FramerInv, CutsInStream
    <3> QED BY <3>1, <3>2, <3>3
  <2> QED BY <1>2, <1>6, <1>7, <1>8, <2>1 DEF CutsInStream
<1>12. m_readNetBuffer' = SubSeq(taken', Cut' + 1, Len(taken'))
  BY <1>5, <1>8, <1>10 DEF Split
<1>13. ASSUME NEW i \in 1 .. q + 1, NEW k, k = (z + 1) - (q + 1) + i
       PROVE  /\ k > 0
              /\ receiveQueue'[i] = SubSeq(taken, CutAt(k - 1)' + 1, CutAt(k)')
  <2>1. CASE i = q + 1
    <3>1. k = z + 1 /\ k > 0 /\ k - 1 = z /\ z \in 0 .. z
      BY <1>1, <1>2, <1>13, <2>1
    <3>2. CutAt(k - 1)' = Cut /\ CutAt(k)' = Cut + n
      BY <1>1, <1>9, <1>10, <3>1
    <3>3. receiveQueue'[i] = SubSeq(taken, Cut + 1, Cut + n)
      BY <1>7, <2>1
    <3> HIDE DEF z, q
    <3> QED BY <3>1, <3>2, <3>3
  <2>2. CASE i # q + 1
    <3>1. i \in 1 .. q /\ k = z - q + i
      BY <1>1, <1>2, <1>13, <2>2
    <3>2. k > 0 /\ receiveQueue[i] = SubSeq(taken, CutAt(k - 1) + 1, CutAt(k))
      BY <3>1 DEF FramerInv, PiecesOfTheStream
    <3>3. k \in 0 .. z /\ k - 1 \in 0 .. z
      BY <1>1, <1>2, <3>1, <3>2
    <3>4. CutAt(k - 1)' = CutAt(k - 1) /\ CutAt(k)' = CutAt(k)
      BY <1>9, <3>3
    <3> QED BY <1>7, <3>1, <3>2, <3>4
  <2> QED BY <2>1, <2>2
<1>14. PiecesOfTheStream'
  BY <1>6, <1>7, <1>8, <1>12, <1>13 DEF PiecesOfTheStream
<1> QED BY <1>11, <1>14

(* A worker takes the oldest PDU; the others keep their places.            *)
LEMMA PiecesTaken ==
  ASSUME FramerInv, OnReceivePdu
  PROVE  CutsInStream' /\ PiecesOfTheStream'
<1> DEFINE q == Len(receiveQueue)
<1>1. UNCHANGED <<m_readNetBuffer, taken, cuts>>
  BY DEF OnReceivePdu, streamVars
<1>2. q \in Nat /\ Len(cuts) \in Nat
  BY LenProperties DEF FramerInv, TypeOK
<1>3. /\ Len(receiveQueue') = q - 1
      /\ \A i \in 1 .. q - 1 : receiveQueue'[i] = receiveQueue[i + 1]
  BY HeadTailProperties DEF FramerInv, TypeOK, OnReceivePdu
<1>4. \A k : CutAt(k)' = CutAt(k)
  BY <1>1 DEF CutAt
<1>5. Cut' = Cut
  BY <1>1 DEF Cut
<1>6. CutsInStream'
  BY <1>1, <1>2, <1>3 DEF FramerInv, CutsInStream
<1>7. ASSUME NEW i \in 1 .. q - 1, NEW k, k = Len(cuts) - (q - 1) + i
      PROVE  /\ k > 0
             /\ receiveQueue'[i] = SubSeq(taken, CutAt(k - 1)' + 1, CutAt(k)')
  <2>1. i + 1 \in 1 .. q /\ k = Len(cuts) - q + (i + 1)
    BY <1>2, <1>7
  <2>2. /\ k > 0
        /\ receiveQueue[i + 1] = SubSeq(taken, CutAt(k - 1) + 1, CutAt(k))
    BY <2>1 DEF FramerInv, PiecesOfTheStream
  <2> QED BY <1>3, <1>4, <2>2
<1>8. PiecesOfTheStream'
  BY <1>1, <1>3, <1>5, <1>7 DEF FramerInv, PiecesOfTheStream
<1> QED BY <1>6, <1>8

LEMMA FramerInvStep ==
  ASSUME FramerInv, [Next]_vars
  PROVE  FramerInv'
<1>1. TypeOK'
  BY TypeOKStep DEF FramerInv
<1>2. ASSUME NEW g \in [1 .. 4 -> Junk], NEW n \in 1 .. Available,
             Receive(n, g)
      PROVE  CutsInStream' /\ PiecesOfTheStream'
  BY <1>2, PiecesReceive
<1>3. CASE Split
  BY <1>1, <1>3, PiecesSplit DEF FramerInv
<1>4. CASE OnReceivePdu
  BY <1>1, <1>4, PiecesTaken DEF FramerInv
<1>5. ASSUME UNCHANGED <<m_readNetBuffer, receiveQueue, taken, cuts>>
      PROVE  CutsInStream' /\ PiecesOfTheStream'
  BY <1>5, PiecesUntouched
<1>6. ASSUME UNCHANGED <<m_readNetBuffer, receiveQueue, taken, cuts>>
      PROVE  FramerInv'
  BY <1>1, <1>5, <1>6 DEF FramerInv
<1>7. ASSUME NEW f \in Frames, SmscSend(f) PROVE FramerInv'
  BY <1>6, <1>7 DEF SmscSend
<1>8. ASSUME NEW g \in [1 .. 4 -> Junk], Post(g) PROVE FramerInv'
  BY <1>6, <1>8 DEF Post, streamVars
<1>9. CASE ConnectionEnds
  BY <1>6, <1>9 DEF ConnectionEnds, streamVars
<1>10. CASE ReadEnds
  BY <1>6, <1>10 DEF ReadEnds, streamVars
<1>11. CASE ReadReturns
  BY <1>6, <1>11 DEF ReadReturns, streamVars
<1>12. CASE WriteFails
  BY <1>6, <1>12 DEF WriteFails, streamVars
<1>13. CASE Reconnect
  BY <1>6, <1>13 DEF Reconnect
<1>14. CASE UNCHANGED vars
  BY <1>6, <1>14 DEF vars, streamVars
<1> QED BY <1>1, <1>2, <1>3, <1>4, <1>7, <1>8, <1>9, <1>10, <1>11, <1>12,
           <1>13, <1>14 DEF FramerInv, Next, Read, Waiting

(* No octet is lost, doubled or moved between the socket and receiveQueue, *)
(* whatever read() returns, whatever a length field says and however often *)
(* the connection is replaced.                                             *)
THEOREM StreamIsKept == Spec => []PiecesOfTheStream
<1>1. Init => FramerInv
  BY TypeOKInit DEF Init, FramerInv, CutsInStream, PiecesOfTheStream, Cut
<1>2. FramerInv /\ [Next]_vars => FramerInv'
  BY FramerInvStep
<1>3. FramerInv => PiecesOfTheStream
  BY DEF FramerInv
<1> QED BY <1>1, <1>2, <1>3, PTL DEF Spec

(* No queued PDU is without a task, so none waits for a later one to be    *)
(* looked at; and no task finds the queue empty.                           *)
THEOREM TasksMatchPdus == Spec => []OneTaskPerPdu
<1>1. Init => OneTaskPerPdu
  BY DEF Init, OneTaskPerPdu
<1>2. TypeOK /\ OneTaskPerPdu /\ [Next]_vars => OneTaskPerPdu'
  <2> SUFFICES ASSUME TypeOK, OneTaskPerPdu, [Next]_vars
               PROVE  OneTaskPerPdu'
    OBVIOUS
  <2>1. Len(receiveQueue) \in Nat
    BY LenProperties DEF TypeOK
  <2>2. CASE Split
    <3>1. SubSeq(m_readNetBuffer, 1, requireBytes) \in Seq(Octet)
      BY <2>2, SplitTypes DEF TypeOK, Split
    <3>2. Len(receiveQueue') = Len(receiveQueue) + 1
      BY <2>2, <3>1, AppendProperties DEF TypeOK, Split
    <3> QED BY <2>1, <2>2, <3>2 DEF Split, OneTaskPerPdu, TypeOK
  <2>3. CASE OnReceivePdu
    <3>1. Len(receiveQueue') = Len(receiveQueue) - 1
      BY <2>3, HeadTailProperties DEF TypeOK, OnReceivePdu
    <3> QED BY <2>1, <2>3, <3>1 DEF OnReceivePdu, OneTaskPerPdu, TypeOK
  <2>4. ASSUME NEW g \in [1 .. 4 -> Junk], Post(g) PROVE OneTaskPerPdu'
    BY <2>1, <2>4 DEF Post, OneTaskPerPdu, TypeOK
  <2>5. ASSUME NEW g \in [1 .. 4 -> Junk], NEW n \in 1 .. Available,
               Receive(n, g)
        PROVE  OneTaskPerPdu'
    BY <2>5 DEF Receive, Readable, OneTaskPerPdu
  <2>6. CASE ReadReturns
    BY <2>6 DEF ReadReturns, OneTaskPerPdu
  <2>7. CASE UNCHANGED <<receiveQueue, tasks, pc>>
    BY <2>7 DEF OneTaskPerPdu
  <2>8. \/ UNCHANGED <<receiveQueue, tasks, pc>>
        \/ Split \/ OnReceivePdu \/ ReadReturns
        \/ \E g \in [1 .. 4 -> Junk] :
              Post(g) \/ \E n \in 1 .. Available : Receive(n, g)
    BY DEF Next, Read, SmscSend, ConnectionEnds, ReadEnds, WriteFails,
           Reconnect, Waiting, vars
  <2> QED BY <2>2, <2>3, <2>4, <2>5, <2>6, <2>7, <2>8
<1> QED BY <1>1, <1>2, FramerTypes, PTL DEF Spec

(* Both: every octet read is in the buffer, or in a queued PDU that has a  *)
(* task, or in a PDU that was taken from the queue.                        *)
THEOREM NothingIsLost == Spec => []NothingLostOnTheWay
<1>1. PiecesOfTheStream /\ OneTaskPerPdu => NothingLostOnTheWay
  BY DEF NothingLostOnTheWay
<1> QED BY <1>1, StreamIsKept, TasksMatchPdus, PTL
-----------------------------------------------------------------------------
(* Cuts. *)

(* Where a PDU of this connection starts or the last one ends.             *)
Starts == {base} \union ends

(* The octets of this connection, read or not, by their place in taken.    *)
Sent == Len(taken) + Len(wire)
OctetAt(i) == IF i <= Len(taken) THEN taken[i] ELSE wire[i - Len(taken)]
LengthAt(p) ==
  ((OctetAt(p + 1) * 256 + OctetAt(p + 2)) * 256 + OctetAt(p + 3)) * 256
    + OctetAt(p + 4)

(* The PDU that starts at p ends at q, and says so if its length came.     *)
OnePdu(p, q) ==
  /\ q >= p + MIN_PDU_LENGTH
  /\ \A e \in ends : e > p => e >= q
  /\ p + 4 <= Sent => LengthAt(p) = q - p

(* The connection carries whole PDUs one after the other, but for the one  *)
(* that its end cut short.                                                 *)
PdusInARow ==
  /\ \A p \in Starts :
       base <= p /\ ((\A e \in ends : e <= p) \/ \E q \in ends : OnePdu(p, q))
  /\ \E p \in Starts : Sent <= p
  /\ peer = "up" => Sent \in Starts /\ \A p \in Starts : p <= Sent

(* The length that Split goes by is that of the first PDU in the buffer.   *)
LengthIsTrue ==
  pc = "split" =>
    IF Len(m_readNetBuffer) >= 4
      THEN requireBytes = get_command_length(m_readNetBuffer)
      ELSE ~Whole(requireBytes, m_readNetBuffer)

InStep ==
  aligned => Cut \in Starts /\ LengthIsTrue

LEMMA LengthStays ==
  ASSUME NEW p \in Nat, \A i \in p + 1 .. p + 4 : OctetAt(i)' = OctetAt(i)
  PROVE  LengthAt(p)' = LengthAt(p)
<1>1. /\ p + 1 \in p + 1 .. p + 4 /\ p + 2 \in p + 1 .. p + 4
      /\ p + 3 \in p + 1 .. p + 4 /\ p + 4 \in p + 1 .. p + 4
  OBVIOUS
<1>2. /\ OctetAt(p + 1)' = OctetAt(p + 1) /\ OctetAt(p + 2)' = OctetAt(p + 2)
      /\ OctetAt(p + 3)' = OctetAt(p + 3) /\ OctetAt(p + 4)' = OctetAt(p + 4)
  BY <1>1
<1> HIDE DEF OctetAt
<1> QED BY <1>2 DEF LengthAt

LEMMA StreamIsTyped ==
  ASSUME TypeOK
  PROVE  /\ Sent \in Nat /\ Len(taken) \in Nat /\ Len(wire) \in Nat
         /\ Len(taken) <= Sent /\ Starts \subseteq Nat
BY LenProperties DEF TypeOK, Sent, Starts

(* The octets that are left in a row of PDUs are those that were there.    *)
LEMMA RowStays ==
  ASSUME TypeOK, PdusInARow, Sent' \in Nat, Sent' <= Sent,
         \A i \in 1 .. Sent' : OctetAt(i)' = OctetAt(i),
         UNCHANGED <<base, ends>>,
         peer' = "up" => peer = "up" /\ Sent' = Sent
  PROVE  PdusInARow'
<1>1. Starts' = Starts /\ base' = base /\ ends' = ends /\ Sent \in Nat
      /\ Starts \subseteq Nat /\ ends \subseteq Starts /\ base \in Starts
  BY StreamIsTyped DEF Starts
<1> HIDE DEF Starts, Sent, OctetAt
<1>2. ASSUME NEW p \in Starts, NEW q \in ends, OnePdu(p, q)
      PROVE  OnePdu(p, q)'
  <2>1. ASSUME p + 4 <= Sent' PROVE LengthAt(p)' = q - p
    <3>1. p \in Nat /\ p + 4 <= Sent
      BY <1>1, <2>1
    <3>2. \A i \in p + 1 .. p + 4 : OctetAt(i)' = OctetAt(i)
      BY <2>1, <3>1
    <3>3. LengthAt(p)' = LengthAt(p)
      BY <3>1, <3>2, LengthStays
    <3> QED BY <1>2, <3>1, <3>3 DEF OnePdu
  <2> QED BY <1>1, <1>2, <2>1 DEF OnePdu
<1>3. \A p \in Starts : base <= p /\ ((\A e \in ends : e <= p)
                                       \/ \E q \in ends : OnePdu(p, q)')
  BY <1>2 DEF PdusInARow
<1>4. \E p \in Starts : Sent' <= p
  <2>1. PICK p \in Starts : Sent <= p
    BY DEF PdusInARow
  <2> QED BY <1>1, <2>1
<1> QED BY <1>1, <1>3, <1>4 DEF PdusInARow

(* The SMSC appends a PDU to those it sent.                                *)
LEMMA RowGrows ==
  ASSUME TypeOK, PdusInARow, NEW f \in Frames, SmscSend(f)
  PROVE  PdusInARow'
<1> DEFINE E == Sent + Len(f)
<1>1. /\ f \in Seq(Octet) /\ Len(f) \in Nat /\ Len(f) >= 16
      /\ get_command_length(f) = Len(f)
  BY FramerAssumption, LenProperties DEF FramerAssumption, MIN_PDU_LENGTH
<1>2. /\ Sent \in Nat /\ Len(taken) \in Nat /\ Len(wire) \in Nat
      /\ Starts \subseteq Nat /\ ends \subseteq Starts /\ base \in Starts
  BY StreamIsTyped DEF Starts
<1>3. /\ Len(wire') = Len(wire) + Len(f)
      /\ \A i \in 1 .. Len(wire) + Len(f) :
           wire'[i] = IF i <= Len(wire) THEN wire[i] ELSE f[i - Len(wire)]
  BY <1>1, ConcatProperties DEF SmscSend, TypeOK
<1>4. /\ taken' = taken /\ base' = base /\ ends' = ends \union {E}
      /\ peer = "up" /\ Sent' = E /\ Starts' = Starts \union {E}
  BY <1>2, <1>3 DEF SmscSend, Sent, Starts
<1>5. \A i \in 1 .. Sent : OctetAt(i)' = OctetAt(i)
  <2> SUFFICES ASSUME NEW i \in 1 .. Sent PROVE OctetAt(i)' = OctetAt(i)
    OBVIOUS
  <2>1. CASE i <= Len(taken)
    BY <1>4, <2>1 DEF OctetAt
  <2>2. CASE ~(i <= Len(taken))
    <3>1. /\ i - Len(taken) \in 1 .. Len(wire) + Len(f)
          /\ i - Len(taken) <= Len(wire)
      BY <1>1, <1>2, <2>2 DEF Sent
    <3> QED BY <1>3, <1>4, <2>2, <3>1 DEF OctetAt
  <2> QED BY <2>1, <2>2
<1>6. PICK s \in Nat : s = Sent
  BY <1>2
<1>7. LengthAt(s)' = Len(f)
  <2>1. ASSUME NEW k \in 1 .. 4 PROVE OctetAt(s + k)' = f[k]
    <3>1. /\ ~(s + k <= Len(taken))
          /\ s + k - Len(taken) = Len(wire) + k
          /\ Len(wire) + k \in 1 .. Len(wire) + Len(f)
          /\ ~(Len(wire) + k <= Len(wire)) /\ Len(wire) + k - Len(wire) = k
      BY <1>1, <1>2, <1>6 DEF Sent
    <3>2. OctetAt(s + k)' = wire'[Len(wire) + k]
      BY <1>4, <3>1 DEF OctetAt
    <3> QED BY <1>3, <3>1, <3>2
  <2>2. /\ OctetAt(s + 1)' = f[1] /\ OctetAt(s + 2)' = f[2]
        /\ OctetAt(s + 3)' = f[3] /\ OctetAt(s + 4)' = f[4]
    BY <2>1
  <2> HIDE DEF OctetAt
  <2> QED BY <1>1, <2>2 DEF LengthAt, get_command_length
<1> HIDE DEF Starts, Sent, OctetAt, LengthAt
<1>8. Sent \in Starts /\ \A p \in Starts : p <= Sent
  BY <1>4 DEF PdusInARow
<1>9. ASSUME NEW p \in Starts, p # Sent
      PROVE  \E q \in ends' : OnePdu(p, q)'
  <2>1. p \in Nat /\ base \in Nat /\ p < Sent /\ base <= p
    BY <1>2, <1>8, <1>9 DEF PdusInARow
  <2>2. Sent \in ends
    BY <1>2, <1>8, <2>1 DEF Starts
  <2>3. PICK q \in ends : OnePdu(p, q)
    BY <2>1, <2>2, <1>2 DEF PdusInARow
  <2>4. q \in Nat /\ q <= Sent /\ p + 4 <= Sent
    BY <1>2, <1>8, <2>1, <2>3 DEF OnePdu, MIN_PDU_LENGTH
  <2>5. LengthAt(p)' = q - p
    <3>1. \A i \in p + 1 .. p + 4 : OctetAt(i)' = OctetAt(i)
      BY <1>2, <1>5, <2>1, <2>4
    <3>2. LengthAt(p)' = LengthAt(p)
      BY <2>1, <3>1, LengthStays
    <3> QED BY <2>3, <2>4, <3>2 DEF OnePdu
  <2>6. \A e \in ends' : e > p => e >= q
    BY <1>1, <1>2, <1>4, <2>3, <2>4 DEF OnePdu
  <2> QED BY <1>4, <2>3, <2>5, <2>6 DEF OnePdu
<1>10. PICK t \in Nat : t = E
  BY <1>1, <1>2
<1>11. OnePdu(s, t)'
  <2>1. t >= s + 16 /\ t - s = Len(f)
    BY <1>1, <1>6, <1>10
  <2>2. \A e \in ends' : e > s => e >= t
    BY <1>2, <1>4, <1>6, <1>8, <1>10, <2>1
  <2> QED BY <1>7, <2>1, <2>2 DEF OnePdu, MIN_PDU_LENGTH
<1> HIDE DEF E
<1>12. t \in ends' /\ t \in Starts' /\ Sent' = t /\ t >= s + 16
  BY <1>1, <1>4, <1>6, <1>10 DEF E
<1>13. ASSUME NEW p \in Starts'
       PROVE  base <= p /\ ((\A e \in ends' : e <= p)
                              \/ \E q \in ends' : OnePdu(p, q)')
  <2>1. CASE p \in Starts /\ p # Sent
    BY <1>9, <2>1 DEF PdusInARow
  <2>2. CASE p = s
    BY <1>6, <1>8, <1>11, <1>12, <2>2 DEF PdusInARow
  <2>3. CASE p = t
    <3>1. \A e \in ends' : e <= t
      BY <1>2, <1>4, <1>6, <1>8, <1>10, <1>12
    <3>2. base <= t
      BY <1>2, <1>6, <1>8, <1>12
    <3> QED BY <2>3, <3>1, <3>2
  <2> QED BY <1>4, <1>6, <1>10, <2>1, <2>2, <2>3
<1>14. \A p \in Starts' : p <= t
  BY <1>2, <1>4, <1>6, <1>8, <1>10, <1>12
<1> QED BY <1>4, <1>12, <1>13, <1>14 DEF PdusInARow
(* With four octets of it there, the first PDU of the buffer has the       *)
(* length that Read computes.                                              *)
LEMMA FirstPdu ==
  ASSUME FramerInv, PdusInARow, Cut \in Starts, Len(m_readNetBuffer) >= 4
  PROVE  \E q \in ends : /\ OnePdu(Cut, q)
                         /\ get_command_length(m_readNetBuffer) = q - Cut
<1>1. /\ Sent \in Nat /\ Len(taken) \in Nat /\ Len(taken) <= Sent
      /\ Cut \in Nat /\ Cut <= Len(taken) /\ Starts \subseteq Nat
      /\ taken \in Seq(Octet)
  BY StreamIsTyped, CutInStream DEF FramerInv, TypeOK
<1>2. /\ m_readNetBuffer = SubSeq(taken, Cut + 1, Len(taken))
      /\ Len(m_readNetBuffer) = Len(taken) - Cut
      /\ \A i \in 1 .. Len(taken) - Cut : m_readNetBuffer[i] = taken[Cut + i]
  <2>1. m_readNetBuffer = SubSeq(taken, Cut + 1, Len(taken))
    BY DEF FramerInv, PiecesOfTheStream
  <2> QED BY <1>1, <2>1, RestOfStream
<1>3. Cut + 4 <= Len(taken)
  BY <1>1, <1>2
<1>4. PICK q \in ends : OnePdu(Cut, q)
  <2>1. PICK p \in Starts : Sent <= p
    BY DEF PdusInARow
  <2>2. p \in ends /\ p > Cut
    <3>1. p > Cut /\ p \in Nat
      BY <1>1, <1>3, <2>1
    <3>2. base <= Cut /\ base \in Nat
      BY DEF PdusInARow, FramerInv, TypeOK
    <3> QED BY <1>1, <3>1, <3>2 DEF Starts
  <2>3. ~ \A e \in ends : e <= Cut
    BY <1>1, <2>1, <2>2
  <2> QED BY <2>3 DEF PdusInARow
<1>5. get_command_length(m_readNetBuffer) = LengthAt(Cut)
  <2>1. ASSUME NEW k \in 1 .. 4 PROVE OctetAt(Cut + k) = m_readNetBuffer[k]
    BY <1>1, <1>2, <1>3 DEF OctetAt
  <2>2. /\ OctetAt(Cut + 1) = m_readNetBuffer[1]
        /\ OctetAt(Cut + 2) = m_readNetBuffer[2]
        /\ OctetAt(Cut + 3) = m_readNetBuffer[3]
        /\ OctetAt(Cut + 4) = m_readNetBuffer[4]
    BY <2>1
  <2> HIDE DEF OctetAt
  <2> QED BY <2>2 DEF LengthAt, get_command_length
<1>6. LengthAt(Cut) = q - Cut
  <2>1. Cut + 4 <= Sent
    BY <1>1, <1>3
  <2> QED BY <1>4, <2>1 DEF OnePdu
<1> QED BY <1>4, <1>5, <1>6

LEMMA FieldIsLength ==
  ASSUME NEW b \in Seq(Octet), NEW g, Len(b) >= 4
  PROVE  LengthField(b, g) = get_command_length(b)
<1> DEFINE h == [i \in 1 .. 4 |-> IF i <= Len(b) THEN b[i] ELSE g[i]]
<1>1. h[1] = b[1] /\ h[2] = b[2] /\ h[3] = b[3] /\ h[4] = b[4]
  BY LenProperties
<1>2. LengthField(b, g) = get_command_length(h)
  BY DEF LengthField
<1> HIDE DEF h
<1> QED BY <1>1, <1>2 DEF get_command_length

(* A length that was not misread is the true one, or fits nothing.         *)
LEMMA LengthBecomesTrue ==
  ASSUME NEW g, m_readNetBuffer' \in Seq(Octet),
         requireBytes' = LengthField(m_readNetBuffer', g),
         aligned' = (aligned /\ ~Misread(m_readNetBuffer', requireBytes'))
  PROVE  aligned' => aligned /\ LengthIsTrue'
<1>1. CASE Len(m_readNetBuffer') >= 4
  <2>1. requireBytes' = get_command_length(m_readNetBuffer')
    BY <1>1, FieldIsLength
  <2> QED BY <1>1, <2>1 DEF LengthIsTrue
<1>2. CASE ~(Len(m_readNetBuffer') >= 4)
  <2>1. Len(m_readNetBuffer') < 4
    BY <1>2, LenProperties
  <2>2. aligned' => aligned /\ ~Whole(requireBytes', m_readNetBuffer')
    BY <2>1 DEF Misread
  <2>3. (~Whole(requireBytes, m_readNetBuffer))'
           = ~Whole(requireBytes', m_readNetBuffer')
    BY DEF Whole
  <2> QED BY <1>2, <2>2, <2>3 DEF LengthIsTrue
<1> QED BY <1>1, <1>2

(* The inductive invariant. *)
CutsInv == FramerInv /\ PdusInARow /\ InStep /\ CutsAreEnds

(* A PDU is cut off where the SMSC ended it.                               *)
LEMMA SplitAtTheEnd ==
  ASSUME CutsInv, aligned, Split
  PROVE  InStep' /\ CutsAreEnds'
<1> DEFINE z == Len(cuts)
<1>1. /\ z \in Nat /\ Cut \in Nat /\ Cut \in Starts /\ pc = "split"
      /\ requireBytes \in Nat /\ base \in Nat /\ ends \subseteq Nat
  BY CutInStream, LenProperties
     DEF CutsInv, FramerInv, TypeOK, InStep, Split
<1>2. Len(m_readNetBuffer) >= 4
      /\ requireBytes = get_command_length(m_readNetBuffer)
  <2>1. Len(m_readNetBuffer) \in Nat
    BY LenProperties DEF CutsInv, FramerInv, TypeOK
  <2> QED BY <1>1, <2>1 DEF CutsInv, InStep, LengthIsTrue, Split
<1>3. PICK q \in ends : OnePdu(Cut, q) /\ requireBytes = q - Cut
  BY <1>1, <1>2, FirstPdu DEF CutsInv
<1>4. q \in Nat /\ q = Cut + requireBytes /\ q > Cut
      /\ \A e \in ends : e > Cut => e >= q
  BY <1>1, <1>3 DEF OnePdu, MIN_PDU_LENGTH
<1>5. /\ cuts' \in Seq(Nat) /\ Len(cuts') = z + 1 /\ cuts'[z + 1] = q
      /\ \A i \in 1 .. z : cuts'[i] = cuts[i]
  BY <1>1, <1>4, AppendProperties DEF CutsInv, FramerInv, TypeOK, Split
<1>6. Cut' = q
  BY <1>1, <1>5, EmptySeq DEF Cut
<1>7. base' = base /\ ends' = ends /\ aligned' = aligned /\ pc' = "post"
  BY DEF Split, streamVars
<1>8. base <= Cut
  BY <1>1 DEF CutsInv, PdusInARow
<1>9. DOMAIN cuts = 1 .. z /\ DOMAIN cuts' = 1 .. z + 1
  BY <1>5, LenProperties DEF CutsInv, FramerInv, TypeOK
<1>10. {cuts'[i] : i \in {j \in DOMAIN cuts' : cuts'[j] > base}}
         = {cuts[i] : i \in {j \in DOMAIN cuts : cuts[j] > base}} \union {q}
  <2>1. ASSUME NEW i \in 1 .. z + 1, cuts'[i] > base
        PROVE  cuts'[i] = q \/ (i \in 1 .. z /\ cuts'[i] = cuts[i])
    <3>1. i = z + 1 \/ i \in 1 .. z
      BY <1>1
    <3> QED BY <1>5, <3>1
  <2>2. ASSUME NEW i \in 1 .. z, cuts[i] > base
        PROVE  i \in 1 .. z + 1 /\ cuts'[i] = cuts[i]
    BY <1>1, <1>5
  <2>3. z + 1 \in 1 .. z + 1 /\ cuts'[z + 1] = q /\ q > base
    BY <1>1, <1>4, <1>5, <1>8
  <2> HIDE DEF z
  <2> QED BY <1>9, <2>1, <2>2, <2>3
<1>11. {cuts[i] : i \in {j \in DOMAIN cuts : cuts[j] > base}}
         = {e \in ends : e <= Cut}
  BY DEF CutsInv, CutsAreEnds, CutWhereTheyEnd
<1>12. {e \in ends : e <= q} = {e \in ends : e <= Cut} \union {q}
  <2>1. \A e \in ends : e <= q <=> e <= Cut \/ e = q
    <3> SUFFICES ASSUME NEW e \in ends PROVE e <= q <=> e <= Cut \/ e = q
      OBVIOUS
    <3>1. e \in Nat /\ (e > Cut => e >= q)
      BY <1>1, <1>4
    <3> QED BY <1>1, <1>4, <3>1
  <2> QED BY <2>1
<1>13. CutWhereTheyEnd'
  BY <1>6, <1>7, <1>10, <1>11, <1>12 DEF CutWhereTheyEnd
<1>14. InStep'
  BY <1>6, <1>7 DEF InStep, LengthIsTrue, Starts
<1>15. NothingHeldBack'
  BY <1>7 DEF NothingHeldBack
<1> QED BY <1>13, <1>14, <1>15 DEF CutsAreEnds

(* Read returns only when the next PDU is not all there.                   *)
LEMMA ReturnsWithNothing ==
  ASSUME CutsInv, ReadReturns
  PROVE  NothingHeldBack'
<1> SUFFICES ASSUME aligned, NEW e \in ends, e <= Len(taken), ~(e <= Cut)
             PROVE  FALSE
  BY DEF ReadReturns, NothingHeldBack, Cut, streamVars
<1>1. /\ Cut \in Starts /\ LengthIsTrue /\ pc = "split"
      /\ ~Whole(requireBytes, m_readNetBuffer)
  BY DEF CutsInv, InStep, ReadReturns
<1>2. /\ Cut \in Nat /\ Cut <= Len(taken) /\ Len(taken) \in Nat
      /\ e \in Nat /\ Sent \in Nat /\ taken \in Seq(Octet)
  BY CutInStream, StreamIsTyped DEF CutsInv, FramerInv, TypeOK
<1>3. Len(m_readNetBuffer) = Len(taken) - Cut
  <2>1. m_readNetBuffer = SubSeq(taken, Cut + 1, Len(taken))
    BY DEF CutsInv, FramerInv, PiecesOfTheStream
  <2> QED BY <1>2, <2>1, RestOfStream
<1>4. PICK r \in ends : OnePdu(Cut, r)
  BY <1>1, <1>2 DEF CutsInv, PdusInARow
<1>5. r \in Nat /\ r <= e /\ r >= Cut + 16
  BY <1>2, <1>4 DEF OnePdu, MIN_PDU_LENGTH, CutsInv, FramerInv, TypeOK
<1>6. Len(m_readNetBuffer) >= 4
  BY <1>2, <1>3, <1>5
<1>7. PICK q \in ends : /\ OnePdu(Cut, q)
                        /\ get_command_length(m_readNetBuffer) = q - Cut
  BY <1>1, <1>6, FirstPdu DEF CutsInv
<1>8. q \in Nat /\ q <= e /\ q > Cut
  BY <1>2, <1>7 DEF OnePdu, MIN_PDU_LENGTH, CutsInv, FramerInv, TypeOK
<1>9. requireBytes = q - Cut
  BY <1>1, <1>6, <1>7 DEF LengthIsTrue
<1> QED BY <1>1, <1>2, <1>3, <1>8, <1>9 DEF Whole

LEMMA CutsInvStep ==
  ASSUME CutsInv, [Next]_vars
  PROVE  CutsInv'
<1> USE DEF connVars, boundVars, streamVars
<1>1. FramerInv'
  BY FramerInvStep DEF CutsInv
<1>2. /\ TypeOK /\ PdusInARow /\ Sent \in Nat /\ Len(taken) \in Nat
      /\ Len(wire) \in Nat /\ Len(taken) <= Sent /\ Starts \subseteq Nat
      /\ Cut \in Nat /\ Cut <= Len(taken)
      /\ wire \in Seq(Octet) /\ taken \in Seq(Octet)
  BY StreamIsTyped, CutInStream DEF CutsInv, FramerInv, TypeOK
<1>3. ASSUME UNCHANGED <<wire, taken, base, ends, peer>>
      PROVE  PdusInARow'
  BY <1>2, <1>3 DEF PdusInARow, OnePdu, Starts, Sent, LengthAt, OctetAt
<1>4. ASSUME UNCHANGED <<cuts, ends, base>>, aligned' => aligned,
             aligned' => LengthIsTrue',
             pc' = "select" => pc = "select" /\ taken' = taken
      PROVE  InStep' /\ CutsAreEnds'
  BY <1>4 DEF CutsInv, InStep, CutsAreEnds, CutWhereTheyEnd, NothingHeldBack,
     Cut, Starts
<1>5. ASSUME UNCHANGED <<cuts, ends, base, aligned, pc, taken,
                         m_readNetBuffer, requireBytes>>
      PROVE  InStep' /\ CutsAreEnds'
  BY <1>5 DEF CutsInv, InStep, CutsAreEnds, CutWhereTheyEnd, NothingHeldBack,
     Cut, Starts, LengthIsTrue
<1>6. ASSUME NEW f \in Frames, SmscSend(f) PROVE CutsInv'
  <2>1. PdusInARow'
    BY <1>2, <1>6, RowGrows
  <2>2. Len(f) \in Nat /\ Len(f) >= 16 /\ Sent = Len(taken) + Len(wire)
    BY FramerAssumption, LenProperties
       DEF FramerAssumption, MIN_PDU_LENGTH, Sent
  <2>3. PICK E \in Nat : E = Sent + Len(f)
    BY <1>2, <2>2
  <2>4. /\ ends' = ends \union {E} /\ E > Len(taken) /\ E > Cut
        /\ UNCHANGED <<cuts, base, aligned, pc, taken, m_readNetBuffer,
                       requireBytes>>
    BY <1>2, <1>6, <2>2, <2>3 DEF SmscSend
  <2>5. Cut' = Cut /\ Starts \subseteq Starts' /\ LengthIsTrue' = LengthIsTrue
    BY <2>4 DEF Cut, Starts, LengthIsTrue
  <2>6. InStep'
    BY <2>4, <2>5 DEF CutsInv, InStep
  <2>7. {e \in ends' : e <= Cut'} = {e \in ends : e <= Cut}
    BY <1>2, <2>4, <2>5
  <2>8. CutWhereTheyEnd'
    BY <2>4, <2>7 DEF CutsInv, CutsAreEnds, CutWhereTheyEnd
  <2>9. NothingHeldBack'
    BY <1>2, <2>4, <2>5 DEF CutsInv, CutsAreEnds, NothingHeldBack
  <2> QED BY <1>1, <2>1, <2>6, <2>8, <2>9 DEF CutsInv, CutsAreEnds
<1>7. CASE ConnectionEnds
  <2>1. PICK n \in 0 .. Len(wire) : wire' = SubSeq(wire, 1, n)
    BY <1>7 DEF ConnectionEnds
  <2>2. Len(wire') = n /\ \A i \in 1 .. n : wire'[i] = wire[i]
    <3>1. \A i \in 1 .. n : wire[i] \in Octet
      BY <1>2, <2>1, ElementOfSeq
    <3> QED BY <1>2, <2>1, <3>1, SubSeqProperties
  <2>3. taken' = taken /\ peer' = "ended" /\ UNCHANGED <<base, ends>>
    BY <1>7 DEF ConnectionEnds
  <2>4. /\ Sent' \in Nat /\ Sent' <= Sent
        /\ \A i \in 1 .. Sent' : OctetAt(i)' = OctetAt(i)
    BY <1>2, <2>1, <2>2, <2>3 DEF Sent, OctetAt
  <2>5. PdusInARow'
    BY <1>2, <2>3, <2>4, RowStays
  <2> QED BY <1>1, <1>5, <1>7, <2>5 DEF CutsInv, ConnectionEnds
<1>8. ASSUME NEW g \in [1 .. 4 -> Junk], NEW n \in 1 .. Available,
             Receive(n, g)
      PROVE  CutsInv'
  <2>1. n \in 0 .. Len(wire)
    BY <1>2, FramerAssumption DEF Available
  <2>2. /\ SubSeq(wire, 1, n) \in Seq(Octet)
        /\ Len(SubSeq(wire, 1, n)) = n
        /\ \A i \in 1 .. n : SubSeq(wire, 1, n)[i] = wire[i]
    <3>1. \A i \in 1 .. n : wire[i] \in Octet
      BY <1>2, <2>1, ElementOfSeq
    <3> QED BY <1>2, <2>1, <3>1, SubSeqProperties
  <2>3. /\ Len(wire') = Len(wire) - n
        /\ \A i \in 1 .. Len(wire) - n : wire'[i] = wire[n + i]
    BY <1>2, <1>8, <2>1, RestOfStream DEF Receive
  <2>4. /\ Len(taken') = Len(taken) + n
        /\ \A i \in 1 .. Len(taken) + n :
             taken'[i] = IF i <= Len(taken) THEN taken[i]
                         ELSE wire[i - Len(taken)]
    <3> DEFINE t == SubSeq(wire, 1, n)
    <3>1. t \in Seq(Octet) /\ Len(t) = n /\ taken' = taken \o t
          /\ \A i \in 1 .. n : t[i] = wire[i]
      BY <1>8, <2>2 DEF Receive
    <3> HIDE DEF t
    <3>2. /\ Len(taken \o t) = Len(taken) + Len(t)
          /\ \A i \in 1 .. Len(taken) + Len(t) :
               (taken \o t)[i] = IF i <= Len(taken) THEN taken[i]
                                 ELSE t[i - Len(taken)]
      BY <1>2, <3>1, ConcatProperties
    <3>3. ASSUME NEW i \in 1 .. Len(taken) + n, ~(i <= Len(taken))
          PROVE  t[i - Len(taken)] = wire[i - Len(taken)]
      BY <1>2, <2>1, <3>1, <3>3
    <3> QED BY <3>1, <3>2, <3>3
  <2>5. Sent' = Sent
    BY <1>2, <2>1, <2>3, <2>4 DEF Sent
  <2>6. ASSUME NEW i \in 1 .. Sent PROVE OctetAt(i)' = OctetAt(i)
    <3>1. CASE i <= Len(taken) + n
      BY <1>2, <2>1, <2>4, <3>1 DEF OctetAt
    <3>2. CASE ~(i <= Len(taken) + n)
      <4>1. /\ i - (Len(taken) + n) \in 1 .. Len(wire) - n
            /\ n + (i - (Len(taken) + n)) = i - Len(taken)
            /\ ~(i <= Len(taken))
        BY <1>2, <2>1, <3>2 DEF Sent
      <4> QED BY <2>3, <2>4, <3>2, <4>1 DEF OctetAt
    <3> QED BY <3>1, <3>2
  <2>7. UNCHANGED <<base, ends, peer, cuts>> /\ pc' = "split"
    BY <1>8 DEF Receive
  <2>8. PdusInARow'
    BY <1>2, <2>5, <2>6, <2>7, RowStays
  <2>9. m_readNetBuffer' \in Seq(Octet) /\ Len(m_readNetBuffer') \in Nat
    BY <1>1, LenProperties DEF FramerInv, TypeOK
  <2>10. aligned' => aligned /\ LengthIsTrue'
    <3>1. /\ requireBytes' = LengthField(m_readNetBuffer', g)
          /\ aligned' = (aligned /\ ~Misread(m_readNetBuffer', requireBytes'))
      BY <1>8 DEF Receive
    <3> QED BY <2>9, <3>1, LengthBecomesTrue
  <2> QED BY <1>1, <1>4, <2>7, <2>8, <2>10 DEF CutsInv
<1>9. ASSUME NEW g \in [1 .. 4 -> Junk], Post(g) PROVE CutsInv'
  <2>1. m_readNetBuffer \in Seq(Octet) /\ Len(m_readNetBuffer) \in Nat
        /\ (m_readNetBuffer = << >> <=> Len(m_readNetBuffer) = 0)
    BY LenProperties, EmptySeq DEF CutsInv, FramerInv, TypeOK
  <2>2. aligned' => aligned /\ LengthIsTrue'
    <3>1. /\ requireBytes' = IF m_readNetBuffer = << >> THEN 0
                             ELSE LengthField(m_readNetBuffer, g)
          /\ aligned' = (aligned /\ ~Misread(m_readNetBuffer, requireBytes'))
          /\ m_readNetBuffer' = m_readNetBuffer
      BY <1>9 DEF Post
    <3>2. CASE m_readNetBuffer = << >>
      <4>1. ~(Len(m_readNetBuffer') >= 4) /\ requireBytes' = 0
        BY <2>1, <3>1, <3>2
      <4>2. LengthIsTrue'
        BY <4>1 DEF LengthIsTrue, Whole
      <4>3. aligned' => aligned
        BY <3>1
      <4> QED BY <4>2, <4>3
    <3>3. CASE m_readNetBuffer # << >>
      <4>1. /\ m_readNetBuffer' \in Seq(Octet)
            /\ requireBytes' = LengthField(m_readNetBuffer', g)
            /\ aligned' = (aligned
                             /\ ~Misread(m_readNetBuffer', requireBytes'))
        BY <2>1, <3>1, <3>3
      <4> QED BY <4>1, LengthBecomesTrue
    <3> QED BY <3>2, <3>3
  <2> QED BY <1>1, <1>3, <1>4, <1>9, <2>2 DEF CutsInv, Post
<1>10. CASE Split
  <2>1. CASE aligned
    BY <1>1, <1>3, <1>10, <2>1, SplitAtTheEnd DEF CutsInv, Split
  <2>2. CASE ~aligned
    BY <1>1, <1>3, <1>10, <2>2
       DEF CutsInv, Split, InStep, CutsAreEnds, CutWhereTheyEnd,
           NothingHeldBack
  <2> QED BY <2>1, <2>2
<1>11. CASE ReadReturns
  <2>1. NothingHeldBack'
    BY <1>11, ReturnsWithNothing
  <2>2. InStep' /\ CutWhereTheyEnd'
    BY <1>11 DEF CutsInv, ReadReturns, InStep, CutsAreEnds, CutWhereTheyEnd,
       LengthIsTrue, Cut, Starts
  <2> QED
    BY <1>1, <1>3, <1>11, <2>1, <2>2 DEF CutsInv, CutsAreEnds, ReadReturns
<1>12. CASE Reconnect
  <2>1. /\ base' = Len(taken) /\ ends' = {} /\ wire' = << >>
        /\ taken' = taken /\ cuts' = cuts /\ pc' = pc
        /\ m_readNetBuffer' = m_readNetBuffer
        /\ requireBytes' = requireBytes
        /\ aligned' = (m_readNetBuffer = << >>)
    BY <1>12 DEF Reconnect
  <2>2. Starts' = {Len(taken)} /\ Sent' = Len(taken) /\ Cut' = Cut
    BY <1>2, <2>1, EmptySeq DEF Starts, Sent, Cut
  <2>3. PdusInARow'
    BY <1>2, <2>1, <2>2 DEF PdusInARow
  <2>4. Cut = Len(taken) - Len(m_readNetBuffer)
        /\ m_readNetBuffer \in Seq(Octet) /\ requireBytes \in Nat
    <3>1. m_readNetBuffer = SubSeq(taken, Cut + 1, Len(taken))
      BY DEF CutsInv, FramerInv, PiecesOfTheStream
    <3>2. Len(m_readNetBuffer) = Len(taken) - Cut
      BY <1>2, <3>1, RestOfStream
    <3> QED BY <1>2, <3>2 DEF TypeOK
  <2>5. aligned' => Len(m_readNetBuffer) = 0
    BY <2>1, EmptySeq
  <2>6. InStep'
    BY <1>2, <2>1, <2>2, <2>4, <2>5 DEF InStep, LengthIsTrue, Whole
  <2>7. {cuts'[i] : i \in {j \in DOMAIN cuts' : cuts'[j] > base'}} = {}
    <3>1. DOMAIN cuts = 1 .. Len(cuts) /\ cuts \in Seq(Nat)
      BY <1>2, LenProperties DEF TypeOK
    <3>2. \A j \in DOMAIN cuts : cuts[j] <= Len(taken) /\ cuts[j] \in Nat
      BY <3>1, ElementOfSeq DEF CutsInv, FramerInv, CutsInStream
    <3> QED BY <1>2, <2>1, <3>2
  <2>8. CutsAreEnds'
    BY <2>1, <2>7 DEF CutsAreEnds, CutWhereTheyEnd, NothingHeldBack
  <2> QED BY <1>1, <2>3, <2>6, <2>8 DEF CutsInv
<1>13. CASE ReadEnds \/ WriteFails \/ OnReceivePdu \/ UNCHANGED vars
  BY <1>1, <1>3, <1>5, <1>13
     DEF CutsInv, ReadEnds, WriteFails, OnReceivePdu, vars
<1> QED
  BY <1>6, <1>7, <1>8, <1>9, <1>10, <1>11, <1>12, <1>13
     DEF Next, Read, Waiting

(* On a connection that was opened with an empty buffer, and as long as no *)
(* octet behind the buffer was taken for a fitting length, PDUs are cut    *)
(* where the SMSC ended them, all that have been read, and nowhere else:   *)
(* in whatever portions read() returns them.                               *)
THEOREM PdusAreCutOut == Spec => []CutsAreEnds
<1>1. Init => CutsInv
  <2> SUFFICES ASSUME Init PROVE CutsInv
    OBVIOUS
  <2>1. FramerInv
    BY TypeOKInit DEF Init, FramerInv, CutsInStream, PiecesOfTheStream, Cut
  <2>2. Sent = 0 /\ Starts = {0} /\ Cut = 0
    BY EmptySeq DEF Init, Sent, Starts, Cut
  <2>3. PdusInARow
    BY <2>2 DEF Init, PdusInARow
  <2>4. InStep
    BY <2>2 DEF Init, InStep, LengthIsTrue
  <2>5. CutsAreEnds
    BY DEF Init, CutsAreEnds, CutWhereTheyEnd, NothingHeldBack
  <2> QED BY <2>1, <2>3, <2>4, <2>5 DEF CutsInv
<1>2. CutsInv /\ [Next]_vars => CutsInv'
  BY CutsInvStep
<1>3. CutsInv => CutsAreEnds
  BY DEF CutsInv
<1> QED BY <1>1, <1>2, <1>3, PTL DEF Spec
=============================================================================
