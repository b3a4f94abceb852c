------------------------------ MODULE SmppPdu ------------------------------
(***************************************************************************)
(* One object of a PDU class: its constructors, setters, TLV operations,   *)
(* encode and decode.                                                      *)
(*                                                                         *)
(* The library never computes command_length from the members: it starts   *)
(* at MinLength and every operation adds or subtracts what it believes to  *)
(* have changed.  encode() allocates command_length octets and writes the  *)
(* members one after the other; decode() takes them apart again, checking  *)
(* its offset against the received command_length.  The three must agree   *)
(* for every sequence of calls.                                            *)
(*                                                                         *)
(* A string is its length, an octet a small number, a TLV its tag and      *)
(* length.  The frame that encode writes is a sequence of octets, in which *)
(* NUL is 0 and any other character is Char; command_id, command_status    *)
(* and sequence_number are twelve zero octets.  An object decodes once,    *)
(* when it is new: that is the constructor from a buffer, and what the     *)
(* ESME does with its default-constructed SubmitSmResp and DeliverSm.      *)
(***************************************************************************)
EXTENDS Integers, Sequences, SequencesExt, FiniteSetsExt, Functions

CONSTANTS
  Layout,        \* [class -> its members and their order], see SmppLayouts
  Lengths,       \* lengths tried for a string or an address, see LimitOf
  TlvLengths,    \* lengths tried for a TLV value
  TextLengths,   \* lengths tried for a short_message
  SmsLengths,    \* lengths of a campaign's text in octets, and of its
  UcsLengths,    \* UCS2 form, see Texts
  ListLimit,     \* entries of an address list (255 in the code)
  MaxCalls       \* bound: mutating calls on one object

VARIABLES
  pdu,       \* the object, or None
  meddled,   \* ghost: a mandatory TLV was inserted or removed by hand
  sms,       \* ghost: the text and coding the PDU was built for, or None
  calls      \* mutating calls so far

Kinds == DOMAIN Layout

vars == <<pdu, meddled, sms, calls>>

None == [kind |-> "none"]
Exists == pdu # None

(***************************************************************************)
(* The object.                                                             *)
(***************************************************************************)
message_payload   == 1060
dest_addr_subunit == 5
broadcast_content_type       == 1537
broadcast_rep_num            == 1540
broadcast_frequency_interval == 1541
broadcast_area_identifier    == 1542
broadcast_area_success       == 1544

Tlv(tag, len) == [tag |-> tag, len |-> len]
Octets(tlv)   == tlv.len + 4          \* what a TLV takes in a frame

\* MaxLength of each string type, NUL included.
MaxLength ==
  [system_id |-> 16, password |-> 9, system_type |-> 13, address_range |-> 41,
   service_type |-> 6, message_id |-> 65, schedule_delivery_time |-> 17,
   validity_period |-> 17, final_date |-> 17]
MaxLen       == 21                    \* Address::MaxLen
MaxDataSmLen == 65                    \* Address::MaxDataSmLen

Counted(k) == Layout[k].strings \cup Layout[k].addresses \cup Layout[k].text
Fields(k)  == Counted(k) \cup Layout[k].octets

\* The TLVs the default constructor inserts, in the order of the standard.
MandatoryTlvs(k) ==
  CASE k = "broadcast_sm" ->
         <<Tlv(broadcast_area_identifier, 1), Tlv(broadcast_content_type, 3),
           Tlv(broadcast_rep_num, 2), Tlv(broadcast_frequency_interval, 3)>>
    [] k = "query_broadcast_sm_resp" ->
         <<Tlv(broadcast_area_identifier, 1), Tlv(broadcast_area_success, 1)>>
    [] OTHER -> <<>>

MandatoryTags(k) == {t.tag : t \in Range(MandatoryTlvs(k))}

\* All members empty.  isDefault is defaultBroadcastAreaIdentifier_.
Blank(k) ==
  [kind |-> k, length |-> Layout[k].min, val |-> [f \in Fields(k) |-> 0],
   list |-> <<>>, tlvs |-> <<>>, isDefault |-> FALSE]

\* The flags an entry of the class's address list may have.
EntryFlags(k) ==
  CASE k = "submit_multi"      -> {"sme", "list"}
    [] k = "submit_multi_resp" -> {"unsuccess"}
    [] OTHER                   -> {}

\* What one octet and what two can count.
Uint8  == {n \in Nat : n < 256}
Uint16 == {n \in Nat : n < 65536}

\* What the classes have in common.  No member is empty in a frame, and
\* MinLength is what the header and the empty members take.
WellFormed(k) ==
  LET c == Layout[k]
  IN  /\ c.min \in Nat
      /\ c.strings \subseteq DOMAIN MaxLength
      /\ c.strings \cap (c.addresses \cup c.octets \cup c.text \cup c.list) = {}
      /\ c.addresses \cap (c.octets \cup c.text \cup c.list) = {}
      /\ c.octets \cap (c.text \cup c.list) = {}
      /\ c.text \cap c.list = {}
      /\ IsInjective(c.order)
      /\ Range(c.order) = Fields(k) \cup c.list
      /\ c.min = 16 + Cardinality(c.strings) + 3 * Cardinality(c.addresses)
                 + Cardinality(c.octets \cup c.text \cup c.list)
      /\ c.list = {} <=> EntryFlags(k) = {}
      /\ \A f, g \in c.list : f = g

ASSUME PduAssumption ==
  /\ \A k \in Kinds : Layout[k].order \in Seq(STRING) /\ WellFormed(k)
  \* MultiDestinationAddresses::decode wants two octets after its count.
  /\ \A i \in DOMAIN Layout["submit_multi"].order :
       Layout["submit_multi"].order[i] \in Layout["submit_multi"].list
         => i + 2 <= Len(Layout["submit_multi"].order)
  \* What SendSubmitSm sets.
  /\ "submit_sm" \in Kinds
  /\ {"source_addr", "destination_addr"} \subseteq Layout["submit_sm"].addresses
  /\ {"registered_delivery", "data_coding"} \subseteq Layout["submit_sm"].octets
  /\ "short_message" \in Layout["submit_sm"].text
  /\ Lengths \subseteq Nat
  /\ \A n \in TlvLengths : n \in Nat /\ n + 1 \in Uint16
  /\ TextLengths \subseteq Uint8
  /\ SmsLengths \cup UcsLengths \subseteq Uint16   \* Sms_t::msg has 512 octets
  /\ ListLimit \in Uint8 \ {0}
  /\ MaxCalls \in Nat

InsertTlv(p, tlv) ==
  [p EXCEPT !.tlvs = Append(@, tlv), !.length = @ + Octets(tlv)]

\* Mutant: the length of the removed TLVs stays in command_length.
BugKeepsLength(p, tag) == [p EXCEPT !.tlvs = SelectSeq(@, LAMBDA t : t.tag # tag)]

RemoveTlv(p, tag) ==
  LET visit(q, t) == IF t.tag = tag THEN [q EXCEPT !.length = @ - Octets(t)]
                     ELSE [q EXCEPT !.tlvs = Append(@, t)]
  IN  FoldLeft(visit, [p EXCEPT !.tlvs = <<>>], p.tlvs)

\* insert_after_tlv, insert_before_tlv: they throw when tag is missing, and
\* what was removed before the call stays removed.
InsertAfterTlv(p, tlv, tag) ==
  LET i == SelectLastInSeq(p.tlvs, LAMBDA t : t.tag = tag)
  IN  IF i = 0 THEN p
      ELSE [p EXCEPT !.tlvs = InsertAt(@, i + 1, tlv), !.length = @ + Octets(tlv)]

InsertBeforeTlv(p, tlv, tag) ==
  LET i == SelectInSeq(p.tlvs, LAMBDA t : t.tag = tag)
  IN  IF i = 0 THEN p
      ELSE [p EXCEPT !.tlvs = InsertAt(@, i, tlv), !.length = @ + Octets(tlv)]

\* broadcast_area_identifier(p) of both classes that have one: the identifier
\* of the default constructor is replaced, any other is kept.
AreaIdentifier(p, len) ==
  LET next == MandatoryTlvs(p.kind)[2].tag
      q    == IF p.isDefault
              THEN [RemoveTlv(p, broadcast_area_identifier) EXCEPT !.isDefault = FALSE]
              ELSE p
  IN  InsertBeforeTlv(q, Tlv(broadcast_area_identifier, len), next)

\* Mutant: the new TLV goes to the end of the list.
BugAppends(p, i) ==
  InsertTlv(RemoveTlv(p, MandatoryTlvs(p.kind)[i].tag), MandatoryTlvs(p.kind)[i])

\* The setters of the other mandatory TLVs: the i-th goes after the one the
\* standard lists before it.
SetMandatory(p, i) ==
  LET tlv == MandatoryTlvs(p.kind)[i]
  IN  InsertAfterTlv(RemoveTlv(p, tlv.tag), tlv, MandatoryTlvs(p.kind)[i - 1].tag)

InsertAll(p, tlvs) == FoldLeft(InsertTlv, p, tlvs)

\* The default constructor.
Default(k) ==
  [InsertAll(Blank(k), MandatoryTlvs(k)) EXCEPT !.isDefault = MandatoryTlvs(k) # <<>>]

\* The setter of a member: the new length replaces the old one.
SetLength(p, f, n) == [p EXCEPT !.val[f] = n, !.length = @ + n - p.val[f]]

\* The constructor that takes every mandatory parameter: strings and addresses
\* of n characters, a text of t, octets o.  The one of query_broadcast_sm_resp
\* throws: its first TLV is to be inserted before one that is not there yet.
Constructs(k) == k # "query_broadcast_sm_resp"
Construct(k, n, t, o) ==
  LET c   == Layout[k]
      val == [f \in Fields(k) |-> CASE f \in c.text   -> t
                                    [] f \in c.octets -> o
                                    [] OTHER          -> n]
      p == [Blank(k) EXCEPT !.val = val,
                            !.length = @ + SumFunctionOnSet(val, Counted(k))]
  IN  InsertAll(p, MandatoryTlvs(k))

\* An entry of an address list: those of submit_multi carry a flag, those of
\* its answer an error code.
Entry(flag, n) == [flag |-> flag, len |-> n]
EntryOctets(e) ==
  CASE e.flag = "sme"       -> 1 + (e.len + 3)
    [] e.flag = "list"      -> 1 + (e.len + 1)
    [] e.flag = "unsuccess" -> (e.len + 3) + 4

\* Mutant: the list grows past its limit.
BugNoLimit(p, e) ==
  [p EXCEPT !.list = Append(@, e), !.length = @ + EntryOctets(e)]

\* add() of a list: at the limit nothing is added and 0 returned.
AddEntry(p, e) ==
  IF Len(p.list) < ListLimit
  THEN [p EXCEPT !.list = Append(@, e), !.length = @ + EntryOctets(e)]
  ELSE p

(***************************************************************************)
(* encode.                                                                 *)
(***************************************************************************)
Char == 120
Half(n) == <<(n \div 256) % 256, n % 256>>
Word(n) == Half(n \div 65536) \o Half(n % 65536)
Chars(n) == [i \in 1 .. n |-> Char]
String(n) == Chars(n) \o <<0>>
SmeAddress(n) == <<1, 1>> \o String(n)
Text(n) == <<n % 256>> \o Chars(n)
EncodedEntry(e) ==
  CASE e.flag = "sme"       -> <<1>> \o SmeAddress(e.len)
    [] e.flag = "list"      -> <<2>> \o String(e.len)
    [] e.flag = "unsuccess" -> SmeAddress(e.len) \o Word(0)
EncodedList(list) ==
  <<Len(list)>> \o FlattenSeq([i \in DOMAIN list |-> EncodedEntry(list[i])])
EncodedField(p, f) ==
  LET c == Layout[p.kind]
  IN  CASE f \in c.strings   -> String(p.val[f])
        [] f \in c.addresses -> SmeAddress(p.val[f])
        [] f \in c.octets    -> <<p.val[f]>>
        [] f \in c.text      -> Text(p.val[f])
        [] f \in c.list      -> EncodedList(p.list)
EncodedTlv(t) == Half(t.tag) \o Half(t.len) \o Chars(t.len)

Header(p) == Word(p.length) \o [i \in 1 .. 12 |-> 0]

Encode(p) ==
  LET order == Layout[p.kind].order
  IN  Header(p)
        \o FlattenSeq([i \in DOMAIN order |-> EncodedField(p, order[i])])
        \o FlattenSeq([i \in DOMAIN p.tlvs |-> EncodedTlv(p.tlvs[i])])

(***************************************************************************)
(* decode.  off is the offset of the code: b[off + 1] is buff[off].  What  *)
(* is read beyond the frame's end is unknown, but whatever it is, the      *)
(* check after it throws; OctetAt and LengthAt then give any value.        *)
(***************************************************************************)
OctetAt(b, off) == IF off < Len(b) THEN b[off + 1] ELSE 0
HalfAt(b, off) == OctetAt(b, off) * 256 + OctetAt(b, off + 1)
LengthAt(b, off) ==
  LET nuls == {i \in off + 1 .. Len(b) : b[i] = 0}
  IN  IF nuls = {} THEN Len(b) ELSE Min(nuls) - 1 - off

Refused == [ok |-> FALSE]

\* Mutant: room for the NUL is not counted.
BugOneTooLong(b, off) ==
  IF Len(b) - off < 3 \/ LengthAt(b, off + 2) > MaxLen THEN Refused
  ELSE [ok |-> TRUE, len |-> LengthAt(b, off + 2)]

\* SmeAddress::decode
AddressAt(b, off) ==
  IF Len(b) - off < 3 \/ LengthAt(b, off + 2) >= MaxLen THEN Refused
  ELSE [ok |-> TRUE, len |-> LengthAt(b, off + 2)]

\* One entry of a list, and MultiDestinationAddresses::decode or
\* UnsuccessSmeColl::decode.
Taken(e, b, off) ==
  IF off + EntryOctets(e) > Len(b) THEN Refused ELSE [ok |-> TRUE, entry |-> e]
TakenSme(flag, sme, b, off) ==
  IF sme.ok THEN Taken(Entry(flag, sme.len), b, off) ELSE Refused
EntryAt(k, b, off) ==
  CASE k = "submit_multi_resp" -> TakenSme("unsuccess", AddressAt(b, off), b, off)
    [] k = "submit_multi" /\ OctetAt(b, off) = 1 ->
         TakenSme("sme", AddressAt(b, off + 1), b, off)
    [] k = "submit_multi" /\ OctetAt(b, off) = 2 ->
         Taken(Entry("list", LengthAt(b, off + 1)), b, off)
    [] OTHER -> Refused

AddTaken(r, e) ==
  IF e.ok THEN [r EXCEPT !.off = @ + EntryOctets(e.entry), !.list = Append(@, e.entry)]
  ELSE Refused
ListAt(k, b, off) ==
  LET least == IF k = "submit_multi" THEN 3 ELSE 1
      next(r) == IF r.ok THEN AddTaken(r, EntryAt(k, b, r.off)) ELSE Refused
      upTo[i \in 0 .. OctetAt(b, off)] ==      \* after the first i entries
        IF i = 0 THEN [ok |-> TRUE, off |-> off + 1, list |-> <<>>]
        ELSE next(upTo[i - 1])
  IN  IF Len(b) - off < least THEN Refused ELSE upTo[OctetAt(b, off)]

\* Mutant: a TLV whose value is cut short is taken.
BugShortValue(r, b) ==
  LET left == Len(b) - r.off
      tlv  == Tlv(HalfAt(b, r.off), HalfAt(b, r.off + 2))
  IN  CASE ~r.ok \/ left <= 0 -> r
        [] r.ok /\ left \in 1 .. 3 -> Refused
        [] OTHER -> [r EXCEPT !.off = @ + Octets(tlv), !.tlvs = Append(@, tlv)]

\* decode_tlvs: the next TLV, if there is one, and all of them.  None takes
\* less than four octets.
NextTlv(r, b) ==
  LET left == Len(b) - r.off
      tlv  == Tlv(HalfAt(b, r.off), HalfAt(b, r.off + 2))
  IN  CASE ~r.ok \/ left = 0 -> r
        [] r.ok /\ left # 0 /\ (left < 4 \/ left - 4 < tlv.len) -> Refused
        [] OTHER -> [r EXCEPT !.off = @ + Octets(tlv), !.tlvs = Append(@, tlv)]
TlvsAt(b, start) ==
  LET upTo[i \in 0 .. Len(b) \div 4] ==
        IF i = 0 THEN [ok |-> TRUE, off |-> start, tlvs |-> <<>>]
        ELSE NextTlv(upTo[i - 1], b)
  IN  upTo[Len(b) \div 4]

\* One member at off: its value and the octets it takes.
Field(value, octets) == [ok |-> TRUE, value |-> value, octets |-> octets]
StringField(f, n) == IF n >= MaxLength[f] THEN Refused ELSE Field(n, n + 1)
AddressField(sme) == IF sme.ok THEN Field(sme.len, sme.len + 3) ELSE Refused
FieldAt(c, b, off, f) ==
  CASE f \in c.strings   -> StringField(f, LengthAt(b, off))
    [] f \in c.addresses -> AddressField(AddressAt(b, off))
    [] f \in c.octets    -> Field(OctetAt(b, off), 1)
    [] f \in c.text      -> Field(OctetAt(b, off), OctetAt(b, off) + 1)

\* What is decoded so far, r, with a member or a list that must end in b.
WithField(r, f, field, b) ==
  IF field.ok /\ r.off + field.octets <= Len(b)
  THEN [r EXCEPT !.off = @ + field.octets, !.pdu.val[f] = field.value]
  ELSE Refused
WithList(r, list, b) ==
  IF list.ok /\ list.off <= Len(b)
  THEN [r EXCEPT !.off = list.off, !.pdu.list = list.list]
  ELSE Refused
DecodeField(k, b, r, f) ==
  CASE ~r.ok -> Refused
    [] r.ok /\ f \in Layout[k].list -> WithList(r, ListAt(k, b, r.off), b)
    [] OTHER -> WithField(r, f, FieldAt(Layout[k], b, r.off, f), b)

DecodeFields(k, b) ==
  LET order == Layout[k].order
      upTo[i \in 0 .. Len(order)] ==
        IF i = 0
        THEN [ok |-> TRUE, off |-> 16, pdu |-> [Blank(k) EXCEPT !.length = Len(b)]]
        ELSE DecodeField(k, b, upTo[i - 1], order[i])
  IN  upTo[Len(order)]

\* broadcast_sm insists on its mandatory TLVs, query_broadcast_sm_resp does not.
RequiredTags(k) == IF k = "broadcast_sm" THEN MandatoryTags(k) ELSE {}

\* decode of frame b into a new object of class k: the object or Refused
\* (an exception out of the constructor).  command_length is Len(b).
WithTlvs(p, rest) ==
  IF rest.ok /\ RequiredTags(p.kind) \subseteq {t.tag : t \in Range(rest.tlvs)}
  THEN [ok |-> TRUE, pdu |-> [p EXCEPT !.tlvs = rest.tlvs]]
  ELSE Refused
Finish(r, b) == IF r.ok THEN WithTlvs(r.pdu, TlvsAt(b, r.off)) ELSE Refused
Decode(k, b) == IF Len(b) < 16 THEN Refused ELSE Finish(DecodeFields(k, b), b)

(***************************************************************************)
(* The calls.                                                              *)
(***************************************************************************)
Init == pdu = None /\ meddled = FALSE /\ sms = None /\ calls = 0

Create(p) == ~Exists /\ pdu' = p /\ meddled' = FALSE /\ calls' = 0

DefaultConstructor(k) == Create(Default(k)) /\ sms' = None

\* The longest string or address; only data_sm takes the longer addresses.
AddressLength(k) == IF k = "data_sm" THEN MaxDataSmLen ELSE MaxLen
LimitOf(k, f) ==
  (IF f \in DOMAIN MaxLength THEN MaxLength[f] ELSE AddressLength(k)) - 1

\* A string or address that is too long throws, and there is no object.
MandatoryConstructor(k, n, t, o) ==
  /\ Constructs(k)
  /\ \A f \in Counted(k) \ Layout[k].text : n <= LimitOf(k, f)
  /\ Create(Construct(k, n, t, o))
  /\ sms' = None

\* A mutating call; a PDU that was built for a text is sent as it is.
Call(p) ==
  /\ calls < MaxCalls
  /\ sms = None
  /\ pdu' = p
  /\ calls' = calls + 1
  /\ UNCHANGED sms

\* The setter of a string, address or text.  A length above the type's limit
\* throws before anything is assigned, one of the limit does not.
SetterLengths(k, f) ==
  IF f \in Layout[k].text THEN TextLengths
  ELSE {n \in Lengths : n <= LimitOf(k, f)} \cup {LimitOf(k, f)}
SetMember(f) ==
  \E n \in SetterLengths(pdu.kind, f) :
    /\ Call(SetLength(pdu, f, n))
    /\ UNCHANGED meddled

\* The setter of an octet: it only has to change.
SetOctet(f) ==
  /\ Call([pdu EXCEPT !.val[f] = 1 - @])
  /\ UNCHANGED meddled

\* The lists have a bound of their own and are not counted as calls.  The name
\* of a distribution list is a String of any length.
AddToList(flag, n) ==
  /\ Exists
  /\ flag # "list" => n < MaxLen
  /\ flag \in EntryFlags(pdu.kind)
  /\ pdu' = AddEntry(pdu, Entry(flag, n))
  /\ UNCHANGED <<meddled, sms, calls>>

\* insert_tlv and remove_tlv, with an optional tag or a mandatory one.
Insert(tlv) ==
  /\ Exists
  /\ Call(InsertTlv(pdu, tlv))
  /\ meddled' = (meddled \/ tlv.tag \in MandatoryTags(pdu.kind))

RemoveAll(tag) ==
  /\ Exists
  /\ Call(RemoveTlv(pdu, tag))
  /\ meddled' = (meddled \/ tag \in MandatoryTags(pdu.kind))

SetAreaIdentifier(len) ==
  /\ Exists
  /\ MandatoryTags(pdu.kind) # {}
  /\ Call(AreaIdentifier(pdu, len))
  /\ UNCHANGED meddled

SetMandatoryTlv(i) ==
  /\ Exists
  /\ i \in 2 .. Len(MandatoryTlvs(pdu.kind))
  /\ Call(SetMandatory(pdu, i))
  /\ UNCHANGED meddled

\* Mutant: one octet cannot count 256.
BugOneOff(p, n) ==
  IF n <= 256 THEN SetLength(p, "short_message", n % 256)
  ELSE InsertTlv(p, Tlv(message_payload, n))

\* The text goes into short_message or, if it is too long, into a TLV.
SetText(p, n) ==
  IF n < 256 THEN SetLength(p, "short_message", n % 256)
  ELSE InsertTlv(p, Tlv(message_payload, n))

Unicode == 8     \* the data codings the ESME sets
Flash   == 240
Codings == {0, Unicode, Flash}

\* An SMS's text: its octets, and the octets of its UCS2 form, two for every
\* one to three of UTF-8; NoForm if a character was cut in two on the way
\* here (strncpy) or has no UCS2 form.
NoForm == -1
Texts ==
  {t \in [octets : SmsLengths, ucs2 : UcsLengths \cup {NoForm}] :
     \/ t.ucs2 = NoForm /\ t.octets > 0
     \/ \E c \in 0 .. t.octets : t.octets <= 3 * c /\ t.ucs2 = 2 * c}

\* The length to send.  iconv fails for a text without a form and for one
\* that does not fit in ucs2_data.
UcsRoom == 512
Converted(text, coding) ==
  IF coding # Unicode THEN text.octets
  ELSE IF text.ucs2 <= UcsRoom THEN text.ucs2
  ELSE NoForm

\* Esme::SendSubmitSm.  After a conversion that failed the PDU goes out all
\* the same, without a text.
SendSubmitSm(text, coding) ==
  LET p == SetLength(SetLength(Default("submit_sm"), "source_addr", 4),
                     "destination_addr", 4)
      e == [p EXCEPT !.val["registered_delivery"] = 1,
                     !.val["data_coding"] = coding]
      n == Converted(text, coding)
      q == IF n = NoForm THEN e ELSE SetText(e, n)
      subunit == Tlv(dest_addr_subunit, 1)
  IN  /\ Create(IF coding = Flash THEN InsertTlv(q, subunit) ELSE q)
      /\ sms' = [text |-> text, coding |-> coding]

\* The constructor from a buffer, on the other side of a connection.  It
\* leaves defaultBroadcastAreaIdentifier_ uninitialized.
Receive ==
  LET r == Decode(pdu.kind, Encode(pdu))
  IN  /\ Exists
      /\ r.ok
      /\ \E garbage \in BOOLEAN :
           /\ MandatoryTags(pdu.kind) = {} => ~garbage
           /\ pdu' = [r.pdu EXCEPT !.isDefault = garbage]
      /\ UNCHANGED <<meddled, sms, calls>>

Destroy == Exists /\ pdu' = None /\ meddled' = FALSE /\ sms' = None /\ calls' = 0

OptionalTag == message_payload
Next ==
  \/ \E k \in Kinds : DefaultConstructor(k)
  \/ \E k \in Kinds, n \in Lengths, t \in TextLengths :
       MandatoryConstructor(k, n, t, 1)
  \/ Exists /\ \E f \in Counted(pdu.kind) : SetMember(f)
  \/ Exists /\ \E f \in Layout[pdu.kind].octets : SetOctet(f)
  \/ \E flag \in {"sme", "list", "unsuccess"}, n \in Lengths : AddToList(flag, n)
  \/ Exists /\ \E tag \in MandatoryTags(pdu.kind) \cup {OptionalTag}, n \in TlvLengths :
       Insert(Tlv(tag, n)) \/ RemoveAll(tag)
  \/ \E n \in TlvLengths : SetAreaIdentifier(n + 1)
  \/ \E i \in 2 .. 4 : SetMandatoryTlv(i)
  \/ \E text \in Texts, coding \in Codings : SendSubmitSm(text, coding)
  \/ Receive
  \/ Destroy

Spec == Init /\ [][Next]_vars

(***************************************************************************)
(* Properties.                                                             *)
(***************************************************************************)

\* The object has the members of its class, and an address list never more
\* entries than its limit (the count octet could not tell).
TypeOK ==
  /\ meddled \in BOOLEAN
  /\ sms \in [text : Texts, coding : Codings] \cup {None}
  /\ calls \in 0 .. MaxCalls
  /\ Exists =>
       /\ pdu.kind \in Kinds
       /\ pdu.length \in Nat
       /\ pdu.val \in [Fields(pdu.kind) -> Nat]
       /\ \A i \in DOMAIN pdu.list :
            pdu.list[i].flag \in EntryFlags(pdu.kind) /\ pdu.list[i].len \in Nat
       /\ Len(pdu.list) <= ListLimit
       /\ \A i \in DOMAIN pdu.tlvs : pdu.tlvs[i] \in [tag : Nat, len : Nat]
       /\ pdu.isDefault \in BOOLEAN

\* "The Buffer length is the command_length" (every encode()): whatever was
\* called before, also a setter that threw half-way, the octets written are
\* as many as were allocated.
LengthIsEncoded == Exists => Len(Encode(pdu)) = pdu.length

\* What decode can take: every mandatory TLV of a broadcast_sm and addresses
\* within MaxLen (the long ones of a data_sm are beyond it).
Decodable ==
  /\ RequiredTags(pdu.kind) \subseteq {t.tag : t \in Range(pdu.tlvs)}
  /\ \A f \in Layout[pdu.kind].addresses : pdu.val[f] < MaxLen

\* decode() undoes encode(): the same members, entries and TLVs in the same
\* order, and the same command_length.
RoundTrip ==
  Exists =>
    LET r == Decode(pdu.kind, Encode(pdu))
    IN  /\ r.ok <=> Decodable
        /\ r.ok => [r.pdu EXCEPT !.isDefault = pdu.isDefault] = pdu

\* A frame cut short after n octets, whose command_length says so, is refused
\* unless the cut falls between two TLVs and leaves the required ones: no
\* check of decode() is missing and none is too strict.  The answers that
\* consist of a header (n = 16) are refused by every class with a member.
CutFrame(b, n) == Word(n) \o SubSeq(b, 5, n)
CutsAreRefused ==
  Exists /\ Decodable =>
    LET b == Encode(pdu)
        octets == [i \in DOMAIN pdu.tlvs |-> Octets(pdu.tlvs[i])]
        tlvOctets(S) == SumFunctionOnSet(octets, S)
        body == Len(b) - tlvOctets(DOMAIN pdu.tlvs)
        first(n) == {i \in DOMAIN pdu.tlvs : body + tlvOctets(1 .. i) <= n}
        between(n) == n >= body /\ n = body + tlvOctets(first(n))
    IN  \A n \in 4 .. Len(b) - 1 :
          Decode(pdu.kind, CutFrame(b, n)).ok
            <=> /\ between(n)
                /\ RequiredTags(pdu.kind) \subseteq {pdu.tlvs[i].tag : i \in first(n)}

\* "Used to add mandatory TLVs (broadcast_sm) in order listed in spec"
\* (header.hpp): however the setters are called, before and after a decode,
\* all mandatory TLVs are there in the order of the standard, and only the
\* area identifier more than once.  Calls that insert or remove one by hand
\* are excepted.
MandatoryInOrder ==
  Exists /\ ~meddled =>
    LET tags == [i \in DOMAIN MandatoryTlvs(pdu.kind) |-> MandatoryTlvs(pdu.kind)[i].tag]
        at(i) == {j \in DOMAIN pdu.tlvs : pdu.tlvs[j].tag = tags[i]}
    IN  /\ \A i \in DOMAIN tags : at(i) # {} /\ (i > 1 => Cardinality(at(i)) = 1)
        /\ \A i, j \in DOMAIN tags :
             i < j => \A x \in at(i), y \in at(j) : x < y

\* The text of an SMS arrives once and whole, a unicode text as its UCS2
\* form: in short_message or, if one octet cannot count it, in
\* message_payload.  The exception is a unicode text that has no UCS2 form
\* or more than 256 characters: nothing of it arrives.
TextArrivesOnce ==
  sms # None =>
    LET got == Decode("submit_sm", Encode(pdu)).pdu
        short == got.val["short_message"]
        payload == {got.tlvs[i].len : i \in {j \in DOMAIN got.tlvs :
                                               got.tlvs[j].tag = message_payload}}
        ucs2 == sms.text.ucs2
        length == IF sms.coding = Unicode THEN ucs2 ELSE sms.text.octets
    IN  IF sms.coding = Unicode /\ (ucs2 = NoForm \/ ucs2 > 2 * 256)
          THEN short = 0 /\ payload = {}
          ELSE \/ short = length /\ payload = {}
               \/ short = 0 /\ payload = {length}
=============================================================================
