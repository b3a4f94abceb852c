---------------------------- MODULE SmppLayouts ----------------------------
(***************************************************************************)
(* The PDUs of the library in src/include and src/src, one pair of         *)
(* definitions each.                                                       *)
(*   XClass  the class of the header file: MinLength and its data members, *)
(*           sorted by how they count in command_length.  Every member but *)
(*           an octet has setters that move command_length by the change   *)
(*           of its length; those of an octet leave it alone.              *)
(*   X       adds the order in which encode() writes the members and       *)
(*           decode() reads them, after the header and before the TLVs.    *)
(* The constructor that takes the mandatory parameters adds the lengths of *)
(* the same members, and decode() ends every one of them with the check    *)
(* that command_length has not been passed: SmppPdu models both once, for  *)
(* all PDUs.  Values, doc comments and accessors are left out.             *)
(***************************************************************************)
EXTENDS TLC

\* A PDU without members of its own.
HeaderOnly ==
  [ min       |-> 16,    \* MinLength: command_length with all members empty
    strings   |-> {},    \* NUL-terminated strings
    addresses |-> {},    \* SmeAddress: ton, npi and a NUL-terminated string
    octets    |-> {},    \* one-octet integers
    text      |-> {},    \* ShortMessage: sm_length and as many octets
    list      |-> {},    \* a count octet and as many entries
    order     |-> <<>> ]

BindReceiverClass ==
  [HeaderOnly EXCEPT !.min = 23,
    !.strings = {"system_id", "password", "system_type", "address_range"},
    !.octets = {"interface_version", "addr_ton", "addr_npi"}]
BindReceiver == [BindReceiverClass EXCEPT !.order =
  <<"system_id", "password", "system_type", "interface_version", "addr_ton",
    "addr_npi", "address_range">>]

BindTransmitterClass ==
  [HeaderOnly EXCEPT !.min = 23,
    !.strings = {"system_id", "password", "system_type", "address_range"},
    !.octets = {"interface_version", "addr_ton", "addr_npi"}]
BindTransmitter == [BindTransmitterClass EXCEPT !.order =
  <<"system_id", "password", "system_type", "interface_version", "addr_ton",
    "addr_npi", "address_range">>]

BindTransceiverClass ==
  [HeaderOnly EXCEPT !.min = 23,
    !.strings = {"system_id", "password", "system_type", "address_range"},
    !.octets = {"interface_version", "addr_ton", "addr_npi"}]
BindTransceiver == [BindTransceiverClass EXCEPT !.order =
  <<"system_id", "password", "system_type", "interface_version", "addr_ton",
    "addr_npi", "address_range">>]

BindReceiverRespClass ==
  [HeaderOnly EXCEPT !.min = 17, !.strings = {"system_id"}]
BindReceiverResp == [BindReceiverRespClass EXCEPT !.order =
  <<"system_id">>]

BindTransmitterRespClass ==
  [HeaderOnly EXCEPT !.min = 17, !.strings = {"system_id"}]
BindTransmitterResp == [BindTransmitterRespClass EXCEPT !.order =
  <<"system_id">>]

BindTransceiverRespClass ==
  [HeaderOnly EXCEPT !.min = 17, !.strings = {"system_id"}]
BindTransceiverResp == [BindTransceiverRespClass EXCEPT !.order =
  <<"system_id">>]

OutbindClass ==
  [HeaderOnly EXCEPT !.min = 18, !.strings = {"system_id", "password"}]
Outbind == [OutbindClass EXCEPT !.order =
  <<"system_id", "password">>]

Unbind == HeaderOnly

UnbindResp == HeaderOnly

EnquireLink == HeaderOnly

EnquireLinkResp == HeaderOnly

GenericNack == HeaderOnly

AlertNotificationClass ==
  [HeaderOnly EXCEPT !.min = 22, !.addresses = {"source_addr", "esme_addr"}]
AlertNotification == [AlertNotificationClass EXCEPT !.order =
  <<"source_addr", "esme_addr">>]

SubmitSmClass ==
  [HeaderOnly EXCEPT !.min = 33,
    !.strings = {"service_type", "schedule_delivery_time", "validity_period"},
    !.addresses = {"source_addr", "destination_addr"},
    !.octets = {"esm_class", "protocol_id", "priority_flag",
      "registered_delivery", "replace_if_present_flag", "data_coding",
      "sm_default_msg_id"}, !.text = {"short_message"}]
SubmitSm == [SubmitSmClass EXCEPT !.order =
  <<"service_type", "source_addr", "destination_addr", "esm_class",
    "protocol_id", "priority_flag", "schedule_delivery_time",
    "validity_period", "registered_delivery", "replace_if_present_flag",
    "data_coding", "sm_default_msg_id", "short_message">>]

SubmitSmRespClass ==
  [HeaderOnly EXCEPT !.min = 17, !.strings = {"message_id"}]
SubmitSmResp == [SubmitSmRespClass EXCEPT !.order =
  <<"message_id">>]

SubmitMultiClass ==
  [HeaderOnly EXCEPT !.min = 31,
    !.strings = {"service_type", "schedule_delivery_time", "validity_period"},
    !.addresses = {"source_addr"},
    !.octets = {"esm_class", "protocol_id", "priority_flag",
      "registered_delivery", "replace_if_present_flag", "data_coding",
      "sm_default_msg_id"}, !.text = {"short_message"},
    !.list = {"destination_addr"}]
SubmitMulti == [SubmitMultiClass EXCEPT !.order =
  <<"service_type", "source_addr", "destination_addr", "esm_class",
    "protocol_id", "priority_flag", "schedule_delivery_time",
    "validity_period", "registered_delivery", "replace_if_present_flag",
    "data_coding", "sm_default_msg_id", "short_message">>]

SubmitMultiRespClass ==
  [HeaderOnly EXCEPT !.min = 18, !.strings = {"message_id"},
    !.list = {"unsuccess_sme"}]
SubmitMultiResp == [SubmitMultiRespClass EXCEPT !.order =
  <<"message_id", "unsuccess_sme">>]

DataSmClass ==
  [HeaderOnly EXCEPT !.min = 26, !.strings = {"service_type"},
    !.addresses = {"source_addr", "destination_addr"},
    !.octets = {"esm_class", "registered_delivery", "data_coding"}]
DataSm == [DataSmClass EXCEPT !.order =
  <<"service_type", "source_addr", "destination_addr", "esm_class",
    "registered_delivery", "data_coding">>]

DataSmRespClass ==
  [HeaderOnly EXCEPT !.min = 17, !.strings = {"message_id"}]
DataSmResp == [DataSmRespClass EXCEPT !.order =
  <<"message_id">>]

DeliverSmClass ==
  [HeaderOnly EXCEPT !.min = 33,
    !.strings = {"service_type", "schedule_delivery_time", "validity_period"},
    !.addresses = {"source_addr", "destination_addr"},
    !.octets = {"esm_class", "protocol_id", "priority_flag",
      "registered_delivery", "replace_if_present_flag", "data_coding",
      "sm_default_msg_id"}, !.text = {"short_message"}]
DeliverSm == [DeliverSmClass EXCEPT !.order =
  <<"service_type", "source_addr", "destination_addr", "esm_class",
    "protocol_id", "priority_flag", "schedule_delivery_time",
    "validity_period", "registered_delivery", "replace_if_present_flag",
    "data_coding", "sm_default_msg_id", "short_message">>]

DeliverSmRespClass ==
  [HeaderOnly EXCEPT !.min = 17, !.strings = {"message_id"}]
DeliverSmResp == [DeliverSmRespClass EXCEPT !.order =
  <<"message_id">>]

CancelSmClass ==
  [HeaderOnly EXCEPT !.min = 24, !.strings = {"service_type", "message_id"},
    !.addresses = {"source_addr", "destination_addr"}]
CancelSm == [CancelSmClass EXCEPT !.order =
  <<"service_type", "message_id", "source_addr", "destination_addr">>]

CancelSmResp == HeaderOnly

QuerySmClass ==
  [HeaderOnly EXCEPT !.min = 20, !.strings = {"message_id"},
    !.addresses = {"source_addr"}]
QuerySm == [QuerySmClass EXCEPT !.order =
  <<"message_id", "source_addr">>]

QuerySmRespClass ==
  [HeaderOnly EXCEPT !.min = 20, !.strings = {"message_id", "final_date"},
    !.octets = {"message_state", "error_code"}]
QuerySmResp == [QuerySmRespClass EXCEPT !.order =
  <<"message_id", "final_date", "message_state", "error_code">>]

ReplaceSmClass ==
  [HeaderOnly EXCEPT !.min = 25,
    !.strings = {"message_id", "schedule_delivery_time", "validity_period"},
    !.addresses = {"source_addr"},
    !.octets = {"registered_delivery", "sm_default_msg_id"},
    !.text = {"short_message"}]
ReplaceSm == [ReplaceSmClass EXCEPT !.order =
  <<"message_id", "source_addr", "schedule_delivery_time", "validity_period",
    "registered_delivery", "sm_default_msg_id", "short_message">>]

ReplaceSmResp == HeaderOnly

BroadcastSmClass ==
  [HeaderOnly EXCEPT !.min = 27,
    !.strings = {"service_type", "message_id", "schedule_delivery_time",
      "validity_period"}, !.addresses = {"source_addr"},
    !.octets = {"priority_flag", "replace_if_present_flag", "data_coding",
      "sm_default_msg_id"}]
BroadcastSm == [BroadcastSmClass EXCEPT !.order =
  <<"service_type", "source_addr", "message_id", "priority_flag",
    "schedule_delivery_time", "validity_period", "replace_if_present_flag",
    "data_coding", "sm_default_msg_id">>]

BroadcastSmRespClass ==
  [HeaderOnly EXCEPT !.min = 17, !.strings = {"message_id"}]
BroadcastSmResp == [BroadcastSmRespClass EXCEPT !.order =
  <<"message_id">>]

QueryBroadcastSmClass ==
  [HeaderOnly EXCEPT !.min = 20, !.strings = {"message_id"},
    !.addresses = {"source_addr"}]
QueryBroadcastSm == [QueryBroadcastSmClass EXCEPT !.order =
  <<"message_id", "source_addr">>]

QueryBroadcastSmRespClass ==
  [HeaderOnly EXCEPT !.min = 18, !.strings = {"message_id"},
    !.octets = {"message_state"}]
QueryBroadcastSmResp == [QueryBroadcastSmRespClass EXCEPT !.order =
  <<"message_id", "message_state">>]

CancelBroadcastSmClass ==
  [HeaderOnly EXCEPT !.min = 21, !.strings = {"service_type", "message_id"},
    !.addresses = {"source_addr"}]
CancelBroadcastSm == [CancelBroadcastSmClass EXCEPT !.order =
  <<"service_type", "message_id", "source_addr">>]

CancelBroadcastSmResp == HeaderOnly

Layouts ==
     "bind_receiver" :> BindReceiver
  @@ "bind_transmitter" :> BindTransmitter
  @@ "bind_transceiver" :> BindTransceiver
  @@ "bind_receiver_resp" :> BindReceiverResp
  @@ "bind_transmitter_resp" :> BindTransmitterResp
  @@ "bind_transceiver_resp" :> BindTransceiverResp
  @@ "outbind" :> Outbind
  @@ "unbind" :> Unbind
  @@ "unbind_resp" :> UnbindResp
  @@ "enquire_link" :> EnquireLink
  @@ "enquire_link_resp" :> EnquireLinkResp
  @@ "generic_nack" :> GenericNack
  @@ "alert_notification" :> AlertNotification
  @@ "submit_sm" :> SubmitSm
  @@ "submit_sm_resp" :> SubmitSmResp
  @@ "submit_multi" :> SubmitMulti
  @@ "submit_multi_resp" :> SubmitMultiResp
  @@ "data_sm" :> DataSm
  @@ "data_sm_resp" :> DataSmResp
  @@ "deliver_sm" :> DeliverSm
  @@ "deliver_sm_resp" :> DeliverSmResp
  @@ "cancel_sm" :> CancelSm
  @@ "cancel_sm_resp" :> CancelSmResp
  @@ "query_sm" :> QuerySm
  @@ "query_sm_resp" :> QuerySmResp
  @@ "replace_sm" :> ReplaceSm
  @@ "replace_sm_resp" :> ReplaceSmResp
  @@ "broadcast_sm" :> BroadcastSm
  @@ "broadcast_sm_resp" :> BroadcastSmResp
  @@ "query_broadcast_sm" :> QueryBroadcastSm
  @@ "query_broadcast_sm_resp" :> QueryBroadcastSmResp
  @@ "cancel_broadcast_sm" :> CancelBroadcastSm
  @@ "cancel_broadcast_sm_resp" :> CancelBroadcastSmResp
=============================================================================
