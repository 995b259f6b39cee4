---------------------------- MODULE PublishCodec ----------------------------
(***************************************************************************)
(* PUBLISH and its acknowledgements: publish.go, puback.go, pubrec.go,     *)
(* pubrel.go, pubcomp.go.  PUBREC, PUBREL and PUBCOMP embed PUBACK and     *)
(* have decoders of their own.                                             *)
(***************************************************************************)
EXTENDS PacketFormat

NewPublish ==
  [remlen |-> 0, dup |-> 0, qos |-> 0, retain |-> 0, topic |-> 0, packetId |-> 0, propertiesLen |-> 0,
   payloadFormatIndicator |-> 0, messageExpiryInterval |-> 0, topicAlias |-> 0, responseTopic |-> 0,
   correlationData |-> 0, userProperty |-> <<>>, subscriptionIdentifier |-> 0, contentType |-> 0,
   payload |-> 0]

\* A payload of this length stands for one that begins with the byte of a
\* property identifier, that of the content type.
Marked == 7

\* Faulty variant: SetQoS leaves the message clean.
PublishSetQuietly(o, f, v) ==
  CASE f = "packetId" -> SetPacketId(o, v)
    [] f \in {"dup", "retain", "qos"} -> [obj |-> [o EXCEPT ![f] = v], dirty |-> FALSE]
    [] f = "topic" /\ v = 0 -> [obj |-> o, dirty |-> FALSE]
    [] f = "userProperty" -> [obj |-> [o EXCEPT ![f] = @ \o v], dirty |-> TRUE]
    [] OTHER -> [obj |-> [o EXCEPT ![f] = v], dirty |-> TRUE]

\* The setters; dup and retain change the first byte and do not mark the
\* message dirty.
PublishSet(o, f, v) ==
  CASE f = "packetId" -> SetPacketId(o, v)
    [] f \in {"dup", "retain"} -> [obj |-> [o EXCEPT ![f] = v], dirty |-> FALSE]
    [] f = "topic" /\ v = 0 -> [obj |-> o, dirty |-> FALSE]
    [] f = "userProperty" -> [obj |-> [o EXCEPT ![f] = @ \o v], dirty |-> TRUE]
    [] OTHER -> [obj |-> [o EXCEPT ![f] = v], dirty |-> TRUE]

SetNilTopicAndAlias(o, alias) == [obj |-> [o EXCEPT !.topicAlias = alias, !.topic = 0], dirty |-> TRUE]

\* An identifier of 168435455 or more is not written.
Identifier(o) == {f \in {"subscriptionIdentifier"} : o[f] > 0 /\ o[f] < 168435455}

PublishBuild(o) ==
  LET props == {"userProperty"} \cup Identifier(o)
        \cup NonZero(o, {"payloadFormatIndicator", "messageExpiryInterval", "topicAlias", "responseTopic",
                         "correlationData", "contentType"})
      plen == Total(o, props)
  IN  SetRemainingLength([o EXCEPT !.propertiesLen = plen],
        2 + o.topic + (IF o.qos # 0 THEN 2 ELSE 0) + plen + lbEncode(plen) + o.payload)

PublishEncode(o) ==
  IF (o.topic = 0 /\ o.topicAlias = 0) \/ o.payload = 0 THEN Refused
  ELSE Out(IF o.qos # 0 THEN WithPacketId(o) ELSE o,
           {"dup", "qos", "retain", "topic", "propertiesLen", "userProperty", "payload"}
             \cup {f \in {"packetId"} : o.qos # 0} \cup Identifier(o)
             \cup NonZero(o, {"payloadFormatIndicator", "messageExpiryInterval", "topicAlias",
                              "responseTopic", "correlationData", "contentType"}))

PublishEncodeToBuf(o) ==
  IF (o.topic = 0 /\ o.topicAlias = 0) \/ o.payload = 0 THEN Refused
  ELSE LET m == IF o.qos # 0 THEN WithPacketId(o) ELSE o
       IN  Out(m, {"dup", "qos", "retain", "topic"} \cup {f \in {"packetId"} : m.qos # 0}
                    \cup {"propertiesLen", "userProperty", "payload"} \cup Identifier(m)
                    \cup NonZero(m, {"payloadFormatIndicator", "messageExpiryInterval", "topicAlias",
                                     "responseTopic", "correlationData", "contentType"}))

\* Faulty variant: a repeated property is taken.
PublishDecodeLax(w) ==
  LET o == Read(w, NewPublish)
  IN  IF \/ Zero(w, {"topicAlias", "responseTopic", "correlationData", "subscriptionIdentifier", "contentType"})
         \/ o.topicAlias = 0 /\ o.topic = 0
      THEN Failed ELSE Got(o, FALSE)

PublishOrder == <<"payloadFormatIndicator", "messageExpiryInterval", "topicAlias", "responseTopic",
                  "correlationData", "userProperty", "subscriptionIdentifier", "contentType">>

\* The properties are read for as long as identifiers are found, whatever the
\* property length says: a payload that begins like one is taken for one, and a
\* property behind the others goes to the payload.
PublishDecode(w) ==
  LET o == Read(w, NewPublish)
  IN  IF \/ w.twice # ""
         \/ Zero(w, {"topicAlias", "responseTopic", "correlationData", "subscriptionIdentifier", "contentType"})
         \/ o.topicAlias = 0 /\ o.topic = 0
      THEN Failed
      ELSE IF w.again # "" THEN Got([o EXCEPT !.payload = @ + Size(w.again, w.vals[w.again])], FALSE)
      ELSE IF o.payload = Marked THEN Misread ELSE Got(o, FALSE)

-----------------------------------------------------------------------------
(* PUBACK, PUBREC, PUBREL, PUBCOMP *)

NewPuback ==
  [remlen |-> 0, packetId |-> 0, reasonCode |-> 0, propertiesLen |-> 0, reasonStr |-> 0, userProperty |-> <<>>]

PubackSet(o, f, v) ==
  CASE f = "packetId" -> SetPacketId(o, v)
    [] f = "userProperty" -> [obj |-> [o EXCEPT ![f] = @ \o v], dirty |-> TRUE]
    [] OTHER -> [obj |-> [o EXCEPT ![f] = v], dirty |-> TRUE]

\* Faulty variant: the property length is taken to be one byte long.
PubackBuildShort(o) ==
  LET plen == Total(o, {"userProperty"} \cup NonZero(o, {"reasonStr"}))
  IN  SetRemainingLength([o EXCEPT !.propertiesLen = plen],
        IF plen > 0 THEN 2 + 1 + plen + 1 ELSE IF o.reasonCode = 0 THEN 2 ELSE 2 + 1)

\* Without properties there is no property length, and a success needs no code.
PubackBuild(o) ==
  LET plen == Total(o, {"userProperty"} \cup NonZero(o, {"reasonStr"}))
  IN  SetRemainingLength([o EXCEPT !.propertiesLen = plen],
        IF plen > 0 THEN 2 + 1 + plen + lbEncode(plen) ELSE IF o.reasonCode = 0 THEN 2 ELSE 2 + 1)

PubackEncode(o) ==
  Out(o, {"packetId"} \cup
         (IF o.remlen = 2 /\ o.reasonCode = 0 THEN {} ELSE {"reasonCode"} \cup
           (IF o.propertiesLen = 0 THEN {}
            ELSE {"propertiesLen", "userProperty"} \cup NonZero(o, {"reasonStr"}))))

PubackEncodeToBuf(o) ==
  LET code == IF o.remlen = 2 /\ o.reasonCode = 0 THEN {} ELSE {"reasonCode"}
      rest == IF code = {} \/ o.propertiesLen = 0 THEN {} ELSE {"propertiesLen", "userProperty", "reasonStr"}
  IN  Out(o, {"packetId"} \cup code \cup (rest \ (IF o.reasonStr = 0 THEN {"reasonStr"} ELSE {})))

\* Of the reason codes used here, those that each type allows.
ValidPubAckReasonCode == {0, 16, 135, 151}
ValidPubRecReasonCode == {0, 16, 135, 151}
ValidPubRelReasonCode == {0, 146}
ValidPubCompReasonCode == {0, 146}

\* From the reason code on.  After the reason string the next byte is looked at
\* without a check that there is one; what is left behind the properties is not.
decodeOther(w, valid) ==
  LET o == Read(w, NewPuback)
  IN  IF o.reasonCode \notin valid THEN Failed
      ELSE IF Has(w, "reasonStr") /\ w.twice = "" /\ o.userProperty = <<>> THEN Panicked
      ELSE IF w.twice # "" THEN Failed ELSE Got(o, FALSE)

\* Two bytes are a success, and leave the message as dirty as it was.
PubackDecode(w) ==
  IF w.rem = 2 THEN Got(Read(w, NewPuback), TRUE) ELSE decodeOther(w, ValidPubAckReasonCode)
PubrecDecode(w) ==
  IF w.rem = 2 THEN Got(Read(w, NewPuback), TRUE) ELSE decodeOther(w, ValidPubRecReasonCode)
PubrelDecode(w) ==
  IF w.rem = 2 THEN Got(Read(w, NewPuback), TRUE) ELSE decodeOther(w, ValidPubRelReasonCode)
PubcompDecode(w) ==
  IF w.rem = 2 THEN Got(Read(w, NewPuback), TRUE) ELSE decodeOther(w, ValidPubCompReasonCode)
=============================================================================
