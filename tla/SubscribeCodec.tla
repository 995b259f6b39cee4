--------------------------- MODULE SubscribeCodec ---------------------------
(***************************************************************************)
(* SUBSCRIBE, SUBACK, UNSUBSCRIBE, UNSUBACK, DISCONNECT and AUTH.          *)
(***************************************************************************)
EXTENDS PacketFormat

\* Where a topic is in a list, or 0.
IndexOf(list, topic) == SelectInSeq(list, LAMBDA t : t.name = topic.name)
TopicExists(list, topic) == IndexOf(list, topic) # 0

-----------------------------------------------------------------------------
(* SUBSCRIBE *)

NewSubscribe ==
  [remlen |-> 0, packetId |-> 0, propertiesLen |-> 0, subscriptionIdentifier |-> 0, userProperty |-> <<>>,
   subscriptions |-> <<>>]

\* Adding a topic that is there changes its QoS and does not mark the message
\* dirty.
AddTopic(o, topic, qos) ==
  IF TopicExists(o.subscriptions, topic)
  THEN [obj |-> [o EXCEPT !.subscriptions[IndexOf(o.subscriptions, topic)].qos = qos], dirty |-> FALSE]
  ELSE [obj |-> [o EXCEPT !.subscriptions =
                   Append(@, [name |-> topic.name, len |-> topic.len, qos |-> qos, noLocal |-> 0,
                              retainAsPub |-> 0, retainHandling |-> 0])],
        dirty |-> TRUE]

RemoveTopic(o, list, topic) ==
  [obj |-> IF TopicExists(o[list], topic) THEN [o EXCEPT ![list] = RemoveAt(@, IndexOf(@, topic))] ELSE o,
   dirty |-> TRUE]

\* SetTopicNoLocal, SetTopicRetainAsPublished, SetTopicRetainHandling.
SetOption(o, f, topic, v) ==
  IF TopicExists(o.subscriptions, topic)
  THEN [obj |-> [o EXCEPT !.subscriptions[IndexOf(o.subscriptions, topic)][f] = v], dirty |-> TRUE]
  ELSE [obj |-> o, dirty |-> FALSE]

SubscribeSet(o, f, v) ==
  CASE f = "packetId" -> SetPacketId(o, v)
    [] f = "AddTopic" -> AddTopic(o, v.topic, v.qos)
    [] f = "RemoveTopic" -> RemoveTopic(o, "subscriptions", v.topic)
    [] f \in {"noLocal", "retainAsPub", "retainHandling"} -> SetOption(o, f, v.topic, v.to)
    [] f = "userProperty" -> [obj |-> [o EXCEPT ![f] = @ \o v], dirty |-> TRUE]
    [] OTHER -> [obj |-> [o EXCEPT ![f] = v], dirty |-> TRUE]

\* An identifier that a variable byte integer cannot hold is not written.
Written(o) == {f \in {"subscriptionIdentifier"} : o[f] > 0 /\ o[f] <= 268435455}

SubscribeBuild(o) ==
  LET plen == Total(o, {"userProperty"} \cup Written(o))
  IN  SetRemainingLength([o EXCEPT !.propertiesLen = plen],
        2 + plen + lbEncode(plen) + Total(o, {"subscriptions"}))
SubscribeEncode(o) ==
  Out(WithPacketId(o), {"packetId", "propertiesLen", "userProperty", "subscriptions"} \cup Written(o))
SubscribeEncodeToBuf(o) ==
  Out(WithPacketId(o), DOMAIN o \ ({"remlen"} \cup ({"subscriptionIdentifier"} \ Written(o))))

\* Faulty variant: the options of the last topic are not read.
SubscribeDecodeNoLast(w) ==
  LET o == Read(w, NewSubscribe)
      n == Len(o.subscriptions)
  IN  IF n = 0 THEN Failed
      ELSE Got([o EXCEPT !.subscriptions[n] = [@ EXCEPT !.qos = 0, !.noLocal = 0, !.retainAsPub = 0,
                                                        !.retainHandling = 0]], FALSE)

SubscribeOrder == <<"subscriptionIdentifier", "userProperty">>

\* After the subscription identifier the next byte is looked at without a check
\* that there is one.
SubscribeDecode(w) ==
  LET o == Read(w, NewSubscribe)
  IN  IF Has(w, "subscriptionIdentifier") /\ o.subscriptionIdentifier # 0 /\ w.twice = ""
         /\ o.userProperty = <<>> /\ o.subscriptions = <<>> THEN Panicked
      ELSE IF w.twice # "" \/ Zero(w, {"subscriptionIdentifier"}) THEN Failed
      ELSE IF \/ w.again # ""
              \/ o.subscriptions # <<>> /\ Mistaken(w, SubscribeOrder, o.subscriptions[1].len)
           THEN Misread
      ELSE IF \/ o.subscriptions = <<>>
              \/ \E i \in DOMAIN o.subscriptions : o.subscriptions[i].retainHandling > 2
           THEN Failed ELSE Got(o, FALSE)

-----------------------------------------------------------------------------
(* SUBACK and UNSUBACK *)

NewSuback ==
  [remlen |-> 0, packetId |-> 0, propertiesLen |-> 0, reasonStr |-> 0, userProperty |-> <<>>,
   reasonCodes |-> <<>>]
NewUnsuback == NewSuback

\* Of the reason codes used here, those that each type allows.
ValidSubAckReasonCode == {0, 1, 2, 128}
ValidUnSubAckReasonCode == {0, 17, 128}

\* AddReasonCodes keeps the codes before the first it does not allow, and does
\* not then mark the message dirty.
AddReasonCodes(o, codes) ==
  LET bad == {i \in DOMAIN codes : codes[i] \notin {0, 1, 2, 128}}
      n == IF bad = {} THEN Len(codes) ELSE Min(bad) - 1
  IN  [obj |-> [o EXCEPT !.reasonCodes = @ \o SubSeq(codes, 1, n)], dirty |-> bad = {}]

SubackSet(o, f, v) ==
  CASE f = "packetId" -> SetPacketId(o, v)
    [] f = "reasonCodes" -> AddReasonCodes(o, v)
    [] f = "userProperty" -> [obj |-> [o EXCEPT ![f] = @ \o v], dirty |-> TRUE]
    [] OTHER -> [obj |-> [o EXCEPT ![f] = v], dirty |-> TRUE]
UnsubackSet(o, f, v) ==
  CASE f = "packetId" -> SetPacketId(o, v)
    [] f \in {"reasonCodes", "userProperty"} -> [obj |-> [o EXCEPT ![f] = @ \o v], dirty |-> TRUE]
    [] OTHER -> [obj |-> [o EXCEPT ![f] = v], dirty |-> TRUE]

SubackBuild(o) ==
  LET plen == Total(o, {"userProperty"} \cup NonZero(o, {"reasonStr"}))
  IN  SetRemainingLength([o EXCEPT !.propertiesLen = plen],
        2 + plen + lbEncode(plen) + Len(o.reasonCodes))
UnsubackBuild(o) ==
  LET plen == Total(o, {"userProperty", "reasonStr"} \ (IF o.reasonStr = 0 THEN {"reasonStr"} ELSE {}))
  IN  SetRemainingLength([o EXCEPT !.propertiesLen = plen],
        2 + plen + lbEncode(plen) + Len(o.reasonCodes))

AckFields(o) == {"packetId", "propertiesLen", "userProperty", "reasonCodes"} \cup NonZero(o, {"reasonStr"})
SubackEncode(o) ==
  IF Range(o.reasonCodes) \subseteq ValidSubAckReasonCode THEN Out(o, AckFields(o)) ELSE Refused
SubackEncodeToBuf(o) ==
  IF \E i \in DOMAIN o.reasonCodes : o.reasonCodes[i] \notin ValidSubAckReasonCode THEN Refused
  ELSE Out(o, AckFields(o))
UnsubackEncode(o) == Out(o, AckFields(o))
UnsubackEncodeToBuf(o) == Out(o, AckFields(o))

AckOrder == <<"reasonStr", "userProperty">>

\* After the reason string the next byte is looked at without a check that there
\* is one.  A property behind the others is read as a reason code.
SubackDecode(w) ==
  LET o == Read(w, NewSuback)
  IN  IF w.twice # "" \/ w.again # "" THEN Failed
      ELSE IF Has(w, "reasonStr") /\ o.userProperty = <<>> /\ o.reasonCodes = <<>> THEN Panicked
      ELSE IF o.reasonCodes = <<>> \/ ~(Range(o.reasonCodes) \subseteq ValidSubAckReasonCode) THEN Failed
      ELSE Got(o, FALSE)
UnsubackDecode(w) ==
  LET o == Read(w, NewUnsuback)
      known == \A i \in DOMAIN o.reasonCodes : o.reasonCodes[i] \in ValidUnSubAckReasonCode
  IN  IF w.twice # "" \/ w.again # "" THEN Failed
      ELSE IF Has(w, "reasonStr") /\ o.userProperty = <<>> /\ o.reasonCodes = <<>> THEN Panicked
      ELSE IF o.reasonCodes = <<>> \/ ~known THEN Failed ELSE Got(o, FALSE)

-----------------------------------------------------------------------------
(* UNSUBSCRIBE *)

NewUnsubscribe ==
  [remlen |-> 0, packetId |-> 0, propertiesLen |-> 0, userProperty |-> <<>>, topics |-> <<>>]

UnsubscribeSet(o, f, v) ==
  CASE f = "packetId" -> SetPacketId(o, v)
    [] f = "AddTopic" /\ TopicExists(o.topics, v.topic) -> [obj |-> o, dirty |-> FALSE]
    [] f = "AddTopic" /\ ~TopicExists(o.topics, v.topic) ->
         [obj |-> [o EXCEPT !.topics = Append(@, v.topic)], dirty |-> TRUE]
    [] f = "RemoveTopic" -> RemoveTopic(o, "topics", v.topic)
    [] OTHER -> [obj |-> [o EXCEPT ![f] = @ \o v], dirty |-> TRUE]

UnsubscribeBuild(o) ==
  LET plen == Total(o, {"userProperty"})
  IN  SetRemainingLength([o EXCEPT !.propertiesLen = plen],
        plen + 2 + Total(o, {"topics"}) + lbEncode(plen))
UnsubscribeEncode(o) == Out(WithPacketId(o), {"packetId", "propertiesLen", "userProperty", "topics"})
UnsubscribeEncodeToBuf(o) ==
  LET m == WithPacketId(o) IN Out(m, DOMAIN m \ {"remlen"})

\* The loop takes a byte too many off the remaining length for every topic: it
\* ends as soon as what is left is no longer than the topics it has read.
ReadTopics(topics) ==
  LET left(i) == FoldSeq(LAMBDA t, sum : 2 + t.len + sum, 0, SubSeq(topics, i + 1, Len(topics)))
  IN  SubSeq(topics, 1, Min({i \in DOMAIN topics : left(i) <= i}))

UnsubscribeOrder == <<"userProperty">>
UnsubscribeDecode(w) ==
  LET o == Read(w, NewUnsubscribe)
  IN  IF o.topics = <<>> THEN Failed
      ELSE IF Mistaken(w, UnsubscribeOrder, o.topics[1].len) THEN Misread
      ELSE Got([o EXCEPT !.topics = ReadTopics(@)], FALSE)

-----------------------------------------------------------------------------
(* DISCONNECT *)

NewDisconnect ==
  [remlen |-> 0, reasonCode |-> 0, propertiesLen |-> 0, sessionExpiryInterval |-> 0, reasonStr |-> 0,
   userProperty |-> <<>>, serverReference |-> 0]

DisconnectSet(o, f, v) ==
  [obj |-> IF f = "userProperty" THEN [o EXCEPT ![f] = @ \o v] ELSE [o EXCEPT ![f] = v], dirty |-> TRUE]

DisconnectBuild(o) ==
  LET plen == Total(o, {"userProperty"}
                \cup NonZero(o, {"sessionExpiryInterval", "reasonStr", "serverReference"}))
  IN  SetRemainingLength([o EXCEPT !.propertiesLen = plen],
        IF o.reasonCode = 0 /\ plen = 0 THEN 0 ELSE 1 + plen + lbEncode(plen))
DisconnectEncode(o) ==
  Out(o, IF o.reasonCode = 0 /\ o.remlen = 0 THEN {}
         ELSE {"reasonCode", "propertiesLen", "userProperty"}
                \cup NonZero(o, {"sessionExpiryInterval", "reasonStr", "serverReference"}))
DisconnectEncodeToBuf(o) ==
  Out(o, {f \in DOMAIN o \ {"remlen"} :
            /\ o.remlen # 0 \/ o.reasonCode # 0
            /\ f \in {"sessionExpiryInterval", "reasonStr", "serverReference"} => o[f] # 0})

ValidDisconnectReasonCode == {0, 4, 135}

DisconnectOrder == <<"sessionExpiryInterval", "reasonStr", "userProperty", "serverReference">>

\* A number that is never zero: the first bytes of the packet.
HeaderBytes == 2

\* The session expiry interval is read from the beginning of the packet.  A
\* repeated property ends the decoding without an error, and what follows is not
\* read, nor is what is left behind the properties.  The message stays as dirty as
\* it was.
DisconnectDecode(w) ==
  LET o == Read(w, NewDisconnect)
      unread == CASE w.twice = "sessionExpiryInterval" -> {"reasonStr", "userProperty", "serverReference"}
                  [] w.twice = "reasonStr" -> {"userProperty", "serverReference"}
                  [] OTHER -> {}
      m == [f \in DOMAIN o |-> IF f \in unread THEN NewDisconnect[f]
                               ELSE IF f = "sessionExpiryInterval" /\ Has(w, f) THEN HeaderBytes ELSE o[f]]
  IN  IF o.reasonCode \notin ValidDisconnectReasonCode THEN Failed ELSE Got(m, TRUE)

-----------------------------------------------------------------------------
(* AUTH *)

NewAuth ==
  [remlen |-> 0, reasonCode |-> 0, propertiesLen |-> 0, authMethod |-> 0, authData |-> 0, reasonStr |-> 0,
   userProperty |-> <<>>]

AuthSet(o, f, v) ==
  [obj |-> IF f = "userProperty" THEN [o EXCEPT ![f] = @ \o v] ELSE [o EXCEPT ![f] = v], dirty |-> TRUE]

AuthBuild(o) ==
  LET plen == Total(o, {"userProperty"} \cup NonZero(o, {"authMethod", "authData", "reasonStr"}))
  IN  SetRemainingLength([o EXCEPT !.propertiesLen = plen],
        IF plen = 0 /\ o.reasonCode = 0 THEN 0 ELSE 1 + plen + lbEncode(plen))
AuthEncode(o) ==
  Out(o, IF /\ o.reasonCode = 0 /\ o.userProperty = <<>>
            /\ NonZero(o, {"authMethod", "authData", "reasonStr"}) = {} THEN {}
         ELSE {"reasonCode", "propertiesLen", "userProperty"}
                \cup NonZero(o, {"authMethod", "authData", "reasonStr"}))
AuthEncodeToBuf(o) ==
  Out(o, IF \A f \in {"reasonCode", "authMethod", "authData", "reasonStr"} : o[f] = 0 /\ o.userProperty = <<>>
         THEN {}
         ELSE {f \in DOMAIN o \ {"remlen"} : f \in {"authMethod", "authData", "reasonStr"} => o[f] # 0})

ValidAuthReasonCode == {0, 24}

AuthOrder == <<"authMethod", "authData", "reasonStr", "userProperty">>

\* Without a body the message stays as dirty as it was.  What is left behind the
\* properties is not looked at.
AuthDecode(w) ==
  LET o == Read(w, NewAuth)
  IN  IF o.reasonCode \notin ValidAuthReasonCode \/ w.twice # "" THEN Failed ELSE Got(o, w.rem = 0)
=============================================================================
