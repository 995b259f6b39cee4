-------------------------------- MODULE Codec --------------------------------
(***************************************************************************)
(* The life of one message of broker/core/message: it is built by its      *)
(* setters, encoded, perhaps tampered with by a peer that does not keep to *)
(* the protocol, decoded into a new message, changed by its setters and    *)
(* encoded again.  A message that is not dirty is not encoded: the bytes   *)
(* it was decoded from are sent once more.                                 *)
(***************************************************************************)
EXTENDS PublishCodec, ConnectCodec, SubscribeCodec

CONSTANTS Kinds,           \* the packet types
          StringLengths, TopicLengths, PayloadLengths,
          PropertyLists,   \* lists of user properties: keys and values in turn
          CodeLists,       \* lists of reason codes
          MaxSets          \* bound on the calls of setters

Acks == {"PUBACK", "PUBREC", "PUBREL", "PUBCOMP"}

\* A string has at most 65535 bytes (writeLPBytes refuses a longer one), a topic
\* has one.
ASSUME CodecAssumption ==
  /\ Kinds \subseteq Acks \cup {"CONNECT", "CONNACK", "PUBLISH", "SUBSCRIBE", "SUBACK", "UNSUBSCRIBE",
                               "UNSUBACK", "DISCONNECT", "AUTH"}
  /\ StringLengths \subseteq 0 .. maxLPString /\ TopicLengths \subseteq 1 .. maxLPString
  /\ PayloadLengths \subseteq Nat /\ PropertyLists \subseteq Seq(0 .. maxLPString)
  /\ CodeLists \subseteq Seq({0, 1, 2, 17, 128}) /\ MaxSets \in Nat

VARIABLES kind, msg, dirty,
          dbuf,      \* the packet the message was decoded from
          wire,      \* the packet on the way
          sent,      \* the message that was encoded into it
          phase, outcome,
          cached,    \* the packet came from dbuf
          sets
vars == <<kind, msg, dirty, dbuf, wire, sent, phase, outcome, cached, sets>>

\* The methods of the packet types.
New(k) ==
  CASE k = "CONNECT" -> NewConnect [] k = "CONNACK" -> NewConnack [] k = "PUBLISH" -> NewPublish
    [] k \in Acks -> NewPuback [] k = "SUBSCRIBE" -> NewSubscribe [] k = "SUBACK" -> NewSuback
    [] k = "UNSUBSCRIBE" -> NewUnsubscribe [] k = "UNSUBACK" -> NewUnsuback
    [] k = "DISCONNECT" -> NewDisconnect [] k = "AUTH" -> NewAuth
SetField(k, o, f, v) ==
  CASE k = "CONNECT" -> ConnectSet(o, f, v) [] k = "CONNACK" -> ConnackSet(o, f, v)
    [] k = "PUBLISH" /\ f = "SetNilTopicAndAlias" -> SetNilTopicAndAlias(o, v)
    [] k = "PUBLISH" /\ f # "SetNilTopicAndAlias" -> PublishSet(o, f, v)
    [] k \in Acks -> PubackSet(o, f, v) [] k = "SUBSCRIBE" -> SubscribeSet(o, f, v)
    [] k = "SUBACK" -> SubackSet(o, f, v) [] k = "UNSUBSCRIBE" -> UnsubscribeSet(o, f, v)
    [] k = "UNSUBACK" -> UnsubackSet(o, f, v) [] k = "DISCONNECT" -> DisconnectSet(o, f, v)
    [] k = "AUTH" -> AuthSet(o, f, v)
Encode(k, o) ==
  CASE k = "CONNECT" -> ConnectEncode(ConnectBuild(o)) [] k = "CONNACK" -> ConnackEncode(ConnackBuild(o))
    [] k = "PUBLISH" -> PublishEncode(PublishBuild(o)) [] k \in Acks -> PubackEncode(PubackBuild(o))
    [] k = "SUBSCRIBE" -> SubscribeEncode(SubscribeBuild(o)) [] k = "SUBACK" -> SubackEncode(SubackBuild(o))
    [] k = "UNSUBSCRIBE" -> UnsubscribeEncode(UnsubscribeBuild(o))
    [] k = "UNSUBACK" -> UnsubackEncode(UnsubackBuild(o))
    [] k = "DISCONNECT" -> DisconnectEncode(DisconnectBuild(o)) [] k = "AUTH" -> AuthEncode(AuthBuild(o))
EncodeToBuf(k, o) ==
  CASE k = "CONNECT" -> ConnectEncodeToBuf(ConnectBuild(o))
    [] k = "CONNACK" -> ConnackEncodeToBuf(ConnackBuild(o))
    [] k = "PUBLISH" -> PublishEncodeToBuf(PublishBuild(o)) [] k \in Acks -> PubackEncodeToBuf(PubackBuild(o))
    [] k = "SUBSCRIBE" -> SubscribeEncodeToBuf(SubscribeBuild(o))
    [] k = "SUBACK" -> SubackEncodeToBuf(SubackBuild(o))
    [] k = "UNSUBSCRIBE" -> UnsubscribeEncodeToBuf(UnsubscribeBuild(o))
    [] k = "UNSUBACK" -> UnsubackEncodeToBuf(UnsubackBuild(o))
    [] k = "DISCONNECT" -> DisconnectEncodeToBuf(DisconnectBuild(o))
    [] k = "AUTH" -> AuthEncodeToBuf(AuthBuild(o))
Decode(k, w) ==
  CASE k = "CONNECT" -> ConnectDecode(w) [] k = "CONNACK" -> ConnackDecode(w)
    [] k = "PUBLISH" -> PublishDecode(w) [] k = "PUBACK" -> PubackDecode(w) [] k = "PUBREC" -> PubrecDecode(w)
    [] k = "PUBREL" -> PubrelDecode(w) [] k = "PUBCOMP" -> PubcompDecode(w)
    [] k = "SUBSCRIBE" -> SubscribeDecode(w) [] k = "SUBACK" -> SubackDecode(w)
    [] k = "UNSUBSCRIBE" -> UnsubscribeDecode(w) [] k = "UNSUBACK" -> UnsubackDecode(w)
    [] k = "DISCONNECT" -> DisconnectDecode(w) [] k = "AUTH" -> AuthDecode(w)

-----------------------------------------------------------------------------
(* The calls that are made, each a setter and its argument *)

Topic(name, len) == [name |-> name, len |-> len]
Call(f, v) == <<f, v>>

Values(k, f) ==
  CASE f = "version" -> {4, 5}
    [] f \in Flags \cup {"dup", "retain", "sessionPresent"} -> {0, 1}
    [] f \in {"qos", "willQos"} -> {0, 1, 2}
    [] f = "reasonCode" -> (CASE k = "CONNACK" -> {0, 135, 161, 200} [] k \in Acks -> {0, 16, 146}
                              [] k = "DISCONNECT" -> {0, 4, 16} [] k = "AUTH" -> {0, 1, 24})
    [] f = "reasonCodes" -> CodeLists
    [] f \in OneByte -> {0, 1, 2} [] f \in TwoBytes -> {0, 1, 65535} [] f \in FourBytes -> {0, 1}
    [] f \in Strings -> StringLengths
    [] f = "subscriptionIdentifier" -> {0, 1, 128, 200000000, 300000000}
    [] f = "payload" -> PayloadLengths
    [] f \in UserProperties -> PropertyLists

\* What has no setter of its own, or is computed.
Derived == {"remlen", "protoName", "connectFlags", "propertiesLen", "willPropertiesLen", "subscriptions", "topics"}
ListCalls(k) ==
  CASE k = "SUBSCRIBE" ->
         {Call("AddTopic", [topic |-> Topic(n, l), qos |-> q]) : n \in {1, 2}, l \in TopicLengths, q \in {0, 2}}
           \cup {Call("RemoveTopic", [topic |-> Topic(1, 1)])}
           \cup {Call(f, [topic |-> Topic(1, 1), to |-> 1]) : f \in {"noLocal", "retainAsPub"}}
           \cup {Call("retainHandling", [topic |-> Topic(1, 1), to |-> v]) : v \in {2, 3}}
    [] k = "UNSUBSCRIBE" ->
         {Call("AddTopic", [topic |-> Topic(n, l)]) : n \in {1, 5}, l \in TopicLengths}
           \cup {Call("RemoveTopic", [topic |-> Topic(1, 1)])}
    [] k = "CONNECT" -> {Call(f, v) : f \in Flags, v \in {0, 1}}
    [] k = "PUBLISH" -> {Call("SetNilTopicAndAlias", 1)}
    [] OTHER -> {}
Calls(k) == ListCalls(k) \cup UNION {{Call(f, v) : v \in Values(k, f)} : f \in DOMAIN New(k) \ Derived}

\* Messages to begin with, each by the calls that make it.
Templates(k) ==
  CASE k = "CONNECT" ->
         LET plain == <<Call("version", 5), Call("clientId", 1), Call("cleanSession", 1)>>
         IN  {plain, plain \o <<Call("willTopic", 1), Call("willMessage", 1), Call("username", 1),
                                Call("password", 125), Call("authMethod", 1), Call("authData", 1)>>}
    [] k = "CONNACK" -> {<<>>, <<Call("serverKeepAlive", 1), Call("authMethod", 1)>>}
    [] k = "PUBLISH" -> {<<Call("topic", 1), Call("payload", 1)>>,
                         <<Call("topic", 125), Call("qos", 1), Call("packetId", 1), Call("payload", 1)>>}
    [] k \in Acks -> {<<Call("packetId", 1)>>, <<Call("packetId", 1), Call("userProperty", <<1, 2>>)>>}
    [] k = "SUBSCRIBE" -> {<<>>, <<Call("packetId", 1), Call("AddTopic", [topic |-> Topic(1, 1), qos |-> 1])>>}
    [] k \in {"SUBACK", "UNSUBACK"} -> {<<Call("packetId", 1)>>, <<Call("packetId", 1), Call("reasonCodes", <<0>>)>>}
    [] k = "UNSUBSCRIBE" ->
         {<<>>, [n \in 1..3 |-> Call("AddTopic", [topic |-> Topic(n, 1)])],
          [n \in 1..4 |-> Call("AddTopic", [topic |-> Topic(n, 1)])]}
    [] OTHER -> {<<>>}
Made(k, calls) ==
  LET made[n \in 0 .. Len(calls)] ==
        IF n = 0 THEN New(k) ELSE SetField(k, made[n - 1], calls[n][1], calls[n][2]).obj
  IN  made[Len(calls)]

-----------------------------------------------------------------------------
Init ==
  /\ kind \in Kinds
  /\ \E calls \in Templates(kind) : msg = Made(kind, calls)
  /\ dirty = TRUE /\ dbuf = NoPacket /\ wire = NoPacket /\ sent = msg
  /\ phase = "built" /\ outcome = "" /\ cached = FALSE /\ sets = 0

SetCall(call) ==
  LET r == SetField(kind, msg, call[1], call[2])
  IN  /\ phase \in {"built", "received", "changed"} /\ sets < MaxSets
      /\ msg' = r.obj /\ dirty' = (dirty \/ r.dirty) /\ sets' = sets + 1
      /\ phase' = (IF phase = "built" THEN "built" ELSE "changed")
      /\ UNCHANGED <<kind, dbuf, wire, sent, outcome, cached>>

\* lbEncode panics at a length that takes more than four bytes.
TooLong(r) ==
  \/ r.obj.propertiesLen > maxRemainingLength
  \/ "willPropertiesLen" \in r.put /\ r.obj.willPropertiesLen > maxRemainingLength

\* Encode or EncodeToBuf.  Both compute the lengths, which leaves the message
\* dirty, unless they send the cached packet.
SendPacket(r) ==
  /\ phase \in {"built", "received", "changed"}
  /\ IF dirty
     THEN IF r = Refused \/ TooLong(r)
          THEN phase' = "refused" /\ UNCHANGED <<msg, wire, sent>>
          ELSE phase' = (IF phase = "built" THEN "sent" ELSE "resent")
               /\ msg' = r.obj /\ wire' = Packet(r) /\ sent' = r.obj
     ELSE phase' = "resent" /\ wire' = dbuf /\ UNCHANGED <<msg, sent>>
  /\ cached' = ~dirty
  /\ UNCHANGED <<kind, dirty, dbuf, outcome, sets>>

\* Messages whose lengths build gets wrong.
Miscounted(k, o) ==
  LET has(flag) == flag \in o.connectFlags
  IN  \/ /\ k = "CONNECT"
         /\ \/ o.maxPacketSize = 0 \/ o.willUserProperty # <<>>
            \/ has("usernameFlag") /\ o.username = 0
            \/ has("passwordFlag") /\ o.password = 0
            \/ has("willFlag") /\ (o.willTopic = 0 \/ o.willMessage = 0 \/ o.payloadFormatIndicator > 1)
      \/ k = "CONNACK" /\ o.maxPacketSize \in {0, 1}

Honest == wire.rem = wire.bytes

WillProperties == {"willDelayInterval", "payloadFormatIndicator", "willMsgExpiryInterval", "contentType",
                   "responseTopic", "correlationData", "willUserProperty"}
LengthOf(f) == IF kind = "CONNECT" /\ f \in WillProperties THEN "willPropertiesLen" ELSE "propertiesLen"
PropertyOrder(k) ==
  CASE k = "CONNECT" -> ConnectOrder [] k = "CONNACK" -> ConnackOrder [] k = "PUBLISH" -> PublishOrder
    [] k \in Acks \cup {"SUBACK", "UNSUBACK"} -> AckOrder [] k = "SUBSCRIBE" -> SubscribeOrder
    [] k = "UNSUBSCRIBE" -> UnsubscribeOrder [] k = "DISCONNECT" -> DisconnectOrder [] k = "AUTH" -> AuthOrder
\* Another property comes between f and the end of the properties.
Followed(f) ==
  LET order == IF kind = "CONNECT" /\ f \in WillProperties THEN WillOrder ELSE PropertyOrder(kind)
  IN  \E i, j \in DOMAIN order : i < j /\ order[i] = f /\ Present(wire, order[j])

\* A peer repeats a property, at once or behind the other properties.
Repeat(f, where) ==
  LET n == Size(f, wire.vals[f])
  IN  /\ phase = "sent" /\ Honest /\ f \in Identified /\ (where = "again" => Followed(f))
      /\ lbEncode(wire.vals[LengthOf(f)] + n) = lbEncode(wire.vals[LengthOf(f)])
      /\ wire' = [wire EXCEPT ![where] = f, !.rem = @ + n, !.bytes = @ + n, !.vals[LengthOf(f)] = @ + n]
      /\ phase' = "forged" /\ UNCHANGED <<kind, msg, dirty, dbuf, sent, outcome, cached, sets>>

\* A peer sends a zero where the protocol has none.
NeverZero == {"receiveMaximum", "maxPacketSize", "topicAlias", "subscriptionIdentifier"}
Zeroed(f) ==
  /\ phase = "sent" /\ Honest /\ f \in NeverZero
  /\ Size(f, wire.vals[f]) = Size(f, 0)
  /\ wire' = [wire EXCEPT !.vals[f] = 0]
  /\ phase' = "forged" /\ UNCHANGED <<kind, msg, dirty, dbuf, sent, outcome, cached, sets>>

\* The receiver makes a message of the packet's type and decodes into it.  A
\* packet of the wrong length is not followed further, nor is one that is misread:
\* it may be refused, run out of bytes, or be taken for another message.
Receive ==
  LET r == Decode(kind, wire)
  IN  /\ phase \in {"sent", "forged"} /\ Honest /\ ~Miscounted(kind, sent)
      /\ outcome' \in IF r.how = "misread" THEN {"error", "panic", "ok"} ELSE {r.how}
      /\ IF r.how = "ok" /\ phase = "sent"
         THEN msg' = r.obj /\ dirty' = r.dirty /\ dbuf' = wire /\ phase' = "received"
         ELSE phase' = (IF phase = "forged" THEN "judged" ELSE IF r.how = "misread" THEN "misread" ELSE "failed")
              /\ UNCHANGED <<msg, dirty, dbuf>>
      /\ UNCHANGED <<kind, wire, sent, cached, sets>>

Next ==
  \/ \E call \in Calls(kind) : SetCall(call)
  \/ SendPacket(Encode(kind, msg))
  \/ SendPacket(EncodeToBuf(kind, msg))
  \/ \E f \in DOMAIN wire.vals, where \in {"twice", "again"} : Repeat(f, where)
  \/ \E f \in DOMAIN wire.vals : Zeroed(f)
  \/ Receive

Spec == Init /\ [][Next]_vars

-----------------------------------------------------------------------------
(* Properties *)

\* Fields are numbers, lists of numbers or flags; a SUBACK never holds a code it
\* cannot send (AddReasonCodes), and a supported version comes with its name.
TypeOK ==
  /\ kind \in Kinds /\ DOMAIN msg = DOMAIN New(kind)
  /\ \A f \in DOMAIN msg \ (Lists \cup {"connectFlags"}) : msg[f] \in Nat
  /\ kind = "SUBACK" => Range(msg.reasonCodes) \subseteq ValidSubAckReasonCode
  /\ kind = "CONNECT" => msg.connectFlags \subseteq Flags /\ (msg.version = 5) = (msg.protoName = 4)
  /\ sets \in 0..MaxSets
  /\ outcome \in {"", "ok", "error", "panic"}

\* The remaining length that build computes ahead of the encoders is the number of
\* bytes both of them write, and the property lengths are those of the properties,
\* across the boundaries of the variable byte integers.  The messages for which
\* the code miscounts are excepted (Miscounted); a packet that is too long goes out with the
\* length of an earlier one.
LengthHonest ==
  (phase \in {"sent", "resent"} /\ ~cached /\ ~Miscounted(kind, sent)
     /\ wire.bytes <= maxRemainingLength) =>
     LET props == {f \in DOMAIN wire.vals : f \in Identified \cup UserProperties}
         will == IF kind = "CONNECT" THEN props \cap WillProperties ELSE {}
     IN  /\ Honest
         /\ "propertiesLen" \in DOMAIN wire.vals =>
              wire.vals.propertiesLen = Total(sent, props \ will)
         /\ "propertiesLen" \notin DOMAIN wire.vals => props = {}
         /\ "willPropertiesLen" \in DOMAIN wire.vals => wire.vals.willPropertiesLen = Total(sent, will)

\* Setters keep a message well formed, and its lengths are honest.
LengthsRight == TypeOK /\ LengthHonest

\* Messages that can be built and sent, and whose packets the decoder of the same
\* type refuses or panics on.
Unreadable(k, o) ==
  LET has(flag) == flag \in o.connectFlags
  IN  CASE k = "CONNECT" ->
             \/ ~has("willFlag") /\ (has("willRetain") \/ o.willQos # 0)
             \/ has("usernameFlag") /\ ~has("passwordFlag")
             \/ o.requestRespInfo > 1 \/ o.requestProblemInfo > 1
             \/ o.authMethod # 0 /\ o.authData = 0
             \/ o.clientId = 0 /\ ~has("cleanSession")
        [] k = "CONNACK" ->
             o.reasonCode \notin ValidConnAckReasonCode \/ o.maxQos > 2 \/ \E f \in Availability : o[f] > 1
        [] k = "PUBLISH" -> FALSE
        [] k \in Acks ->
             \/ o.reasonCode \notin (IF k \in {"PUBACK", "PUBREC"} THEN ValidPubAckReasonCode ELSE ValidPubRelReasonCode)
             \/ o.reasonStr # 0 /\ o.userProperty = <<>>
        [] k = "SUBSCRIBE" ->
             o.subscriptions = <<>> \/ \E i \in DOMAIN o.subscriptions : o.subscriptions[i].retainHandling > 2
        [] k \in {"SUBACK", "UNSUBACK"} ->
             o.reasonCodes = <<>> \/ (k = "UNSUBACK" /\ ~(Range(o.reasonCodes) \subseteq ValidUnSubAckReasonCode))
        [] k = "UNSUBSCRIBE" -> o.topics = <<>>
        [] k = "DISCONNECT" -> o.reasonCode \notin ValidDisconnectReasonCode
        [] k = "AUTH" -> o.reasonCode \notin ValidAuthReasonCode

\* Fields that do not come back as they were sent.
Lossy(k, o) ==
  {f \in {"userProperty", "willUserProperty"} \cap DOMAIN o : Len(o[f]) % 2 = 1} \cup
  CASE k = "CONNECT" ->
         {f \in {"receiveMaximum", "clientId"} : o[f] = 0}
           \cup (IF "willFlag" \in o.connectFlags THEN {}
                 ELSE WillProperties \cup {"willPropertiesLen", "willTopic", "willMessage"})
           \cup {f \in {"username"} : "usernameFlag" \notin o.connectFlags}
           \cup {f \in {"password"} : "passwordFlag" \notin o.connectFlags}
    [] k = "CONNACK" ->
         {f \in {"maxQos"} : o[f] = 0}
           \cup (IF o.sharedSubscriptionAvailable = 1
                 THEN {"sharedSubscriptionAvailable", "subscriptionIdentifierAvailable"} ELSE {})
           \cup (IF o.serverKeepAlive = 0 THEN {}
                 ELSE {"responseInformation", "serverReference", "authMethod", "authData"})
    [] k = "PUBLISH" ->
         {f \in {"packetId"} : o.qos = 0} \cup {f \in {"subscriptionIdentifier"} : o[f] >= 168435455}
    [] k = "SUBSCRIBE" -> {f \in {"subscriptionIdentifier"} : o[f] > 268435455}
    [] k = "UNSUBSCRIBE" -> {f \in {"topics"} : Len(o.topics) > 3}
    [] k = "DISCONNECT" -> {f \in {"sessionExpiryInterval"} : o[f] # 0}
           \cup (IF o.remlen = 0 THEN {"propertiesLen", "reasonStr", "userProperty", "serverReference"} ELSE {})
    [] OTHER -> {}

\* Messages in which bytes that follow the properties can be taken for one more: the
\* first byte of a length is the identifier of a property of that packet, or the
\* payload begins like one.
Mistakable(k, o) ==
  LET like(order, len) == HighByte(len) \in {Id[f] : f \in Range(order)}
  IN  CASE k = "CONNECT" -> \/ like(ConnectOrder, o.clientId)
                            \/ "willFlag" \in o.connectFlags /\ like(WillOrder, o.willTopic)
        [] k = "PUBLISH" -> o.payload = Marked
        [] k = "SUBSCRIBE" -> o.subscriptions # <<>> /\ like(SubscribeOrder, o.subscriptions[1].len)
        [] k = "UNSUBSCRIBE" -> o.topics # <<>> /\ like(UnsubscribeOrder, o.topics[1].len)
        [] OTHER -> FALSE

\* What one end builds and encodes the other decodes to the same message: the
\* packets that are refused are those of Unreadable, those in which the decoder loses
\* its place are those of Mistakable, and the fields that are changed on the way
\* those of Lossy.
RoundTrip ==
  /\ phase = "received" => /\ ~Unreadable(kind, sent)
                           /\ \A f \in DOMAIN msg \ Lossy(kind, sent) : msg[f] = sent[f]
  /\ phase = "failed" => Unreadable(kind, sent)
  /\ phase = "misread" => Mistakable(kind, sent)

\* A packet that is sent again from the bytes it was decoded from still says what
\* the message says, whatever setters ran in between (service.go re-sends received
\* PUBLISH messages this way).  The setters that leave the message clean are those
\* of the identifier, DUP and RETAIN, of the QoS of a topic that is there, and an
\* AddReasonCodes that stops half way.
CacheFresh ==
  (phase = "resent" /\ cached) =>
     LET old == Decode(kind, wire).obj
         subs(o) == [i \in DOMAIN o.subscriptions |-> [o.subscriptions[i] EXCEPT !.qos = 0]]
     IN  /\ \A f \in DOMAIN msg \ {"packetId", "dup", "retain", "subscriptions", "reasonCodes"} : msg[f] = old[f]
         /\ kind = "SUBSCRIBE" => subs(msg) = subs(old)
         /\ kind = "UNSUBACK" => msg.reasonCodes = old.reasonCodes

\* A property that comes twice in a row, and a zero where the protocol has none,
\* make a packet that no decoder takes, save DISCONNECT's, what follows the keep
\* alive of CONNACK, and a CONNECT whose client identifier is mistaken for a property
\* before the will is read.  A property that comes again behind others is refused in
\* SUBACK and UNSUBACK only, as a reason code: the other decoders take it for a part
\* of what follows (PUBLISH, SUBSCRIBE, CONNECT) or leave it unread.
ForbiddenRefused ==
  (/\ phase = "judged" /\ kind # "DISCONNECT"
   /\ wire.again # "" => kind \in {"SUBACK", "UNSUBACK"}
   /\ ~(kind = "CONNECT" /\ Mistakable(kind, sent))
   /\ ~(kind = "CONNACK" /\ "serverKeepAlive" \in DOMAIN wire.vals
         /\ wire.twice \in {"serverKeepAlive", "responseInformation", "serverReference", "authMethod", "authData"}))
  => outcome = "error"
=============================================================================
