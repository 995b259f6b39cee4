---------------------------- MODULE ConnectCodec ----------------------------
(***************************************************************************)
(* CONNECT and CONNACK: connect.go and connack.go.                         *)
(***************************************************************************)
EXTENDS PacketFormat

\* The flags of the connect flags byte; the two bits of the will's QoS are a
\* field of their own.
Flags == {"cleanSession", "willFlag", "willRetain", "usernameFlag", "passwordFlag"}

NewConnect ==
  [remlen |-> 0, protoName |-> 0, version |-> 0, connectFlags |-> {}, willQos |-> 0, keepAlive |-> 0,
   propertiesLen |-> 0, sessionExpiryInterval |-> 0, receiveMaximum |-> 0, maxPacketSize |-> 1024,
   topicAliasMax |-> 0, requestRespInfo |-> 0, requestProblemInfo |-> 1, userProperty |-> <<>>,
   authMethod |-> 0, authData |-> 0, clientId |-> 0, willPropertiesLen |-> 0, willDelayInterval |-> 0,
   payloadFormatIndicator |-> 0, willMsgExpiryInterval |-> 0, contentType |-> 0, responseTopic |-> 0,
   correlationData |-> 0, willUserProperty |-> <<>>, willTopic |-> 0, willMessage |-> 0, username |-> 0,
   password |-> 0]

Flag(o, flag, on) ==
  [o EXCEPT !.connectFlags = IF on THEN @ \cup {flag} ELSE @ \ {flag}]

\* The setters of properties; user properties are added to those there are.
SetProperty(o, f, v) == IF f \in UserProperties THEN [o EXCEPT ![f] = @ \o v] ELSE [o EXCEPT ![f] = v]

\* The setters of the version, which comes with its name, and of the flags.
Supported(f, v) == f = "version" => v = 5
SetFlags(o, f, v) ==
  IF f = "version" THEN IF Supported(f, v) THEN [o EXCEPT !.version = v, !.protoName = 4] ELSE o
  ELSE IF f = "willQos" THEN [o EXCEPT !.willQos = v] ELSE Flag(o, f, v = 1)

\* The setters of the payload.  A will topic or message, a user name and a
\* password set their flags, and an empty one clears them.
SetPayload(o, f, v) ==
  LET m == [o EXCEPT ![f] = v]
  IN  CASE f = "willTopic" -> IF v > 0 \/ o.willMessage = 0 THEN Flag(m, "willFlag", v > 0) ELSE m
        [] f = "willMessage" -> Flag(m, "willFlag", v > 0)
        [] f = "username" -> Flag(m, "usernameFlag", v > 0)
        [] f = "password" -> Flag(m, "passwordFlag", v > 0)
        [] OTHER -> m

ConnectSet(o, f, v) ==
  [obj |-> IF f \in Flags \cup {"version", "willQos"} THEN SetFlags(o, f, v)
           ELSE IF f \in {"keepAlive", "clientId", "willTopic", "willMessage", "username", "password"}
           THEN SetPayload(o, f, v) ELSE SetProperty(o, f, v),
   dirty |-> Supported(f, v)]

\* A receive maximum of 65535, the default, is not written.
LimitedReceive(o) == {f \in {"receiveMaximum"} : o[f] > 0 /\ o[f] < 65535}
Optional(o, f, flag) == {g \in {f} : flag \in o.connectFlags /\ o[f] > 0}

\* The user properties of the will are added to the sum after the property
\* length is taken from it: they are in the remaining length, in no property
\* length, and there even when the message has no will.
ConnectBuild(o) ==
  LET pay == Total(o, {"protoName", "version", "connectFlags", "keepAlive", "clientId"}
               \cup Optional(o, "willTopic", "willFlag") \cup Optional(o, "willMessage", "willFlag")
               \cup {f \in {"username"} : "usernameFlag" \in o.connectFlags}
               \cup {f \in {"password"} : "passwordFlag" \in o.connectFlags})
      plen == Total(o, {"userProperty"} \cup LimitedReceive(o) \cup NotOne(o, {"requestProblemInfo"})
                \cup NonZero(o, {"sessionExpiryInterval", "maxPacketSize", "topicAliasMax",
                                 "requestRespInfo", "authMethod", "authData"}))
      wlen == Total(o, {f \in {"payloadFormatIndicator"} : o[f] = 1}
                \cup NonZero(o, {"willDelayInterval", "willMsgExpiryInterval", "contentType",
                                 "responseTopic", "correlationData"}))
  IN  SetRemainingLength([o EXCEPT !.propertiesLen = plen, !.willPropertiesLen = wlen],
        pay + plen + Total(o, {"willUserProperty"}) + lbEncode(plen)
          + (IF "willFlag" \in o.connectFlags THEN wlen + lbEncode(wlen) ELSE 0))

WillFields(o) ==
  {"willPropertiesLen", "willUserProperty", "willTopic", "willMessage"}
    \cup NonZero(o, {"willDelayInterval", "payloadFormatIndicator", "willMsgExpiryInterval", "contentType",
                     "responseTopic", "correlationData"})

\* The maximum packet size is always written.
encodeMessage(o) ==
  {"protoName", "version", "connectFlags", "willQos", "keepAlive", "propertiesLen", "maxPacketSize",
   "userProperty", "clientId"}
    \cup LimitedReceive(o) \cup NotOne(o, {"requestProblemInfo"})
    \cup NonZero(o, {"sessionExpiryInterval", "topicAliasMax", "requestRespInfo", "authMethod", "authData"})
    \cup (IF "willFlag" \in o.connectFlags THEN WillFields(o) ELSE {})
    \cup Optional(o, "username", "usernameFlag") \cup Optional(o, "password", "passwordFlag")
encodeMessageToBuf(o) ==
  LET fields == DOMAIN o \ {"remlen"}
      absent == {f \in {"sessionExpiryInterval", "topicAliasMax", "requestRespInfo", "authMethod", "authData"} : o[f] = 0}
        \cup ({"receiveMaximum"} \ LimitedReceive(o)) \cup {f \in {"requestProblemInfo"} : o[f] = 1}
        \cup ({"username"} \ Optional(o, "username", "usernameFlag"))
        \cup ({"password"} \ Optional(o, "password", "passwordFlag"))
      will == {f \in fields : f \in {"willPropertiesLen", "willDelayInterval", "payloadFormatIndicator",
                 "willMsgExpiryInterval", "contentType", "responseTopic", "correlationData",
                 "willUserProperty", "willTopic", "willMessage"}}
  IN  (fields \ (absent \cup will)) \cup (IF "willFlag" \in o.connectFlags THEN WillFields(o) ELSE {})

ConnectEncode(o) == IF o.version # 5 THEN Refused ELSE Out(o, encodeMessage(o))
ConnectEncodeToBuf(o) == IF o.version # 5 THEN Refused ELSE Out(o, encodeMessageToBuf(o))

\* What makes a CONNECT invalid: in its version and flags, ...
FlagsRefused(o) ==
  LET has(flag) == flag \in o.connectFlags
  IN  \/ o.version # 5
      \/ ~has("willFlag") /\ (has("willRetain") \/ o.willQos # 0)
      \/ has("usernameFlag") /\ ~has("passwordFlag")
\* ... in its properties, ...
PropertiesRefused(w, o) ==
  \/ w.twice \in DOMAIN o \ WillFields(o)
  \/ Zero(w, {"receiveMaximum", "maxPacketSize"})
  \/ Above(w, {"requestRespInfo", "requestProblemInfo"}, 1)
  \/ o.authMethod # 0 /\ ~Has(w, "authData")
\* ... and in its payload.
PayloadRefused(w, o) ==
  \/ w.twice \in WillFields(o)
  \/ Above(w, {"payloadFormatIndicator"}, 1)
  \/ o.clientId = 0 /\ "cleanSession" \notin o.connectFlags

\* The properties in the order in which they are read: those in front of the
\* client identifier, and those in front of the topic of the will.
ConnectOrder == <<"sessionExpiryInterval", "receiveMaximum", "maxPacketSize", "topicAliasMax", "requestRespInfo",
                  "requestProblemInfo", "userProperty", "authMethod", "authData">>
WillOrder == <<"willDelayInterval", "payloadFormatIndicator", "willMsgExpiryInterval", "contentType",
               "responseTopic", "correlationData", "willUserProperty">>

\* A server that is given no client identifier calls the client "#".
decodeMessage(w, o) ==
  [o EXCEPT !.receiveMaximum = IF Has(w, "receiveMaximum") THEN @ ELSE 65535,
            !.clientId = IF @ = 0 THEN 1 ELSE @]
ConnectDecode(w) ==
  LET o == Read(w, NewConnect)
      will == Has(w, "willPropertiesLen")
  IN  IF FlagsRefused(o) \/ PropertiesRefused(w, o) THEN Failed
      ELSE IF w.again \in Range(ConnectOrder) \/ Mistaken(w, ConnectOrder, o.clientId) THEN Misread
      ELSE IF PayloadRefused(w, o) THEN Failed
      ELSE IF w.again \in Range(WillOrder) \/ (will /\ Mistaken(w, WillOrder, o.willTopic)) THEN Misread
      ELSE Got(decodeMessage(w, o), FALSE)

-----------------------------------------------------------------------------
(* CONNACK *)

NewConnack ==
  [remlen |-> 0, sessionPresent |-> 0, reasonCode |-> 0, propertiesLen |-> 0, sessionExpiryInterval |-> 0,
   receiveMaximum |-> 0, maxQos |-> 0, retainAvailable |-> 1, maxPacketSize |-> 1024,
   assignedIdentifier |-> 0, topicAliasMax |-> 0, reasonStr |-> 0, userProperty |-> <<>>,
   wildcardSubscriptionAvailable |-> 0, subscriptionIdentifierAvailable |-> 0,
   sharedSubscriptionAvailable |-> 0, serverKeepAlive |-> 0, responseInformation |-> 0,
   serverReference |-> 0, authMethod |-> 0, authData |-> 0]

ConnackSet(o, f, v) ==
  [obj |-> IF f \in UserProperties THEN [o EXCEPT ![f] = @ \o v] ELSE [o EXCEPT ![f] = v], dirty |-> TRUE]

Availability == {"retainAvailable", "wildcardSubscriptionAvailable", "subscriptionIdentifierAvailable",
                 "sharedSubscriptionAvailable"}

ConnackBuild(o) ==
  LET plen == Total(o, {"userProperty"} \cup LimitedReceive(o) \cup NotOne(o, Availability)
                \cup NonZero(o, {"sessionExpiryInterval", "maxQos", "maxPacketSize", "assignedIdentifier",
                                 "topicAliasMax", "reasonStr", "serverKeepAlive", "responseInformation",
                                 "serverReference", "authMethod", "authData"}))
  IN  SetRemainingLength([o EXCEPT !.receiveMaximum = IF LimitedReceive(o) = {} THEN 65535 ELSE @,
                                   !.propertiesLen = plen],
        1 + 1 + plen + lbEncode(plen))

ConnackEncode(o) ==
  IF o.reasonCode > 162 THEN Refused
  ELSE Out(o, {"sessionPresent", "reasonCode", "propertiesLen", "userProperty"}
                \cup LimitedReceive(o) \cup NotOne(o, Availability \cup {"maxPacketSize"})
                \cup NonZero(o, {"sessionExpiryInterval", "maxQos", "assignedIdentifier", "topicAliasMax",
                                 "reasonStr", "serverKeepAlive", "responseInformation", "serverReference",
                                 "authMethod", "authData"}))

ConnackEncodeToBuf(o) ==
  IF o.reasonCode > 162 THEN Refused
  ELSE LET absent == {f \in Availability \cup {"maxPacketSize"} : o[f] = 1}
             \cup ({"receiveMaximum"} \ LimitedReceive(o))
             \cup {f \in {"sessionExpiryInterval", "maxQos", "assignedIdentifier", "topicAliasMax",
                          "reasonStr", "serverKeepAlive", "responseInformation", "serverReference",
                          "authMethod", "authData"} : o[f] = 0}
       IN  Out(o, DOMAIN o \ ({"remlen"} \cup absent))

ConnackOrder == <<"sessionExpiryInterval", "receiveMaximum", "maxQos", "retainAvailable", "maxPacketSize",
                  "assignedIdentifier", "topicAliasMax", "reasonStr", "userProperty",
                  "wildcardSubscriptionAvailable", "subscriptionIdentifierAvailable",
                  "sharedSubscriptionAvailable", "serverKeepAlive", "responseInformation",
                  "serverReference", "authMethod", "authData">>

\* Of the reason codes used here, those that CONNACK allows.
ValidConnAckReasonCode == {0, 135}

\* What follows the server's keep alive is not read: one byte of the two is
\* skipped, and the other (of the values used here) is no property.  For the same
\* reason the keep alive may come twice.
Unread(w) ==
  IF Has(w, "serverKeepAlive") THEN {"responseInformation", "serverReference", "authMethod", "authData"} ELSE {}

ConnackRefused(w, o) ==
  \/ w.twice \notin Unread(w) \cup {"", "serverKeepAlive"}
  \/ o.reasonCode \notin ValidConnAckReasonCode
  \/ Zero(w, {"receiveMaximum", "maxPacketSize"})
  \/ Above(w, {"maxQos"}, 2) \/ Above(w, Availability, 1)

\* The defaults of what is left out.  Where a shared subscription is left out,
\* another field is set.
ConnackDefault(o, f) ==
  IF f = "receiveMaximum" THEN 65535
  ELSE IF f = "maxQos" THEN 2
  ELSE IF f \in Availability \ {"sharedSubscriptionAvailable"} THEN 1 ELSE o[f]
ConnackValue(w, o, f) ==
  IF f \in Unread(w) THEN 0
  ELSE IF f = "subscriptionIdentifierAvailable" /\ ~Has(w, "sharedSubscriptionAvailable") THEN 1
  ELSE IF Has(w, f) THEN o[f] ELSE ConnackDefault(o, f)
\* What is left behind the properties is not looked at.
ConnackDecode(w) ==
  LET o == Read(w, NewConnack)
  IN  IF ConnackRefused(w, o) THEN Failed ELSE Got([f \in DOMAIN o |-> ConnackValue(w, o, f)], FALSE)
=============================================================================
