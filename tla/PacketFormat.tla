---------------------------- MODULE PacketFormat ----------------------------
(***************************************************************************)
(* What the packet types of broker/core/message share: sizes of fields,    *)
(* variable byte integers, user properties, and the fixed header.          *)
(*                                                                         *)
(* A message is a record of its fields.  A string is its length, a list of *)
(* strings the sequence of their lengths; a topic is a name and a length.  *)
(* A packet on the wire is the set of fields that were written, with their *)
(* values and sizes.  Every decoder of the code reads the fields in the    *)
(* order in which they are written, so the order matters in two cases      *)
(* only: where a byte behind the properties is taken for the identifier of *)
(* one more, and where a property comes a second time.                     *)
(***************************************************************************)
EXTENDS Integers, Sequences, FiniteSets, SequencesExt

\* The longest string.
maxLPString == 65535

\* Fields by the way they are written.
Bits == {"dup", "qos", "retain", "willQos"}   \* parts of a byte counted elsewhere
OneByte == {"version", "connectFlags", "sessionPresent", "reasonCode", "payloadFormatIndicator",
            "requestRespInfo", "requestProblemInfo", "maxQos", "retainAvailable",
            "wildcardSubscriptionAvailable", "subscriptionIdentifierAvailable",
            "sharedSubscriptionAvailable"}
TwoBytes == {"packetId", "keepAlive", "topicAlias", "receiveMaximum", "topicAliasMax", "serverKeepAlive"}
FourBytes == {"messageExpiryInterval", "sessionExpiryInterval", "maxPacketSize", "willDelayInterval",
              "willMsgExpiryInterval"}
Varints == {"propertiesLen", "willPropertiesLen", "subscriptionIdentifier"}
Strings == {"protoName", "topic", "clientId", "willTopic", "willMessage", "username", "password",
            "responseTopic", "correlationData", "contentType", "authMethod", "authData", "reasonStr",
            "assignedIdentifier", "responseInformation", "serverReference"}
UserProperties == {"userProperty", "willUserProperty"}
Lists == {"topics", "subscriptions", "reasonCodes"} \cup UserProperties

\* Fields that come with a property identifier of one byte.
Identified ==
  (OneByte \ {"version", "connectFlags", "sessionPresent", "reasonCode"})
    \cup (TwoBytes \ {"packetId", "keepAlive"}) \cup FourBytes \cup {"subscriptionIdentifier"}
    \cup (Strings \ {"protoName", "topic", "clientId", "willTopic", "willMessage", "username", "password"})

\* The identifiers of the properties that are looked for in front of a string:
\* the first of the two bytes of its length may be one of them.
Id ==
  [payloadFormatIndicator |-> 1, willMsgExpiryInterval |-> 2, contentType |-> 3, responseTopic |-> 8,
   correlationData |-> 9, subscriptionIdentifier |-> 11, sessionExpiryInterval |-> 17, authMethod |-> 21,
   authData |-> 22, requestProblemInfo |-> 23, willDelayInterval |-> 24, requestRespInfo |-> 25,
   receiveMaximum |-> 33, topicAliasMax |-> 34, userProperty |-> 38, willUserProperty |-> 38,
   maxPacketSize |-> 39]

\* The length of a variable byte integer.
lbEncode(x) == IF x < 128 THEN 1 ELSE IF x < 16384 THEN 2 ELSE IF x < 2097152 THEN 3 ELSE 4

\* Keys and values in turn; a key without a value gets an empty one.
buildUserPropertyLen(u) == 5 * ((Len(u) + 1) \div 2) + FoldSeq(LAMBDA n, sum : n + sum, 0, u)
writeUserProperty(u) == IF Len(u) % 2 = 1 THEN Append(u, 0) ELSE u

\* The bytes a field takes.
Size(f, v) ==
  (IF f \in Identified THEN 1 ELSE 0) +
  CASE f \in Bits -> 0 [] f \in OneByte -> 1 [] f \in TwoBytes -> 2 [] f \in FourBytes -> 4
    [] f \in Varints -> lbEncode(v) [] f \in Strings -> 2 + v [] f = "payload" -> v
    [] f \in UserProperties -> buildUserPropertyLen(v)
    [] f = "reasonCodes" -> Len(v)
    [] f = "topics" -> FoldSeq(LAMBDA t, sum : 2 + t.len + sum, 0, v)
    [] f = "subscriptions" -> FoldSeq(LAMBDA s, sum : 2 + s.len + 1 + sum, 0, v)

\* A packet has at most so many bytes after its fixed header.
maxRemainingLength == 268435455

\* The error of a length that is too large is ignored, and the length it had
\* before stays.
SetRemainingLength(o, n) == [o EXCEPT !.remlen = IF n <= maxRemainingLength THEN n ELSE @]

Total(o, S) == FoldFunction(LAMBDA n, sum : n + sum, 0, [f \in S |-> Size(f, o[f])])

NonZero(o, S) == {f \in S : o[f] # 0}
NotOne(o, S) == {f \in S : o[f] # 1}

-----------------------------------------------------------------------------
\* SetPacketId: zero is ignored, and a message that has an identifier does not
\* become dirty.
SetPacketId(o, v) ==
  [obj |-> IF v = 0 THEN o ELSE [o EXCEPT !.packetId = v], dirty |-> v # 0 /\ o.packetId = 0]
\* Encode takes an identifier from the global counter when there is none.
Generated == 9
WithPacketId(o) == IF o.packetId = 0 THEN [o EXCEPT !.packetId = Generated] ELSE o

\* The results of encoders: the message, and the fields they write.
Refused == [how |-> "error"]
Out(o, S) == [how |-> "ok", obj |-> o, put |-> S]
\* A property comes twice in a row (twice), or again behind the others (again).
Packet(r) ==
  [rem |-> r.obj.remlen, bytes |-> Total(r.obj, r.put), twice |-> "", again |-> "",
   vals |-> [f \in r.put |-> IF f \in UserProperties THEN writeUserProperty(r.obj[f]) ELSE r.obj[f]]]
NoPacket == [rem |-> 0, bytes |-> 0, twice |-> "none", again |-> "none", vals |-> <<>>]

\* The results of decoders.  What becomes of a packet in which other bytes are
\* taken for a property depends on all that follows.
Failed == [how |-> "error"]
Panicked == [how |-> "panic"]
Misread == [how |-> "misread"]
Got(o, dirty) == [how |-> "ok", obj |-> o, dirty |-> dirty]

\* What a decoder reads into a new message.
Read(w, new) ==
  [f \in DOMAIN new |-> IF f = "remlen" THEN w.rem
                        ELSE IF f \in DOMAIN w.vals THEN w.vals[f] ELSE new[f]]
Has(w, f) == f \in DOMAIN w.vals
Zero(w, S) == \E f \in S : Has(w, f) /\ w.vals[f] = 0
Present(w, f) == Has(w, f) /\ (f \in UserProperties => w.vals[f] # <<>>)

\* A decoder looks for its properties one after the other, whatever the property
\* length says: behind the last one there is it compares the next byte with the
\* identifiers of those that are left, and with that of the last once more.
Sought(w, order) ==
  {Id[order[i]] : i \in {i \in DOMAIN order : \A j \in DOMAIN order : j > i => ~Present(w, order[j])}}
HighByte(n) == n \div 256
Mistaken(w, order, len) == HighByte(len) \in Sought(w, order)
Above(w, S, n) == \E f \in S : Has(w, f) /\ w.vals[f] > n
=============================================================================
