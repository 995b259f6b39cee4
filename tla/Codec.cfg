SPECIFICATION Spec
CONSTANTS
  Kinds = {"CONNECT", "CONNACK", "PUBLISH", "PUBACK", "PUBREC", "PUBREL", "PUBCOMP", "SUBSCRIBE", "SUBACK", "UNSUBSCRIBE", "UNSUBACK", "DISCONNECT", "AUTH"}
  StringLengths = {0, 1, 125, 300, 5377}
  TopicLengths = {1, 125, 2817, 9729}
  PayloadLengths <- MCPayloadLengths
  PropertyLists <- MCPropertyLists
  CodeLists <- MCCodeLists
  MaxSets = 2
INVARIANTS
  LengthsRight
  RoundTrip
  CacheFresh
  ForbiddenRefused
CHECK_DEADLOCK FALSE
