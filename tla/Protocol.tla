------------------------------ MODULE Protocol ------------------------------
(* dispatch/protocol.rs: the two messages of the lobby, as sequences of bytes.*)
(* The integers of the messages are given by their little-endian bytes, and a *)
(* name by its UTF-8 bytes.                                                   *)
EXTENDS Naturals, Sequences

CONSTANTS MAX_NAME_LEN, MAX_CHANNEL_NAME_LEN   \* both 64

ASSUME ProtocolAssumption ==
    MAX_NAME_LEN \in 0..255 /\ MAX_CHANNEL_NAME_LEN \in 0..255

DISPATCH_MAGIC    == <<80, 83, 73, 68>>   \* 0x4449_5350
DISPATCH_VERSION  == 2
MSG_TYPE_REQUEST  == 1
MSG_TYPE_RESPONSE == 2
STATUS_OK         == 0
STATUS_REJECTED   == 1

Byte     == 0..255

(* The bytes of a String: each belongs to a character.  The first byte of a   *)
(* character tells its width, the others are continuation bytes.              *)
Continuation == 128..191
Width(first) == IF first < 128 THEN 1 ELSE IF first < 224 THEN 2 ELSE IF first < 240 THEN 3 ELSE 4
Char(b, i, j) ==
    /\ b[i] \notin Continuation /\ j = i + Width(b[i]) - 1
    /\ \A x \in i + 1 .. j : b[x] \in Continuation
Text == {b \in Seq(Byte) : \A x \in DOMAIN b :
            \E i, j \in DOMAIN b : i <= x /\ x <= j /\ Char(b, i, j)}

RegistrationRequest  == [pid : [1..4 -> Byte], revision : [1..2 -> Byte], name : Text]
RegistrationResponse == [status : Byte, client_id : [1..4 -> Byte], channel_name : Text]

Cut(name, max) == SubSeq(name, 1, IF Len(name) <= max THEN Len(name) ELSE max)

(* A message: the header, the fixed fields, the length of the name, the name. *)
Encoded(type, fields, name) ==
    DISPATCH_MAGIC \o <<DISPATCH_VERSION, type>> \o fields \o <<Len(name)>> \o name

encode_request(req) ==
    Encoded(MSG_TYPE_REQUEST, req.pid \o req.revision, Cut(req.name, MAX_NAME_LEN))

(* A wrong variant of encode_response: the type of the other message.         *)
encode_responseMistyped(resp) ==
    Encoded(MSG_TYPE_REQUEST, <<resp.status>> \o resp.client_id,
            Cut(resp.channel_name, MAX_CHANNEL_NAME_LEN))

encode_response(resp) ==
    Encoded(MSG_TYPE_RESPONSE, <<resp.status>> \o resp.client_id,
            Cut(resp.channel_name, MAX_CHANNEL_NAME_LEN))

(* The checks of a decoder, in their order; `fixed` is the number of bytes    *)
(* before the name.                                                           *)
Fault(data, type, fixed) ==
    IF Len(data) < fixed THEN "MessageTooSmall"
    ELSE IF SubSeq(data, 1, 4) # DISPATCH_MAGIC THEN "Corrupted"
    ELSE IF data[5] # DISPATCH_VERSION \/ data[6] # type THEN "HandshakeFailed"
    ELSE IF Len(data) < fixed + data[fixed] THEN "MessageTooSmall"
    ELSE "none"

(* String::from_utf8_lossy on the first bytes of a String, which is all that  *)
(* the encoders leave of a name: of a character that was cut in the middle    *)
(* what is left becomes U+FFFD.                                               *)
REPLACEMENT == <<239, 191, 189>>
Whole(b) == b = <<>> \/ \E i \in DOMAIN b : Char(b, i, Len(b))
LastChar(b) ==
    CHOOSE i \in DOMAIN b : /\ b[i] \notin Continuation
                            /\ \A x \in i + 1 .. Len(b) : b[x] \in Continuation
from_utf8_lossy(b) ==
    IF Whole(b) THEN b ELSE SubSeq(b, 1, LastChar(b) - 1) \o REPLACEMENT

NameAfter(data, fixed) == from_utf8_lossy(SubSeq(data, fixed + 1, fixed + data[fixed]))

(* decode_request and decode_response: the error, or else the message.        *)
request_error(data) == Fault(data, MSG_TYPE_REQUEST, 13)
decode_request(data) ==
    [pid |-> SubSeq(data, 7, 10), revision |-> SubSeq(data, 11, 12),
     name |-> NameAfter(data, 13)]

response_error(data) == Fault(data, MSG_TYPE_RESPONSE, 12)
decode_response(data) ==
    [status |-> data[7], client_id |-> SubSeq(data, 8, 11),
     channel_name |-> NameAfter(data, 12)]
=============================================================================
