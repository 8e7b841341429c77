------------------------------- MODULE Message -------------------------------
(***************************************************************************)
(* libsocket/message.hpp: the frame a Session puts on the wire.  A frame   *)
(* is a packed Header (two length bytes, one byte of MessageType, one byte *)
(* of ProtoMessageType) followed by the body.  A body is represented by    *)
(* its length: encode() and decode() never look inside it.                 *)
(***************************************************************************)
EXTENDS Integers

CONSTANTS
    head_lenght,        \* sizeof(Header), in cells of the byte stream
    max_body_lenght     \* longest body encode() accepts

ASSUME FrameAssumption ==
    /\ head_lenght \in Nat \ {0}
    /\ max_body_lenght \in Nat
    /\ max_body_lenght < 65536      \* pow(maxByte, 16): the two length bytes

Byte == 0..255

\* enum class MessageType and enum class ProtoMessageType (both uint8_t).
JSON == 1
PROTO == 2
RAW == 3
MessageType == {JSON, PROTO, RAW}
DEFAULT_MSG == 255
ProtoMessageType == {1, 2, 3, DEFAULT_MSG}

Header == [len_ : Byte \X Byte, mt_ : Byte, pmt_ : Byte]

\* sizeof(data_): head_lenght + max_body_lenght + 1, the last one for the NUL.
DataSize == head_lenght + max_body_lenght + 1

(***************************************************************************)
(* encode().  It throws on a body that is too long and asserts that a      *)
(* PROTO message names its type.  The two low bytes of the length are      *)
(* copied (the build is little endian).  `Header header;' leaves pmt_      *)
(* unset unless the message is PROTO, so any byte may be sent.             *)
(***************************************************************************)
\* Mutant: encode() lets one byte more through than data_ has room for.
EncodableOneMore(len) == len <= max_body_lenght + 1

Encodable(len) == len <= max_body_lenght /\ len <= 65536

Asserted(mt, pmt) == mt = PROTO => pmt # DEFAULT_MSG

\* Mutant: memcpy of sizeof(char) bytes instead of maxByte.
LenBytesLowOnly(len) == <<len % 256, 0>>

\* Mutant: the length stored as a sequence of wider units.
LenBytesWide(len) == <<len % 65536, len \div 65536>>

LenBytes(len) == <<len % 256, (len \div 256) % 256>>

Encode(len, mt, pmt, unset) ==
    [len_ |-> LenBytes(len), mt_ |-> mt,
     pmt_ |-> IF mt = PROTO THEN pmt ELSE unset]

(***************************************************************************)
(* decode().  memcpy overwrites the low two bytes of the size_t            *)
(* body_lenght_ and leaves the others as they were; then it stores the     *)
(* terminator behind the body.                                             *)
(***************************************************************************)
DecodeLen(old, bytes) == (old \div 65536) * 65536 + bytes[1] + 256 * bytes[2]

TerminatorAt(body_lenght) == head_lenght + body_lenght
=============================================================================
