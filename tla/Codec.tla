-------------------------------- MODULE Codec --------------------------------
(***************************************************************************)
(* The life of two message objects of libsocket/message.hpp: the one a     *)
(* sender fills in with encode() for each doWrite, and the one a Session   *)
(* keeps as read_msg_ and decodes every received header into.  The second  *)
(* is never cleared between frames.                                        *)
(***************************************************************************)
EXTENDS Message

CONSTANTS
    BodyLens,       \* lengths of the strings handed to encode()
    UnsetBytes      \* values the unset pmt_ byte may hold

ASSUME CodecAssumption == BodyLens \subseteq Nat /\ UnsetBytes \subseteq Byte

VARIABLES
    phase,          \* what the two sides are doing
    asked,          \* the arguments of the last successful encode()
    wire,           \* the header bytes travelling to the reader
    header_,        \* read_msg_.header_
    body_lenght_    \* read_msg_.body_lenght_, a size_t

vars == <<phase, asked, wire, header_, body_lenght_>>

Request == [len : Nat, mt : MessageType, pmt : ProtoMessageType]
ZeroHeader == [len_ |-> <<0, 0>>, mt_ |-> 0, pmt_ |-> 0]

\* The type invariant: the two message objects and the header on the wire.
TypeOK ==
    /\ phase \in {"idle", "sent", "decoded", "aborted"}
    /\ asked \in Request
    /\ wire \in Header
    /\ header_ \in Header
    /\ body_lenght_ \in Nat

\* message(): body_lenght_(0), header_().
Init ==
    /\ phase = "idle"
    /\ asked = [len |-> 0, mt |-> RAW, pmt |-> DEFAULT_MSG]
    /\ wire = ZeroHeader
    /\ header_ = ZeroHeader
    /\ body_lenght_ = 0

\* encode() returns and the frame is on its way.
Send(len, mt, pmt) ==
    /\ phase \in {"idle", "decoded"}
    /\ Encodable(len)
    /\ Asserted(mt, pmt)
    /\ phase' = "sent"
    /\ asked' = [len |-> len, mt |-> mt, pmt |-> pmt]
    /\ \E unset \in UnsetBytes : wire' = Encode(len, mt, pmt, unset)
    /\ UNCHANGED <<header_, body_lenght_>>

\* encode() runs into assert(pmt != DEFAULT_MSG), which ends the process.
Abort(len, mt, pmt) ==
    /\ phase \in {"idle", "decoded"}
    /\ Encodable(len)
    /\ ~Asserted(mt, pmt)
    /\ phase' = "aborted"
    /\ UNCHANGED <<asked, wire, header_, body_lenght_>>

\* decode() on the header that arrived.
Decode ==
    /\ phase = "sent"
    /\ phase' = "decoded"
    /\ header_' = wire
    /\ body_lenght_' = DecodeLen(body_lenght_, wire.len_)
    /\ UNCHANGED <<asked, wire>>

Next ==
    \/ \E len \in BodyLens, mt \in MessageType, pmt \in ProtoMessageType :
          Send(len, mt, pmt) \/ Abort(len, mt, pmt)
    \/ Decode

Spec == Init /\ [][Next]_vars
-----------------------------------------------------------------------------
(***************************************************************************)
(* What the reader decodes is what the sender encoded: the length, whose   *)
(* upper bytes decode() never writes, the message type, and for a PROTO    *)
(* message its type.  Whatever frames went through read_msg_ before.       *)
(***************************************************************************)
DecodeInvertsEncode ==
    phase = "decoded" =>
        /\ body_lenght_ = asked.len
        /\ header_.mt_ = asked.mt
        /\ asked.mt = PROTO => header_.pmt_ = asked.pmt

(***************************************************************************)
(* The body of a frame that encode() produced, and the terminator that     *)
(* decode() stores behind it, lie inside data_.                            *)
(***************************************************************************)
TerminatorInBounds == TerminatorAt(body_lenght_) \in 0..(DataSize - 1)

(***************************************************************************)
(* README.md and message.hpp give doWrite and encode() the default         *)
(* pmt = DEFAULT_MSG: the reader of a message sent with that default sees  *)
(* DEFAULT_MSG.                                                            *)
(***************************************************************************)
DefaultPmtReachesReader ==
    phase = "decoded" /\ asked.pmt = DEFAULT_MSG => header_.pmt_ = DEFAULT_MSG
=============================================================================
