---------------------------- MODULE CodecProofs ----------------------------
(***************************************************************************)
(* Proofs about Codec, for every frame size, every set of body lengths and *)
(* every value the unset byte may hold.                                    *)
(***************************************************************************)
EXTENDS Codec, TLAPS

(***************************************************************************)
(* The two length bytes name any length below 65536, and decoding them     *)
(* into a size_t whose upper bytes are zero gives that length back.        *)
(***************************************************************************)
LEMMA LenBytesType ==
    ASSUME NEW len \in Nat
    PROVE  LenBytes(len) \in Byte \X Byte
  BY DEF LenBytes, Byte

\* decode() undoes encode()'s length bytes if the upper bytes were clear.
LEMMA DecodeLenInverse ==
    ASSUME NEW len \in Nat, len < 65536, NEW old \in Nat, old < 65536
    PROVE  DecodeLen(old, LenBytes(len)) = len
<1>1. old \div 65536 = 0
  OBVIOUS
<1>2. (len % 256) + 256 * ((len \div 256) % 256) = len
  OBVIOUS
<1>. QED  BY <1>1, <1>2 DEF DecodeLen, LenBytes

(***************************************************************************)
(* The inductive invariant: what is on the wire is the encoding of what    *)
(* was asked for, every request that got that far fits data_, and the      *)
(* size_t never holds more than a body.                                    *)
(***************************************************************************)
WireMatches ==
    phase = "sent" => \E unset \in Byte :
                          wire = Encode(asked.len, asked.mt, asked.pmt, unset)

Bounded == asked.len <= max_body_lenght /\ body_lenght_ <= max_body_lenght

IInv == TypeOK /\ Bounded /\ WireMatches /\ DecodeInvertsEncode

\* Two fresh message objects satisfy the invariant.
LEMMA InitIInv == Init => IInv
  BY FrameAssumption
     DEF Init, IInv, TypeOK, Bounded, WireMatches, DecodeInvertsEncode, Request,
         MessageType, ProtoMessageType, JSON, PROTO, RAW, DEFAULT_MSG,
         ZeroHeader, Header, Byte

\* encode() and decode() keep it.
LEMMA NextIInv == IInv /\ [Next]_vars => IInv'
<1> SUFFICES ASSUME IInv, [Next]_vars
             PROVE  IInv'
  OBVIOUS
<1> USE FrameAssumption, CodecAssumption
<1>1. ASSUME NEW len \in BodyLens, NEW mt \in MessageType,
             NEW pmt \in ProtoMessageType, Send(len, mt, pmt)
      PROVE  IInv'
  <2>1. PICK unset \in UnsetBytes : wire' = Encode(len, mt, pmt, unset)
    BY <1>1 DEF Send
  <2>2. len \in Nat /\ unset \in Byte /\ mt \in Byte /\ pmt \in Byte
    BY DEF MessageType, ProtoMessageType, JSON, PROTO, RAW, DEFAULT_MSG, Byte
  <2>3. asked' = [len |-> len, mt |-> mt, pmt |-> pmt] /\ asked' \in Request
    BY <1>1, <2>2 DEF Send, Request
  <2>4. wire' \in Header
    BY <2>1, <2>2, LenBytesType DEF Encode, Header
  <2>5. WireMatches'
    BY <2>1, <2>2, <2>3 DEF WireMatches
  <2>6. Bounded'
    BY <1>1, <2>3 DEF Send, Encodable, IInv, Bounded
  <2>. QED  BY <1>1, <2>3, <2>4, <2>5, <2>6
            DEF Send, IInv, TypeOK, DecodeInvertsEncode
<1>2. ASSUME NEW len \in BodyLens, NEW mt \in MessageType,
             NEW pmt \in ProtoMessageType, Abort(len, mt, pmt)
      PROVE  IInv'
  BY <1>2 DEF Abort, IInv, TypeOK, Bounded, WireMatches, DecodeInvertsEncode
<1>3. CASE Decode
  <2>1. PICK unset \in Byte : wire = Encode(asked.len, asked.mt, asked.pmt, unset)
    BY <1>3 DEF Decode, IInv, WireMatches
  <2>2. asked.len \in Nat /\ asked.len < 65536
        /\ body_lenght_ \in Nat /\ body_lenght_ < 65536
    BY DEF IInv, TypeOK, Bounded, Request
  <2>3. body_lenght_' = asked.len
    BY <1>3, <2>1, <2>2, DecodeLenInverse DEF Decode, Encode
  <2>4. asked' = asked /\ wire' = wire /\ header_' = wire /\ phase' = "decoded"
    BY <1>3 DEF Decode
  <2>5. DecodeInvertsEncode'
    BY <2>1, <2>3, <2>4 DEF DecodeInvertsEncode, Encode
  <2>6. TypeOK' /\ Bounded' /\ WireMatches'
    BY <2>2, <2>3, <2>4 DEF IInv, TypeOK, Bounded, WireMatches
  <2>. QED  BY <2>5, <2>6 DEF IInv
<1>4. CASE UNCHANGED vars
  BY <1>4 DEF vars, IInv, TypeOK, Bounded, WireMatches, DecodeInvertsEncode
<1>. QED  BY <1>1, <1>2, <1>3, <1>4 DEF Next

\* So it always holds.
LEMMA Invariance == Spec => []IInv
<1>. QED  BY InitIInv, NextIInv, PTL DEF Spec

(***************************************************************************)
(* Type correctness of both message objects and of the header that travels *)
(* between them: what decode() leaves in the size_t is always a length.    *)
(***************************************************************************)
THEOREM TypeCorrect == Spec => []TypeOK
<1>1. IInv => TypeOK
  BY DEF IInv
<1>. QED  BY <1>1, Invariance, PTL

(***************************************************************************)
(* What a Session decodes is what its peer encoded, for every sequence of  *)
(* frames through the same read_msg_.                                      *)
(***************************************************************************)
THEOREM RoundTrip == Spec => []DecodeInvertsEncode
<1>1. IInv => DecodeInvertsEncode
  BY DEF IInv
<1>. QED  BY <1>1, Invariance, PTL

(***************************************************************************)
(* decode() stores its terminator inside data_ whenever the peer's frames  *)
(* come from encode().                                                     *)
(***************************************************************************)
THEOREM TerminatorFits == Spec => []TerminatorInBounds
<1>1. IInv => TerminatorInBounds
  BY FrameAssumption
     DEF IInv, TypeOK, Bounded, TerminatorInBounds, TerminatorAt, DataSize
<1>. QED  BY <1>1, Invariance, PTL
=============================================================================
