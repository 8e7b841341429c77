---------------------------- MODULE SessionProofs ----------------------------
(***************************************************************************)
(* Proofs about Session, for every set of connections, every frame size,   *)
(* every bound on the writes and every way the kernel splits them.         *)
(***************************************************************************)
EXTENDS Session, SequenceTheorems, TLAPS

(***************************************************************************)
(* Lemmas about the pieces the actions are built from.                     *)
(***************************************************************************)
LEMMA PeerType == ASSUME NEW s \in End PROVE Peer[s] \in End
  BY EndAssumption

\* The longest length has room, and two bytes are enough for it.
LEMMA DecodedRange ==
    /\ MaxDecoded \in Nat /\ MaxDecoded < 65536 /\ max_body_lenght <= MaxDecoded
    /\ Room = 1..(MaxDecoded + 1)
    /\ \A n \in 0..MaxDecoded : 1..n \subseteq Room /\ n + 1 \in Room
BY FrameAssumption, DecodeAssumption DEF Room

\* decode() undoes encode()'s length bytes if the upper bytes were clear.
LEMMA DecodeLenInverse ==
    ASSUME NEW len \in Nat, len < 65536, NEW old \in Nat, old < 65536
    PROVE  DecodeLen(old, LenBytes(len)) = len
<1>1. old \div 65536 = 0
  OBVIOUS
<1>2. (len % 256) + 256 * ((len \div 256) % 256) = len
  OBVIOUS
<1>. QED  BY <1>1, <1>2 DEF DecodeLen, LenBytes

\* A send of j cells puts j cells on the stream.
LEMMA ChunkType ==
    ASSUME NEW s \in End, NEW k \in Nat, NEW n \in Nat, NEW j \in Nat,
           NEW inDoWrite \in BOOLEAN,
           NEW chunk \in Chunks(k, n, j, inDoWrite)
    PROVE  chunk \in Seq(Cell) /\ Len(chunk) = j
<1>1. /\ [i \in 1..j |-> <<k, n + i>>] \in Seq(Cell)
      /\ Len([i \in 1..j |-> <<k, n + i>>]) = j
  BY DEF Cell
<1>2. /\ [i \in 1..j |-> Junk] \in Seq(Cell)
      /\ Len([i \in 1..j |-> Junk]) = j
  BY DEF Cell, Junk
<1>3. \/ chunk = [i \in 1..j |-> <<k, n + i>>]
      \/ chunk = [i \in 1..j |-> Junk]
  BY DEF Chunks
<1>. QED  BY <1>1, <1>2, <1>3

\* The same of the first send of a frame, which reads its own buffer.
LEMMA FirstChunkType ==
    ASSUME NEW k \in Nat, NEW n \in Nat, NEW j \in Nat,
           NEW chunk \in Chunks(k, n, j, TRUE)
    PROVE  chunk \in Seq(Cell) /\ Len(chunk) = j
<1>1. chunk = [i \in 1..j |-> <<k, n + i>>]
  BY DEF Chunks
<1>2. /\ [i \in 1..j |-> <<k, n + i>>] \in Seq(Cell)
      /\ Len([i \in 1..j |-> <<k, n + i>>]) = j
  BY DEF Cell
<1>. QED  BY <1>1, <1>2

(***************************************************************************)
(* A write op that is started or continued only ever appends to the        *)
(* stream and to the two queues of its own Session.                        *)
(***************************************************************************)
LEMMA WriteSomeEffect ==
    ASSUME TypeOK, NEW s \in End, NEW op \in WriteOp, NEW inDoWrite \in BOOLEAN,
           NEW posted \in Seq(WriteOp), WriteSome(s, op, inDoWrite, posted)
    PROVE  /\ wq' \in [End -> Seq(WriteOp)]
           /\ done' \in [End -> Seq(WriteOp)]
           /\ \E c \in Seq(Cell) : stream' = [stream EXCEPT ![s] = @ \o c]
           /\ short' \in [End -> BOOLEAN]
<1>a. /\ wq \in [End -> Seq(WriteOp)] /\ done \in [End -> Seq(WriteOp)]
      /\ stream \in [End -> Seq(Cell)] /\ short \in [End -> BOOLEAN]
  BY DEF TypeOK, WriteTypes
<1>b. ASSUME NEW e \in WriteOp, done' = [done EXCEPT ![s] = Append(posted, e)]
      PROVE  done' \in [End -> Seq(WriteOp)]
  <2>1. Append(posted, e) \in Seq(WriteOp)
    BY AppendProperties
  <2>. QED  BY <1>a, <1>b, <2>1
<1>c. short' \in [End -> BOOLEAN]
  <2>1. CASE UNCHANGED short
    BY <1>a, <2>1
  <2>2. ASSUME NEW j, short' = [short EXCEPT ![s] = @ \/ j < Offered(op)]
        PROVE  short' \in [End -> BOOLEAN]
    <3>1. (short[s] \/ j < Offered(op)) \in BOOLEAN
      BY Zenon
    <3>. QED  BY <1>a, <2>2, <3>1
  <2>. QED  BY <2>1, <2>2, Zenon DEF WriteSome
<1>0. /\ Append(wq[s], op) \in Seq(WriteOp)
      /\ stream[s] \in Seq(Cell)
      /\ <<>> \in Seq(Cell)
      /\ stream[s] \o <<>> = stream[s]
  BY <1>a
<1>1. CASE /\ wq' = [wq EXCEPT ![s] = Append(@, op)]
           /\ done' = [done EXCEPT ![s] = posted]
           /\ UNCHANGED stream
  <2>1. stream' = [stream EXCEPT ![s] = @ \o <<>>]
    BY <1>a, <1>0, <1>1
  <2>2. \E c \in Seq(Cell) : stream' = [stream EXCEPT ![s] = @ \o c]
    BY <1>0, <2>1
  <2>. QED  BY <1>a, <1>c, <1>0, <1>1, <2>2
<1>2. CASE /\ done' = [done EXCEPT ![s] = Append(posted, [op EXCEPT !.ok = FALSE])]
           /\ UNCHANGED <<wq, stream>>
  <2>1. stream' = [stream EXCEPT ![s] = @ \o <<>>]
    BY <1>a, <1>0, <1>2
  <2>2. [op EXCEPT !.ok = FALSE] \in WriteOp
    BY DEF WriteOp
  <2>3. \E c \in Seq(Cell) : stream' = [stream EXCEPT ![s] = @ \o c]
    BY <1>0, <2>1
  <2>4. done' \in [End -> Seq(WriteOp)]
    BY <1>b, <1>2, <2>2
  <2>5. wq' \in [End -> Seq(WriteOp)]
    BY <1>a, <1>2
  <2>. QED  BY <1>c, <2>3, <2>4, <2>5
<1>3. ASSUME NEW j \in Take(Offered(op)), j > 0,
             NEW chunk \in Chunks(op.k, op.n, j, inDoWrite),
             stream' = [stream EXCEPT ![s] = @ \o chunk],
             done' = [done EXCEPT ![s] = Append(posted, [op EXCEPT !.n = @ + j])],
             UNCHANGED wq
      PROVE  /\ wq' \in [End -> Seq(WriteOp)]
             /\ done' \in [End -> Seq(WriteOp)]
             /\ \E c \in Seq(Cell) : stream' = [stream EXCEPT ![s] = @ \o c]
  <2>1. op.total \in Nat /\ op.n \in Nat /\ op.k \in Nat
    BY DEF WriteOp
  <2>2. j \in Nat
    BY <1>3, <2>1 DEF Take, Offered
  <2>3. chunk \in Seq(Cell)
    BY <1>3, <2>1, <2>2, ChunkType
  <2>4. op.n + j \in Nat
    BY <2>1, <2>2
  <2>5. [op EXCEPT !.n = @ + j] \in WriteOp
    BY <2>4 DEF WriteOp
  <2>6. done' \in [End -> Seq(WriteOp)]
    <3>1. PICK e \in WriteOp : e = [op EXCEPT !.n = @ + j]
      BY <2>5
    <3>. QED  BY <1>b, <1>3, <3>1
  <2>7. \E c \in Seq(Cell) : stream' = [stream EXCEPT ![s] = @ \o c]
    BY <1>3, <2>3
  <2>. QED  BY <1>a, <1>3, <2>6, <2>7
<1>4. CASE /\ wq[s] = <<>>
           /\ ~reset[s]
           /\ \E j \in Take(Offered(op)) :
                 /\ j > 0
                 /\ \E chunk \in Chunks(op.k, op.n, j, inDoWrite) :
                       stream' = [stream EXCEPT ![s] = @ \o chunk]
                 /\ done' = [done EXCEPT ![s] =
                                Append(posted, [op EXCEPT !.n = @ + j])]
                 /\ UNCHANGED wq
  BY <1>c, <1>3, <1>4
<1>6. /\ wq' \in [End -> Seq(WriteOp)]
      /\ done' \in [End -> Seq(WriteOp)]
      /\ \E c \in Seq(Cell) : stream' = [stream EXCEPT ![s] = @ \o c]
  BY <1>1, <1>2, <1>4, Zenon DEF WriteSome
<1>. QED  BY <1>c, <1>6

\* What decode() finds fits into its two bytes.
LEMMA DecodedLensType ==
    ASSUME TypeOK, NEW s \in End
    PROVE  DecodedLens(s) \subseteq 0..MaxDecoded
<1>0. /\ sent \in [End -> Seq(0..max_body_lenght)]
      /\ body_lenght_[s] \in 0..MaxDecoded
  BY DEF TypeOK, SessionTypes, ReadTypes, WriteTypes, NetTypes
<1>1. ASSUME NEW k \in 1..Len(sent[Peer[s]])
      PROVE  DecodeLen(body_lenght_[s], LenBytes(sent[Peer[s]][k]))
                \in 0..MaxDecoded
  <2>1. sent[Peer[s]] \in Seq(0..max_body_lenght)
    BY <1>0, PeerType
  <2>2. sent[Peer[s]][k] \in 0..max_body_lenght
    BY <2>1, ElementOfSeq
  <2>3. PICK len \in Nat : len = sent[Peer[s]][k] /\ len <= max_body_lenght
    BY <2>2, FrameAssumption
  <2>4. PICK old \in Nat : old = body_lenght_[s] /\ old < 65536
    BY <1>0, DecodedRange
  <2>5. DecodeLen(old, LenBytes(len)) = len
    BY <2>3, <2>4, FrameAssumption, DecodeLenInverse
  <2>6. len \in 0..MaxDecoded
    BY <2>3, DecodedRange, FrameAssumption
  <2>. QED  BY <2>3, <2>4, <2>5, <2>6
<1>. QED  BY <1>1, Zenon DEF DecodedLens

\* getReadmsg copies cells, those of the last body or what lies behind.
LEMMA ReadmsgType == ASSUME TypeOK, NEW s \in End PROVE getReadmsg(s) \in Seq(Cell)
<1>1. body_lenght_[s] \in 0..MaxDecoded /\ body[s] \in [Room -> Cell]
  BY DEF TypeOK, ReadTypes
<1>2. body_lenght_[s] \in Nat /\ \A i \in 1..body_lenght_[s] : body[s][i] \in Cell
  BY <1>1, DecodedRange
<1>. QED  BY <1>2 DEF getReadmsg

-----------------------------------------------------------------------------
(***************************************************************************)
(* Type correctness.  The cells a read takes are cells of the peer's       *)
(* stream because no end reads more than arrived, and no more arrives than *)
(* was sent.                                                               *)
(***************************************************************************)
Counts ==
    \A s \in End : consumed[s] <= arrived[s] /\ arrived[s] <= Len(stream[Peer[s]])

TInv == TypeOK /\ Counts

\* Two Sessions that are not connected yet satisfy it.
LEMMA InitTInv == Init => TInv
<1> SUFFICES ASSUME Init PROVE TInv
  OBVIOUS
<1>1. /\ wq \in [End -> Seq(WriteOp)]
      /\ done \in [End -> Seq(WriteOp)]
      /\ stream \in [End -> Seq(Cell)]
      /\ sent \in [End -> Seq(0..max_body_lenght)]
      /\ delivered \in [End -> Seq(Seq(Cell))]
      /\ start \in [End -> Seq(Nat)]
  BY DEF Init
<1>2. body \in [End -> [Room -> Cell]]
  BY DEF Init, Cell, Junk
<1>3. Counts
  BY EndAssumption DEF Init, Counts
<1>4. /\ st \in [End -> {"new", "live", "dead"}]
      /\ held \in [End -> BOOLEAN]
      /\ cb \in [End -> {"none", "open", "read"}]
      /\ rd \in [End -> {"none", "header", "body"}]
      /\ freedUse \in [End -> BOOLEAN]
      /\ reset \in [End -> BOOLEAN]
      /\ short \in [End -> BOOLEAN]
      /\ overrun \in [End -> BOOLEAN]
  BY DEF Init
<1>5. /\ body_lenght_ \in [End -> 0..MaxDecoded]
      /\ fill \in [End -> 0..MaxDecoded]
      /\ arrived \in [End -> Nat]
      /\ consumed \in [End -> Nat]
  BY DecodedRange DEF Init
<1>. QED  BY <1>1, <1>2, <1>3, <1>4, <1>5
          DEF TInv, TypeOK, SessionTypes, ReadTypes, WriteTypes, NetTypes

\* A stream that only grows keeps everything that was counted in it.
LEMMA GrowKeepsCounts ==
    ASSUME TInv, NEW s \in End, NEW c \in Seq(Cell),
           stream' = [stream EXCEPT ![s] = @ \o c],
           UNCHANGED <<consumed, arrived>>
    PROVE  stream' \in [End -> Seq(Cell)] /\ Counts'
<1>0. stream \in [End -> Seq(Cell)]
  BY DEF TInv, TypeOK, SessionTypes, ReadTypes, WriteTypes, NetTypes
<1>1. ASSUME NEW p \in End
      PROVE  stream'[p] \in Seq(Cell) /\ Len(stream[p]) <= Len(stream'[p])
  BY <1>0, ConcatProperties
<1>2. stream' \in [End -> Seq(Cell)]
  BY <1>0, <1>1
<1>3. ASSUME NEW t \in End
      PROVE  consumed'[t] <= arrived'[t] /\ arrived'[t] <= Len(stream'[Peer[t]])
  <2>1. Peer[t] \in End
    BY PeerType
  <2>2. consumed[t] <= arrived[t] /\ arrived[t] <= Len(stream[Peer[t]])
    BY DEF TInv, Counts
  <2>3. arrived[t] \in Nat /\ stream[Peer[t]] \in Seq(Cell)
    BY <1>0, <2>1 DEF TInv, TypeOK, SessionTypes, ReadTypes, WriteTypes, NetTypes
  <2>4. Len(stream[Peer[t]]) <= Len(stream'[Peer[t]])
        /\ Len(stream[Peer[t]]) \in Nat /\ Len(stream'[Peer[t]]) \in Nat
    BY <1>0, <1>1, <2>1
  <2>. QED  BY <2>2, <2>3, <2>4
<1>. QED  BY <1>2, <1>3 DEF Counts

\* ~Session only moves waiting writes to the completed ones.
LEMMA DestroyType ==
    ASSUME TypeOK, NEW s \in End, Destroy(s)
    PROVE  /\ st' \in [End -> {"new", "live", "dead"}]
           /\ wq' \in [End -> Seq(WriteOp)]
           /\ done' \in [End -> Seq(WriteOp)]
<1> DEFINE failed == [i \in 1..Len(wq[s]) |-> [wq[s][i] EXCEPT !.ok = FALSE]]
<1>0. /\ st \in [End -> {"new", "live", "dead"}]
      /\ wq \in [End -> Seq(WriteOp)]
      /\ done \in [End -> Seq(WriteOp)]
  BY DEF TypeOK, SessionTypes, ReadTypes, WriteTypes, NetTypes
<1>1. wq[s] \in Seq(WriteOp) /\ done[s] \in Seq(WriteOp) /\ <<>> \in Seq(WriteOp)
  BY <1>0
<1>2. ASSUME NEW i \in 1..Len(wq[s])
      PROVE  [wq[s][i] EXCEPT !.ok = FALSE] \in WriteOp
  <2>1. wq[s][i] \in WriteOp
    BY <1>1, ElementOfSeq
  <2>. QED  BY <2>1 DEF WriteOp
<1>3. failed \in Seq(WriteOp)
  BY <1>1, <1>2, LenProperties
<1>4. done[s] \o failed \in Seq(WriteOp)
  BY <1>1, <1>3
<1>5. /\ st' = [st EXCEPT ![s] = "dead"]
      /\ done' = [done EXCEPT ![s] = @ \o failed]
      /\ wq' = [wq EXCEPT ![s] = <<>>]
  BY DEF Destroy
<1> HIDE DEF failed
<1>. QED  BY <1>0, <1>1, <1>4, <1>5

\* What a step leaves alone keeps its type.
LEMMA KeptTypes ==
    ASSUME TInv
    PROVE  /\ UNCHANGED sessionVars => SessionTypes'
           /\ UNCHANGED readVars => ReadTypes'
           /\ UNCHANGED writeVars => WriteTypes'
           /\ UNCHANGED netVars => NetTypes'
           /\ UNCHANGED <<consumed, arrived, stream>> => Counts'
<1>1. UNCHANGED sessionVars => SessionTypes'
  BY DEF TInv, TypeOK, SessionTypes, sessionVars
<1>2. UNCHANGED readVars => ReadTypes'
  BY DEF TInv, TypeOK, ReadTypes, readVars
<1>3. UNCHANGED writeVars => WriteTypes'
  BY DEF TInv, TypeOK, WriteTypes, writeVars
<1>4. UNCHANGED netVars => NetTypes'
  BY DEF TInv, TypeOK, NetTypes, netVars
<1>5. UNCHANGED <<consumed, arrived, stream>> => Counts'
  BY DEF TInv, Counts
<1>. QED  BY <1>1, <1>2, <1>3, <1>4, <1>5

\* A step that may destroy the Session and otherwise writes nothing.
LEMMA MaybeDestroyType ==
    ASSUME TInv, NEW s \in End,
           Destroy(s) \/ UNCHANGED <<st, writeVars>>
    PROVE  st' \in [End -> {"new", "live", "dead"}] /\ WriteTypes' /\ UNCHANGED stream
<1>1. CASE Destroy(s)
  <2>1. /\ st' \in [End -> {"new", "live", "dead"}]
        /\ wq' \in [End -> Seq(WriteOp)]
        /\ done' \in [End -> Seq(WriteOp)]
    BY <1>1, DestroyType DEF TInv
  <2>2. UNCHANGED <<freedUse, stream, sent, short, start>>
    BY <1>1 DEF Destroy
  <2>. QED  BY <2>1, <2>2 DEF TInv, TypeOK, WriteTypes
<1>2. CASE UNCHANGED <<st, writeVars>>
  <2>1. WriteTypes' /\ UNCHANGED stream
    BY <1>2, KeptTypes DEF writeVars
  <2>. QED  BY <1>2, <2>1 DEF TInv, TypeOK, SessionTypes
<1>. QED  BY <1>1, <1>2

\* The steps of the read chain keep it.
LEMMA ReadStepTInv ==
    ASSUME TInv, NEW s \in End,
           \/ Open(s) \/ HeaderDone(s) \/ BodySome(s) \/ BodyDone(s)
           \/ CallbackReturn(s) \/ ReadError(s) \/ Drop(s)
    PROVE  TInv'
<1>1. CASE Open(s)
  <2>1. SessionTypes'
    BY <1>1 DEF Open, TInv, TypeOK, SessionTypes
  <2>2. UNCHANGED <<readVars, writeVars, netVars>>
    BY <1>1 DEF Open
  <2>3. UNCHANGED <<consumed, arrived, stream>>
    BY <2>2 DEF readVars, writeVars, netVars
  <2>. QED  BY <2>1, <2>2, <2>3, KeptTypes DEF TInv, TypeOK
<1>2. CASE HeaderDone(s)
  <2>1. SessionTypes'
    BY <1>2 DEF HeaderDone, TInv, TypeOK, SessionTypes
  <2>2. UNCHANGED <<writeVars, netVars>> /\ UNCHANGED <<arrived, stream>>
    BY <1>2 DEF HeaderDone, writeVars, netVars
  <2>3. consumed' \in [End -> Nat] /\ fill' \in [End -> 0..MaxDecoded]
    BY <1>2, FrameAssumption, DecodedRange DEF HeaderDone, TInv, TypeOK, ReadTypes
  <2>4. /\ body_lenght_' \in [End -> 0..MaxDecoded]
        /\ body' \in [End -> [Room -> Cell]]
        /\ overrun' \in [End -> BOOLEAN]
    <3>1. PICK len \in DecodedLens(s) :
             /\ body_lenght_' = [body_lenght_ EXCEPT ![s] = len]
             /\ body' = [body EXCEPT ![s][len + 1] = Junk]
             /\ overrun' = [overrun EXCEPT ![s] = @ \/ len > max_body_lenght]
      BY <1>2 DEF HeaderDone
    <3>2. len \in 0..MaxDecoded
      BY DecodedLensType DEF TInv
    <3>3. /\ body_lenght_ \in [End -> 0..MaxDecoded]
          /\ body \in [End -> [Room -> Cell]]
          /\ overrun \in [End -> BOOLEAN]
      BY DEF TInv, TypeOK, ReadTypes
    <3>4. body' \in [End -> [Room -> Cell]]
      BY <3>1, <3>3 DEF Cell, Junk
    <3>5. overrun' \in [End -> BOOLEAN]
      <4>1. (overrun[s] \/ len > max_body_lenght) \in BOOLEAN
        BY Zenon
      <4>. QED  BY <3>1, <3>3, <4>1
    <3>. QED  BY <3>1, <3>2, <3>3, <3>4, <3>5
  <2>5. ReadTypes'
    BY <1>2, <2>3, <2>4 DEF HeaderDone, TInv, TypeOK, ReadTypes
  <2>6. Counts'
    <3>1. consumed[s] + head_lenght <= arrived[s]
      BY <1>2, FrameAssumption
         DEF HeaderDone, Available, TInv, TypeOK, ReadTypes, NetTypes
    <3>. QED  BY <1>2, <2>2, <3>1 DEF HeaderDone, TInv, TypeOK, ReadTypes, Counts
  <2>. QED  BY <2>1, <2>2, <2>5, <2>6, KeptTypes DEF TInv, TypeOK
<1>3. CASE BodySome(s)
  <2>1. UNCHANGED <<sessionVars, writeVars, netVars>> /\ UNCHANGED <<arrived, stream>>
    BY <1>3 DEF BodySome, writeVars, netVars
  <2>2. PICK j \in 1..(body_lenght_[s] - fill[s]) :
           /\ j <= Available(s)
           /\ body' = [body EXCEPT ![s] =
                [i \in Room |->
                    IF i \in (fill[s] + 1)..(fill[s] + j)
                    THEN stream[Peer[s]][consumed[s] + i - fill[s]]
                    ELSE @[i]]]
           /\ fill' = [fill EXCEPT ![s] = @ + j]
           /\ consumed' = [consumed EXCEPT ![s] = @ + j]
    BY <1>3 DEF BodySome
  <2>3. /\ body_lenght_[s] \in 0..MaxDecoded
        /\ fill[s] \in 0..MaxDecoded
        /\ consumed[s] \in Nat
        /\ arrived[s] \in Nat
        /\ j \in Nat
    BY DEF TInv, TypeOK, ReadTypes, NetTypes
  <2>4. fill[s] + j \in 0..MaxDecoded /\ consumed[s] + j \in Nat
    <3>1. PICK len \in 0..MaxDecoded, f \in 0..MaxDecoded, c \in Nat :
             len = body_lenght_[s] /\ f = fill[s] /\ c = consumed[s]
      BY <2>3
    <3>2. j \in 1..(len - f) /\ MaxDecoded \in Nat
      BY <2>2, <3>1, DecodedRange
    <3>3. f + j \in 0..MaxDecoded
      BY <3>2
    <3>4. c + j \in Nat
      BY <2>3
    <3>. QED  BY <3>1, <3>3, <3>4
  <2>5. consumed[s] + j <= arrived[s]
    BY <2>2, <2>3 DEF Available
  <2>6. stream[Peer[s]] \in Seq(Cell) /\ arrived[s] <= Len(stream[Peer[s]])
    BY PeerType DEF TInv, TypeOK, WriteTypes, Counts
  <2>7. ASSUME NEW i \in Room, i \in (fill[s] + 1)..(fill[s] + j)
        PROVE  stream[Peer[s]][consumed[s] + i - fill[s]] \in Cell
    <3>1. Len(stream[Peer[s]]) \in Nat
      BY <2>6, LenProperties
    <3>2. i \in Int /\ fill[s] + 1 <= i /\ i <= fill[s] + j
      BY <2>3, <2>7
    <3>3. consumed[s] + j <= Len(stream[Peer[s]])
      BY <2>3, <2>5, <2>6, <3>1
    <3>4. consumed[s] + i - fill[s] \in 1..Len(stream[Peer[s]])
      <4>1. fill[s] \in Int /\ consumed[s] \in Nat /\ j \in Nat
        BY <2>3, DecodedRange
      <4>2. consumed[s] + i - fill[s] \in Int /\ 1 <= consumed[s] + i - fill[s]
        BY <3>2, <4>1
      <4>3. consumed[s] + i - fill[s] <= consumed[s] + j
        BY <3>2, <4>1
      <4>4. consumed[s] + i - fill[s] <= Len(stream[Peer[s]])
        BY <3>1, <3>2, <3>3, <4>1, <4>3
      <4>. QED  BY <3>1, <4>2, <4>4
    <3>. QED  BY <2>6, <3>4, ElementOfSeq
  <2>8. body' \in [End -> [Room -> Cell]]
    <3>1. body \in [End -> [Room -> Cell]]
      BY DEF TInv, TypeOK, ReadTypes
    <3>. QED  BY <2>2, <2>7, <3>1
  <2>9. fill' \in [End -> 0..MaxDecoded] /\ consumed' \in [End -> Nat]
    BY <2>2, <2>4 DEF TInv, TypeOK, ReadTypes
  <2>10. ReadTypes'
    BY <1>3, <2>8, <2>9 DEF BodySome, TInv, TypeOK, ReadTypes
  <2>11. Counts'
    BY <2>1, <2>2, <2>5 DEF TInv, TypeOK, ReadTypes, Counts
  <2>. QED  BY <2>1, <2>10, <2>11, KeptTypes DEF TInv, TypeOK
<1>4. CASE BodyDone(s)
  <2>1. SessionTypes'
    BY <1>4 DEF BodyDone, TInv, TypeOK, SessionTypes
  <2>2. /\ UNCHANGED <<writeVars, netVars>>
        /\ UNCHANGED <<consumed, arrived, stream>>
    BY <1>4 DEF BodyDone, writeVars, netVars
  <2>3. getReadmsg(s) \in Seq(Cell)
    BY ReadmsgType DEF TInv
  <2>4. delivered' \in [End -> Seq(Seq(Cell))]
    BY <1>4, <2>3 DEF BodyDone, TInv, TypeOK, ReadTypes
  <2>5. ReadTypes'
    BY <1>4, <2>4 DEF BodyDone, TInv, TypeOK, ReadTypes
  <2>. QED  BY <2>1, <2>2, <2>5, KeptTypes DEF TInv, TypeOK
<1>5. CASE CallbackReturn(s)
  <2>1. SessionTypes'
    BY <1>5 DEF CallbackReturn, ReadAfterCallback, TInv, TypeOK, SessionTypes
  <2>2. UNCHANGED <<readVars, writeVars, netVars>>
    BY <1>5 DEF CallbackReturn
  <2>3. UNCHANGED <<consumed, arrived, stream>>
    BY <2>2 DEF readVars, writeVars, netVars
  <2>. QED  BY <2>1, <2>2, <2>3, KeptTypes DEF TInv, TypeOK
<1>6. CASE ReadError(s)
  <2>1. Destroy(s) \/ UNCHANGED <<st, writeVars>>
    BY <1>6 DEF ReadError
  <2>2. st' \in [End -> {"new", "live", "dead"}] /\ WriteTypes' /\ UNCHANGED stream
    BY <2>1, MaybeDestroyType
  <2>3. SessionTypes'
    BY <1>6, <2>2 DEF ReadError, TInv, TypeOK, SessionTypes
  <2>4. UNCHANGED <<readVars, netVars>> /\ UNCHANGED <<consumed, arrived, stream>>
    BY <1>6, <2>2 DEF ReadError, readVars, netVars
  <2>. QED  BY <2>2, <2>3, <2>4, KeptTypes DEF TInv, TypeOK
<1>7. CASE Drop(s)
  <2>1. Destroy(s) \/ UNCHANGED <<st, writeVars>>
    BY <1>7 DEF Drop
  <2>2. st' \in [End -> {"new", "live", "dead"}] /\ WriteTypes' /\ UNCHANGED stream
    BY <2>1, MaybeDestroyType
  <2>3. SessionTypes'
    BY <1>7, <2>2 DEF Drop, TInv, TypeOK, SessionTypes
  <2>4. UNCHANGED <<readVars, netVars>> /\ UNCHANGED <<consumed, arrived, stream>>
    BY <1>7, <2>2 DEF Drop, readVars, netVars
  <2>. QED  BY <2>2, <2>3, <2>4, KeptTypes DEF TInv, TypeOK
<1>. QED  BY <1>1, <1>2, <1>3, <1>4, <1>5, <1>6, <1>7

\* So do the steps of doWrite and its composed writes,
LEMMA WriteStepTInv ==
    ASSUME TInv, NEW s \in End,
           \/ \E len \in BodyLens : doWrite(s, len)
           \/ WriteReady(s) \/ WriteFail(s) \/ WriteDone(s)
    PROVE  TInv'
<1>0. /\ wq \in [End -> Seq(WriteOp)]
      /\ done \in [End -> Seq(WriteOp)]
      /\ freedUse \in [End -> BOOLEAN]
      /\ stream \in [End -> Seq(Cell)]
      /\ sent \in [End -> Seq(0..max_body_lenght)]
      /\ start \in [End -> Seq(Nat)]
      /\ short \in [End -> BOOLEAN]
      /\ TypeOK
  BY DEF TInv, TypeOK, WriteTypes
\* Appending to the stream is all a write does to what is counted.
<1>1. ASSUME NEW c \in Seq(Cell), stream' = [stream EXCEPT ![s] = @ \o c],
             UNCHANGED <<sessionVars, readVars, netVars>>
      PROVE  /\ SessionTypes' /\ ReadTypes' /\ NetTypes' /\ Counts'
             /\ stream' \in [End -> Seq(Cell)]
  <2>1. UNCHANGED <<consumed, arrived>>
    BY <1>1 DEF readVars, netVars
  <2>2. stream' \in [End -> Seq(Cell)] /\ Counts'
    BY <1>1, <2>1, GrowKeepsCounts
  <2>. QED  BY <1>1, <2>2, KeptTypes
<1>2. ASSUME NEW len \in BodyLens, doWrite(s, len)
      PROVE  TInv'
  <2> DEFINE op == [k |-> Len(sent[s]) + 1, n |-> 0,
                    total |-> FrameSize(len), ok |-> TRUE]
  <2>1. len \in 0..max_body_lenght
    BY <1>2, SendAssumption DEF doWrite, Encodable
  <2>2. op \in WriteOp
    <3>1. Len(sent[s]) + 1 \in Nat
      BY <1>0, LenProperties
    <3>2. FrameSize(len) \in Nat
      BY <2>1, FrameAssumption DEF FrameSize
    <3>. QED  BY <3>1, <3>2 DEF WriteOp
  <2>3. /\ WriteSome(s, op, TRUE, done[s])
        /\ sent' = [sent EXCEPT ![s] = Append(@, len)]
        /\ start' = [start EXCEPT ![s] =
              IF Len(@) = op.k /\ Len(stream'[s]) = Len(stream[s]) + op.total
              THEN Append(@, Len(stream'[s])) ELSE @]
        /\ UNCHANGED <<sessionVars, readVars, freedUse, netVars>>
    BY <1>2, Zenon DEF doWrite
  <2>. HIDE DEF op
  <2>4. /\ wq' \in [End -> Seq(WriteOp)]
        /\ done' \in [End -> Seq(WriteOp)]
        /\ \E c \in Seq(Cell) : stream' = [stream EXCEPT ![s] = @ \o c]
        /\ short' \in [End -> BOOLEAN]
    BY <1>0, <2>2, <2>3, WriteSomeEffect
  <2>5. PICK c \in Seq(Cell) : stream' = [stream EXCEPT ![s] = @ \o c]
    BY <2>4
  <2>6. /\ SessionTypes' /\ ReadTypes' /\ NetTypes' /\ Counts'
        /\ stream' \in [End -> Seq(Cell)]
    BY <1>1, <2>3, <2>5
  <2>7. sent' \in [End -> Seq(0..max_body_lenght)]
    BY <1>0, <2>1, <2>3
  <2>8. start' \in [End -> Seq(Nat)]
    <3>1. stream'[s] \in Seq(Cell) /\ start[s] \in Seq(Nat)
      BY <1>0, <2>6
    <3>2. Len(stream'[s]) \in Nat
      BY <3>1, LenProperties
    <3>3. Append(start[s], Len(stream'[s])) \in Seq(Nat)
      BY <3>1, <3>2
    <3>. QED  BY <1>0, <2>3, <3>1, <3>3
  <2>9. WriteTypes'
    BY <1>0, <2>3, <2>4, <2>6, <2>7, <2>8 DEF WriteTypes
  <2>. QED  BY <2>6, <2>9 DEF TInv, TypeOK
<1>3. CASE WriteReady(s)
  <2>0. PICK j \in 1..(Head(wq[s]).total - Head(wq[s]).n) :
           /\ short' = [short EXCEPT ![s] = @ \/ j < Offered(Head(wq[s]))]
           /\ \E c \in Chunks(Head(wq[s]).k, Head(wq[s]).n, j, FALSE) :
                 stream' = [stream EXCEPT ![s] = @ \o c]
           /\ done' = [done EXCEPT ![s] =
                          Append(@, [Head(wq[s]) EXCEPT !.n = @ + j])]
    BY <1>3 DEF WriteReady, Offered
  <2>1. PICK c \in Chunks(Head(wq[s]).k, Head(wq[s]).n, j, FALSE) :
           stream' = [stream EXCEPT ![s] = @ \o c]
    BY <2>0
  <2>2. Head(wq[s]) \in WriteOp /\ Tail(wq[s]) \in Seq(WriteOp)
    BY <1>0, <1>3, HeadTailProperties DEF WriteReady
  <2>3. /\ Head(wq[s]).total \in Nat /\ Head(wq[s]).n \in Nat
        /\ Head(wq[s]).k \in Nat
    BY <2>2 DEF WriteOp
  <2>4. j \in Nat /\ Head(wq[s]).n + j \in Nat
    BY <2>3
  <2>5. c \in Seq(Cell)
    BY <2>3, <2>4, ChunkType
  <2>6. [Head(wq[s]) EXCEPT !.n = @ + j] \in WriteOp
    BY <2>2, <2>4 DEF WriteOp
  <2>7. done' \in [End -> Seq(WriteOp)]
    BY <1>0, <2>0, <2>6
  <2>8. /\ wq' = [wq EXCEPT ![s] = Tail(@)]
        /\ UNCHANGED <<sessionVars, readVars, freedUse, sent, start, netVars>>
    BY <1>3 DEF WriteReady
  <2>9. wq' \in [End -> Seq(WriteOp)]
    BY <1>0, <2>2, <2>8
  <2>10. /\ SessionTypes' /\ ReadTypes' /\ NetTypes' /\ Counts'
         /\ stream' \in [End -> Seq(Cell)]
    BY <1>1, <2>1, <2>5, <2>8
  <2>11. short' \in [End -> BOOLEAN]
    <3>1. (short[s] \/ j < Offered(Head(wq[s]))) \in BOOLEAN
      BY Zenon
    <3>. QED  BY <1>0, <2>0, <3>1
  <2>12. WriteTypes'
    BY <1>0, <2>7, <2>8, <2>9, <2>10, <2>11 DEF WriteTypes
  <2>. QED  BY <2>10, <2>12 DEF TInv, TypeOK
<1>4. CASE WriteFail(s)
  <2>1. Head(wq[s]) \in WriteOp /\ Tail(wq[s]) \in Seq(WriteOp)
    BY <1>0, <1>4, HeadTailProperties DEF WriteFail
  <2>2. [Head(wq[s]) EXCEPT !.ok = FALSE] \in WriteOp
    BY <2>1 DEF WriteOp
  <2>3. /\ done' = [done EXCEPT ![s] =
                       Append(@, [Head(wq[s]) EXCEPT !.ok = FALSE])]
        /\ wq' = [wq EXCEPT ![s] = Tail(@)]
        /\ UNCHANGED <<sessionVars, readVars, freedUse, stream, sent, short, start,
                       netVars>>
    BY <1>4 DEF WriteFail
  <2>4. done' \in [End -> Seq(WriteOp)] /\ wq' \in [End -> Seq(WriteOp)]
    BY <1>0, <2>1, <2>2, <2>3
  <2>5. WriteTypes'
    BY <1>0, <2>3, <2>4 DEF WriteTypes
  <2>6. UNCHANGED <<consumed, arrived, stream>>
    BY <2>3 DEF readVars, netVars
  <2>. QED  BY <2>3, <2>5, <2>6, KeptTypes DEF TInv, TypeOK
<1>5. CASE WriteDone(s)
  <2>1. Head(done[s]) \in WriteOp /\ Tail(done[s]) \in Seq(WriteOp)
    BY <1>0, <1>5, HeadTailProperties DEF WriteDone
  <2>2. UNCHANGED <<sessionVars, readVars, sent, start, netVars>>
    BY <1>5 DEF WriteDone
  <2>3. \/ /\ done' = [done EXCEPT ![s] = Tail(@)]
           /\ UNCHANGED <<wq, stream, short>>
           /\ freedUse' \in [End -> BOOLEAN]
        \/ /\ WriteSome(s, Head(done[s]), FALSE, Tail(done[s]))
           /\ UNCHANGED freedUse
    BY <1>0, <1>5 DEF WriteDone
  <2>4. CASE /\ done' = [done EXCEPT ![s] = Tail(@)]
             /\ UNCHANGED <<wq, stream, short>>
             /\ freedUse' \in [End -> BOOLEAN]
    <3>1. WriteTypes'
      BY <1>0, <2>1, <2>2, <2>4 DEF WriteTypes
    <3>2. UNCHANGED <<consumed, arrived, stream>>
      BY <2>2, <2>4 DEF readVars, netVars
    <3>. QED  BY <2>2, <3>1, <3>2, KeptTypes DEF TInv, TypeOK
  <2>5. CASE /\ WriteSome(s, Head(done[s]), FALSE, Tail(done[s]))
             /\ UNCHANGED freedUse
    <3>1. /\ wq' \in [End -> Seq(WriteOp)]
          /\ done' \in [End -> Seq(WriteOp)]
          /\ \E c \in Seq(Cell) : stream' = [stream EXCEPT ![s] = @ \o c]
          /\ short' \in [End -> BOOLEAN]
      BY <1>0, <2>1, <2>5, WriteSomeEffect
    <3>2. /\ SessionTypes' /\ ReadTypes' /\ NetTypes' /\ Counts'
          /\ stream' \in [End -> Seq(Cell)]
      BY <1>1, <2>2, <3>1
    <3>3. WriteTypes'
      BY <1>0, <2>2, <2>5, <3>1, <3>2 DEF WriteTypes
    <3>. QED  BY <3>2, <3>3 DEF TInv, TypeOK
  <2>. QED  BY <2>3, <2>4, <2>5
<1>. QED  BY <1>2, <1>3, <1>4, <1>5

\* and those of the network and the processes.
LEMMA NetStepTInv ==
    ASSUME TInv, NEW s \in End, Arrive(s) \/ Reset(s) \/ Exit(s)
    PROVE  TInv'
<1>1. CASE Arrive(s)
  <2>1. PICK a \in (arrived[s] + 1)..Len(stream[Peer[s]]) :
           arrived' = [arrived EXCEPT ![s] = a]
    BY <1>1 DEF Arrive
  <2>2. /\ UNCHANGED <<sessionVars, readVars, writeVars>>
        /\ UNCHANGED <<reset, consumed, stream>>
    BY <1>1 DEF Arrive, readVars, writeVars
  <2>3. stream[Peer[s]] \in Seq(Cell) /\ arrived[s] \in Nat
    BY PeerType DEF TInv, TypeOK, WriteTypes, NetTypes
  <2>4. Len(stream[Peer[s]]) \in Nat
    BY <2>3, LenProperties
  <2>5. a \in Nat /\ arrived[s] <= a /\ a <= Len(stream[Peer[s]])
    BY <2>3, <2>4
  <2>6. NetTypes'
    BY <2>1, <2>2, <2>5 DEF TInv, TypeOK, NetTypes
  <2>7. ASSUME NEW t \in End
        PROVE  consumed'[t] <= arrived'[t] /\ arrived'[t] <= Len(stream'[Peer[t]])
    <3>1. /\ consumed[t] <= arrived[t] /\ arrived[t] <= Len(stream[Peer[t]])
          /\ consumed[t] \in Nat /\ arrived[t] \in Nat
      BY DEF TInv, Counts, TypeOK, ReadTypes, NetTypes
    <3>. QED  BY <2>1, <2>2, <2>5, <3>1 DEF TInv, TypeOK, NetTypes
  <2>8. Counts'
    BY <2>7 DEF Counts
  <2>. QED  BY <2>2, <2>6, <2>8, KeptTypes DEF TInv, TypeOK
<1>2. CASE Reset(s)
  <2>1. NetTypes'
    BY <1>2 DEF Reset, TInv, TypeOK, NetTypes
  <2>2. /\ UNCHANGED <<sessionVars, readVars, writeVars>>
        /\ UNCHANGED <<consumed, arrived, stream>>
    BY <1>2 DEF Reset, readVars, writeVars
  <2>. QED  BY <2>1, <2>2, KeptTypes DEF TInv, TypeOK
<1>3. CASE Exit(s)
  <2>1. SessionTypes'
    BY <1>3 DEF Exit, TInv, TypeOK, SessionTypes
  <2>2. WriteTypes'
    BY <1>3 DEF Exit, TInv, TypeOK, WriteTypes
  <2>3. /\ UNCHANGED <<readVars, netVars>>
        /\ UNCHANGED <<consumed, arrived, stream>>
    BY <1>3 DEF Exit, readVars, netVars
  <2>. QED  BY <2>1, <2>2, <2>3, KeptTypes DEF TInv, TypeOK
<1>. QED  BY <1>1, <1>2, <1>3

\* Every step keeps it.
LEMMA NextTInv == TInv /\ [Next]_vars => TInv'
<1>1. ASSUME TInv, NEW s \in End,
             \/ Open(s) \/ HeaderDone(s) \/ BodySome(s) \/ BodyDone(s)
             \/ CallbackReturn(s) \/ ReadError(s) \/ Drop(s)
             \/ \E len \in BodyLens : doWrite(s, len)
             \/ WriteReady(s) \/ WriteFail(s) \/ WriteDone(s)
             \/ Arrive(s) \/ Reset(s) \/ Exit(s)
      PROVE  TInv'
  BY <1>1, ReadStepTInv, WriteStepTInv, NetStepTInv
<1>2. ASSUME TInv, UNCHANGED vars PROVE TInv'
  <2>1. /\ UNCHANGED <<sessionVars, readVars, writeVars, netVars>>
        /\ UNCHANGED <<consumed, arrived, stream>>
    BY <1>2 DEF vars, readVars, writeVars, netVars
  <2>. QED  BY <1>2, <2>1, KeptTypes DEF TInv, TypeOK
<1>. QED  BY <1>1, <1>2 DEF Next

(***************************************************************************)
(* Every variable keeps its type, however the ends, the kernel and the     *)
(* network interleave: also where decode() takes other bytes for a header  *)
(* and finds a length that no end has written, two bytes bound it; and no  *)
(* Session reads more than has arrived or sees more than was sent.         *)
(***************************************************************************)
THEOREM TypeCorrect == Spec => []TypeOK
<1>1. TInv => TypeOK
  BY DEF TInv
<1>. QED  BY <1>1, InitTInv, NextTInv, PTL DEF Spec

-----------------------------------------------------------------------------
(***************************************************************************)
(* Ownership.  LiveIffOwned is not inductive by itself: CallbackReturn     *)
(* would destroy what it returns to if the callback's session_ptr could be *)
(* collected during the call.                                              *)
(***************************************************************************)
CallbackHeld == \A s \in End : cb[s] # "none" => held[s]

OInv == TInv /\ LiveIffOwned /\ CallbackHeld

\* Before a connection there is neither a Session nor an owner.
LEMMA InitOInv == Init => OInv
<1>1. Init => LiveIffOwned /\ CallbackHeld
  BY DEF Init, LiveIffOwned, CallbackHeld
<1>. QED  BY <1>1, InitTInv DEF OInv

\* Every step that takes the last owner away destroys the Session.
LEMMA NextOInv == OInv /\ [Next]_vars => OInv'
<1> SUFFICES ASSUME OInv, [Next]_vars PROVE LiveIffOwned' /\ CallbackHeld'
  BY NextTInv DEF OInv
<1>0. /\ st \in [End -> {"new", "live", "dead"}]
      /\ held \in [End -> BOOLEAN]
      /\ cb \in [End -> {"none", "open", "read"}]
      /\ rd \in [End -> {"none", "header", "body"}]
      /\ LiveIffOwned
      /\ CallbackHeld
  BY DEF OInv, TInv, TypeOK, SessionTypes
<1>1. ASSUME UNCHANGED sessionVars PROVE LiveIffOwned' /\ CallbackHeld'
  BY <1>0, <1>1 DEF sessionVars, LiveIffOwned, CallbackHeld
<1>2. ASSUME NEW s \in End, Open(s) PROVE LiveIffOwned' /\ CallbackHeld'
  BY <1>0, <1>2 DEF Open, LiveIffOwned, CallbackHeld
<1>3. ASSUME NEW s \in End, HeaderDone(s) PROVE LiveIffOwned' /\ CallbackHeld'
  BY <1>0, <1>3 DEF HeaderDone, LiveIffOwned, CallbackHeld
<1>4. ASSUME NEW s \in End, BodyDone(s) PROVE LiveIffOwned' /\ CallbackHeld'
  BY <1>0, <1>4 DEF BodyDone, LiveIffOwned, CallbackHeld
<1>5. ASSUME NEW s \in End, CallbackReturn(s)
      PROVE  LiveIffOwned' /\ CallbackHeld'
  BY <1>0, <1>5 DEF CallbackReturn, ReadAfterCallback, LiveIffOwned, CallbackHeld
<1>6. ASSUME NEW s \in End, ReadError(s) PROVE LiveIffOwned' /\ CallbackHeld'
  <2>1. CASE held[s]
    BY <1>0, <1>6, <2>1 DEF ReadError, LiveIffOwned, CallbackHeld
  <2>2. CASE ~held[s]
    BY <1>0, <1>6, <2>2 DEF ReadError, Destroy, Idle, LiveIffOwned, CallbackHeld
  <2>. QED  BY <2>1, <2>2
<1>7. ASSUME NEW s \in End, Drop(s) PROVE LiveIffOwned' /\ CallbackHeld'
  <2>1. CASE HandlerOwns(s)
    BY <1>0, <1>7, <2>1 DEF Drop, HandlerOwns, Idle, LiveIffOwned, CallbackHeld
  <2>2. CASE ~HandlerOwns(s)
    BY <1>0, <1>7, <2>2
       DEF Drop, HandlerOwns, Destroy, Idle, LiveIffOwned, CallbackHeld
  <2>. QED  BY <2>1, <2>2
<1>8. ASSUME NEW s \in End, Exit(s) PROVE LiveIffOwned' /\ CallbackHeld'
  BY <1>0, <1>8 DEF Exit, LiveIffOwned, CallbackHeld
<1>9. ASSUME NEW s \in End,
             \/ BodySome(s) \/ \E len \in BodyLens : doWrite(s, len)
             \/ WriteReady(s) \/ WriteFail(s) \/ WriteDone(s)
             \/ Arrive(s) \/ Reset(s)
      PROVE  UNCHANGED sessionVars
  BY <1>9 DEF BodySome, doWrite, WriteReady, WriteFail, WriteDone, Arrive, Reset
<1>10. UNCHANGED vars => UNCHANGED sessionVars
  BY DEF vars
<1>. QED
  BY <1>1, <1>2, <1>3, <1>4, <1>5, <1>6, <1>7, <1>8, <1>9, <1>10 DEF Next

(***************************************************************************)
(* shared_from_this() in the read handlers: whatever the script keeps,     *)
(* drops or is called for, a Session is destroyed when, and only when,     *)
(* nothing refers to it any more.                                          *)
(***************************************************************************)
THEOREM Ownership == Spec => []LiveIffOwned
<1>1. OInv => LiveIffOwned
  BY DEF OInv
<1>. QED  BY <1>1, InitOInv, NextOInv, PTL DEF Spec

-----------------------------------------------------------------------------
(***************************************************************************)
(* The refinement of SessionLife: one lemma for each end of a step.        *)
(***************************************************************************)
phases == [s \in End |-> Phase(s)]

\* No Session is new and called back, or destroyed and called back.
LEMMA PhaseFacts ==
    ASSUME OInv, NEW s \in End
    PROVE  /\ st[s] \in {"new", "live", "dead"}
           /\ cb[s] \in {"none", "open", "read"}
           /\ rd[s] \in {"none", "header", "body"}
           /\ st[s] = "live" <=> held[s] \/ cb[s] # "none" \/ rd[s] # "none"
BY DEF OInv, TInv, TypeOK, SessionTypes, LiveIffOwned

\* What the script sees of a Session does not change with its other variables.
LEMMA PhaseKept ==
    ASSUME \A s \in End : Phase(s)' = Phase(s)
    PROVE  phases' = phases
BY DEF phases

\* A change of one Session's phase is a change of SessionLife's.
LEMMA PhaseMoves ==
    ASSUME NEW s \in End, NEW from, NEW to,
           \A t \in End : t # s => Phase(t)' = Phase(t),
           Phase(s) \in from, Phase(s)' = to
    PROVE  Life!Goes(s, from, to)
<1>1. phases' = [phases EXCEPT ![s] = to]
  BY DEF phases
<1>. QED  BY <1>1 DEF Life!Goes, phases

\* Each step is one of SessionLife, or changes nothing there.
LEMMA LifeStep ==
    ASSUME OInv, [Next]_vars
    PROVE  Life!Next \/ phases' = phases
<1>0. /\ st \in [End -> {"new", "live", "dead"}]
      /\ cb \in [End -> {"none", "open", "read"}]
      /\ rd \in [End -> {"none", "header", "body"}]
  BY DEF OInv, TInv, TypeOK, SessionTypes
<1>1. ASSUME UNCHANGED sessionVars PROVE phases' = phases
  BY <1>1 DEF sessionVars, phases, Phase
<1>2. ASSUME NEW s \in End, Open(s) PROVE Life!Introduce(s)
  <2>1. \A t \in End : t # s => Phase(t)' = Phase(t)
    BY <1>0, <1>2 DEF Open, Phase
  <2>2. Phase(s) \in {"new"} /\ Phase(s)' = "callback"
    BY <1>0, <1>2 DEF Open, Phase
  <2>. QED  BY <2>1, <2>2, PhaseMoves DEF Life!Introduce
<1>3. ASSUME NEW s \in End, HeaderDone(s) PROVE phases' = phases
  BY <1>0, <1>3, PhaseKept DEF HeaderDone, Phase
<1>4. ASSUME NEW s \in End, BodyDone(s) PROVE Life!Message(s)
  <2>1. \A t \in End : t # s => Phase(t)' = Phase(t)
    BY <1>0, <1>4 DEF BodyDone, Phase
  <2>2. Phase(s) \in {"quiet"} /\ Phase(s)' = "callback"
    BY <1>0, <1>4, PhaseFacts DEF BodyDone, Idle, Phase
  <2>. QED  BY <2>1, <2>2, PhaseMoves DEF Life!Message
<1>5. ASSUME NEW s \in End, CallbackReturn(s)
      PROVE  Life!Return(s) \/ Life!Finish(s)
  <2>1. \A t \in End : t # s => Phase(t)' = Phase(t)
    BY <1>0, <1>5 DEF CallbackReturn, Phase
  <2>2. Phase(s) = "callback" /\ Phase(s)' \in {"quiet", "over"}
    BY <1>0, <1>5, PhaseFacts DEF CallbackReturn, Phase
  <2>3. CASE Phase(s)' = "quiet"
    BY <2>1, <2>2, <2>3, PhaseMoves DEF Life!Return
  <2>4. CASE Phase(s)' = "over"
    BY <2>1, <2>2, <2>4, PhaseMoves DEF Life!Finish
  <2>. QED  BY <2>2, <2>3, <2>4
<1>6. ASSUME NEW s \in End, ReadError(s) PROVE Life!Finish(s)
  <2>1. st' = st \/ st' = [st EXCEPT ![s] = "dead"]
    BY <1>6 DEF ReadError, Destroy
  <2>2. \A t \in End : t # s => Phase(t)' = Phase(t)
    BY <1>0, <1>6, <2>1 DEF ReadError, Phase
  <2>3. Phase(s) \in {"new", "callback", "quiet"} /\ Phase(s)' = "over"
    BY <1>0, <1>6, <2>1, PhaseFacts DEF ReadError, Idle, Phase
  <2>. QED  BY <2>2, <2>3, PhaseMoves DEF Life!Finish
<1>7. ASSUME NEW s \in End, Drop(s) PROVE phases' = phases
  <2>1. \/ st' = st
        \/ rd[s] = "none" /\ st' = [st EXCEPT ![s] = "dead"]
    BY <1>7 DEF Drop, Destroy, HandlerOwns
  <2>2. ASSUME NEW t \in End PROVE Phase(t)' = Phase(t)
    BY <1>0, <1>7, <2>1, PhaseFacts DEF Drop, Idle, Phase
  <2>. QED  BY <2>2, PhaseKept
<1>8. ASSUME NEW s \in End, Exit(s) PROVE Life!Finish(s) \/ phases' = phases
  <2>1. \A t \in End : t # s => Phase(t)' = Phase(t)
    BY <1>0, <1>8 DEF Exit, Phase
  <2>2. Phase(s) \in {"callback", "quiet", "over"} /\ Phase(s)' = "over"
    BY <1>0, <1>8 DEF Exit, Phase
  <2>3. CASE Phase(s) = "over"
    BY <2>1, <2>2, <2>3, PhaseKept
  <2>4. CASE Phase(s) # "over"
    BY <2>1, <2>2, <2>4, PhaseMoves DEF Life!Finish
  <2>. QED  BY <2>3, <2>4
<1>9. ASSUME NEW s \in End,
             \/ BodySome(s) \/ \E len \in BodyLens : doWrite(s, len)
             \/ WriteReady(s) \/ WriteFail(s) \/ WriteDone(s)
             \/ Arrive(s) \/ Reset(s)
      PROVE  UNCHANGED sessionVars
  BY <1>9 DEF BodySome, doWrite, WriteReady, WriteFail, WriteDone, Arrive, Reset
<1>10. UNCHANGED vars => UNCHANGED sessionVars
  BY DEF vars
<1>. QED
  BY <1>1, <1>2, <1>3, <1>4, <1>5, <1>6, <1>7, <1>8, <1>9, <1>10
     DEF Next, Life!Next

(***************************************************************************)
(* The Session implements SessionLife: a script is introduced to it once,  *)
(* gets one callback at a time, and none when the chain of reads has       *)
(* ended, whatever the peer, the network and Lua's collector do.           *)
(***************************************************************************)
THEOREM LivesAsPromised == Spec => KeepsLife
<1>1. Init => Life!Init
  BY DEF Init, Life!Init, Phase
<1>2. OInv /\ [Next]_vars => [Life!Next]_phases
  BY LifeStep
<1>3. Spec => []OInv
  BY InitOInv, NextOInv, PTL DEF Spec
<1>. QED  BY <1>1, <1>2, <1>3, PTL DEF Spec, KeepsLife, Life!Spec, phases

=============================================================================
