----------------------------- MODULE WholeProofs -----------------------------
(***************************************************************************)
(* What is true of an end for as long as every send it made was taken      *)
(* whole: everything delivered was sent, no write goes on with a destroyed *)
(* Session, and no length that the reader decodes is too long for its      *)
(* buffer.  If the kernel takes every frame at once it is true for ever.   *)
(***************************************************************************)
EXTENDS FrameProofs

\* The stream of p holds whole frames and nothing else, no write is under
\* way, and only a broken connection has kept a frame out of it.
Dense(p) ==
    /\ Len(stream[p]) = start[p][Len(start[p])]
    /\ wq[p] = <<>>
    /\ \A i \in 1..Len(done[p]) : Finished(done[p][i])
    /\ reset[p] \/ AllWhole(p)
    /\ ~freedUse[p]

\* A reader has at most the frames in the stream, and one less inside a
\* body, and no header has told it more than its buffer holds.
Behind(s) ==
    /\ ~overrun[s]
    /\ Len(delivered[s]) <= Whole(Peer[s])
    /\ rd[s] = "body" => Len(delivered[s]) < Whole(Peer[s])

\* No send of p was short: its writes are dense, its reader is behind them.
DenseTillShort(p) == ~short[p] => Dense(p)
BehindTillShort(s) == ~short[Peer[s]] => Behind(s)

DInv ==
    /\ IInv
    /\ \A p \in End : DenseTillShort(p) /\ BehindTillShort(p)
    /\ KernelTakesAll => \A p \in End : ~short[p]

\* Nothing is written and nothing read yet.
LEMMA InitDInv == Init => DInv
<1> SUFFICES ASSUME Init PROVE DInv
  OBVIOUS
<1>1. IInv
  BY InitIInv
<1>2. ASSUME NEW p \in End PROVE Dense(p)
  BY DEF Init, Dense, Whole, AllWhole
<1>3. ASSUME NEW s \in End PROVE Behind(s)
  BY EndAssumption DEF Init, Behind, Whole
<1>4. \A p \in End : ~short[p]
  BY DEF Init
<1>. QED  BY <1>1, <1>2, <1>3, <1>4 DEF DInv, DenseTillShort, BehindTillShort

\* doWrite sends its whole frame, or fails because the connection is broken,
\* unless its send is short.
LEMMA doWriteDense ==
    ASSUME IInv, NEW s \in End, Dense(s),
           NEW len \in BodyLens, doWrite(s, len), ~short'[s]
    PROVE  Dense(s)'
<1> DEFINE op == [k |-> Len(sent[s]) + 1, n |-> 0,
                  total |-> FrameSize(len), ok |-> TRUE]
<1>0. TInv /\ Writer(s)
  BY DEF IInv, OInv
<1>1. /\ stream[s] \in Seq(Cell) /\ Len(stream[s]) \in Nat
      /\ sent[s] \in Seq(0..max_body_lenght) /\ Len(sent[s]) \in Nat
      /\ start[s] \in Seq(Nat) /\ Len(start[s]) \in Nat
      /\ done[s] \in Seq(WriteOp)
  BY <1>0, WriterTypes
<1>2. len \in 0..max_body_lenght /\ len \in Nat
  BY SendAssumption DEF doWrite, Encodable
<1>3. op.total \in Nat \ {0}
  BY <1>2, FrameAssumption DEF FrameSize
<1>4. op \in WriteOp /\ op.k = Len(sent[s]) + 1 /\ op.n = 0 /\ op.ok
  BY <1>1, <1>3 DEF WriteOp
<1>5. /\ WriteSome(s, op, TRUE, done[s])
      /\ sent' = [sent EXCEPT ![s] = Append(@, len)]
      /\ start' = [start EXCEPT ![s] =
            IF Len(@) = op.k /\ Len(stream'[s]) = Len(stream[s]) + op.total
            THEN Append(@, Len(stream'[s])) ELSE @]
      /\ UNCHANGED <<freedUse, reset>>
  BY Zenon DEF doWrite, netVars
<1>. HIDE DEF op
<1>6. /\ sent'[s] = Append(sent[s], len)
      /\ start'[s] =
            IF Len(start[s]) = op.k /\ Len(stream'[s]) = Len(stream[s]) + op.total
            THEN Append(start[s], Len(stream'[s])) ELSE start[s]
  BY <1>0, <1>5 DEF TInv, TypeOK, WriteTypes
<1>7. Writer(s)'
  BY doWriteWriter
<1>8. CASE reset[s]
  <2>1. /\ done' = [done EXCEPT ![s] = Append(done[s], [op EXCEPT !.ok = FALSE])]
        /\ UNCHANGED <<wq, stream>>
    BY <1>5, <1>8 DEF WriteSome, Dense
  <2>2. start'[s] = start[s]
    BY <1>1, <1>3, <1>6, <2>1
  <2>3. [op EXCEPT !.ok = FALSE] \in WriteOp /\ Finished([op EXCEPT !.ok = FALSE])
    BY <1>4 DEF WriteOp, Finished
  <2>4. done'[s] = Append(done[s], [op EXCEPT !.ok = FALSE])
    BY <1>0, <2>1 DEF TInv, TypeOK, WriteTypes
  <2>5. \A i \in 1..Len(done'[s]) : Finished(done'[s][i])
    BY <1>1, <2>3, <2>4, AppendFinished DEF Dense
  <2>. QED  BY <1>5, <1>8, <2>1, <2>2, <2>5 DEF Dense
<1>9. CASE ~reset[s]
  <2>1. AllWhole(s) /\ wq[s] = <<>>
    BY <1>9 DEF Dense
  <2>2. Offered(op) = op.total
    BY <1>3, <1>4 DEF Offered
  <2>3. PICK c \in Chunks(op.k, op.n, op.total, TRUE) :
           stream' = [stream EXCEPT ![s] = @ \o c]
    <3>1. \E j \in Take(op.total) :
             /\ short' = [short EXCEPT ![s] = @ \/ j < op.total]
             /\ \/ j = 0
                \/ \E c \in Chunks(op.k, op.n, j, TRUE) :
                      stream' = [stream EXCEPT ![s] = @ \o c]
      BY <1>5, <1>9, <2>1, <2>2, Zenon DEF WriteSome
    <3>2. PICK j \in Take(op.total) :
             /\ short' = [short EXCEPT ![s] = @ \/ j < op.total]
             /\ \/ j = 0
                \/ \E c \in Chunks(op.k, op.n, j, TRUE) :
                      stream' = [stream EXCEPT ![s] = @ \o c]
      BY <3>1
    <3>3. j = op.total
      <4>1. ~(j < op.total)
        <5>1. short \in [End -> BOOLEAN]
          BY <1>0 DEF TInv, TypeOK, WriteTypes
        <5>2. short'[s] = (short[s] \/ j < op.total)
          BY <3>2, <5>1, Zenon
        <5>. QED  BY <5>2, Zenon
      <4>2. j \in 0..op.total
        BY <1>3 DEF Take
      <4>. QED  BY <1>3, <4>1, <4>2
    <3>4. op.total # 0
      BY <1>3, <1>4
    <3>5. \E c \in Chunks(op.k, op.n, j, TRUE) :
             stream' = [stream EXCEPT ![s] = @ \o c]
      BY <3>2, <3>3, <3>4, Zenon
    <3>. QED  BY <3>3, <3>5, Zenon
  <2>4. c \in Seq(Cell) /\ Len(c) = op.total
    <3>1. op.k \in Nat /\ op.n \in Nat /\ op.total \in Nat /\ TRUE \in BOOLEAN
      BY <1>1, <1>3, <1>4
    <3>2. PICK k \in Nat, n \in Nat, j \in Nat : k = op.k /\ n = op.n /\ j = op.total
      BY <3>1
    <3>3. c \in Chunks(k, n, j, TRUE)
      BY <2>3, <3>2
    <3>4. c \in Seq(Cell) /\ Len(c) = j
      BY <3>3, FirstChunkType
    <3>. QED  BY <3>2, <3>4
  <2>5. stream'[s] = stream[s] \o c
    BY <1>0, <2>3 DEF TInv, TypeOK, WriteTypes
  <2>6. Len(stream'[s]) = Len(stream[s]) + op.total
    <3>1. Len(stream[s] \o c) = Len(stream[s]) + Len(c)
      BY <1>1, <2>4, ConcatProperties
    <3>. QED  BY <2>4, <2>5, <3>1
  <2>7. Len(start[s]) = op.k
    BY <1>1, <1>4, <2>1 DEF AllWhole, Whole
  <2>8. start'[s] = Append(start[s], Len(stream'[s])) /\ Len(stream'[s]) \in Nat
    BY <1>1, <1>3, <1>6, <2>6, <2>7
  <2>9. Len(start'[s]) = Len(start[s]) + 1 /\ Len(sent'[s]) = Len(sent[s]) + 1
    BY <1>1, <1>2, <1>6, <2>8, AppendProperties
  <2>10. AllWhole(s)'
    BY <1>1, <2>1, <2>9 DEF AllWhole, Whole
  <2>. QED  BY <1>5, <1>7, <2>10 DEF Dense, Writer, NothingElseSent
<1>. QED  BY <1>8, <1>9

\* No write is ever waiting, and what completes is finished.
LEMMA CompletionDense ==
    ASSUME IInv, NEW s \in End, Dense(s),
           WriteReady(s) \/ WriteFail(s) \/ WriteDone(s)
    PROVE  Dense(s)'
<1>0. done \in [End -> Seq(WriteOp)]
  BY DEF IInv, OInv, TInv, TypeOK, WriteTypes
<1>1. WriteDone(s) /\ done[s] # <<>>
  BY DEF Dense, WriteReady, WriteFail, WriteDone
<1>2. /\ done[s] \in Seq(WriteOp) /\ Len(done[s]) \in Nat
      /\ 1 \in 1..Len(done[s]) /\ Head(done[s]) = done[s][1]
  BY <1>0, <1>1, HeadTailProperties, EmptySeq, LenProperties
<1>3. Finished(Head(done[s]))
  BY <1>2 DEF Dense
<1>4. /\ done' = [done EXCEPT ![s] = Tail(@)]
      /\ UNCHANGED <<wq, stream, freedUse, sent, start, reset>>
  BY <1>1, <1>3 DEF WriteDone, Finished, netVars
<1>5. ASSUME NEW i \in 1..Len(Tail(done[s]))
      PROVE  Finished(Tail(done[s])[i])
  <2>1. /\ Len(Tail(done[s])) = Len(done[s]) - 1
        /\ Tail(done[s])[i] = done[s][i + 1]
    BY <1>1, <1>2, HeadTailProperties
  <2>2. i + 1 \in 1..Len(done[s])
    BY <1>2, <2>1
  <2>. QED  BY <2>1, <2>2 DEF Dense
<1>6. \A i \in 1..Len(done'[s]) : Finished(done'[s][i])
  BY <1>0, <1>4, <1>5
<1>. QED  BY <1>4, <1>6 DEF Dense, AllWhole, Whole

\* A Session that is destroyed leaves no write behind.
LEMMA ReadStepDense ==
    ASSUME IInv, NEW s \in End, Dense(s), ReadStep(s)
    PROVE  Dense(s)'
<1>0. wq \in [End -> Seq(WriteOp)] /\ done \in [End -> Seq(WriteOp)]
  BY DEF IInv, OInv, TInv, TypeOK, WriteTypes
<1>1. /\ Destroy(s) \/ UNCHANGED writeVars \/ Exit(s)
      /\ UNCHANGED reset
  BY DEF ReadStep, Open, HeaderDone, BodySome, BodyDone, CallbackReturn,
         ReadError, Drop, Exit, netVars
<1>2. UNCHANGED <<stream, sent, start, freedUse>>
  BY <1>1 DEF Destroy, writeVars, Exit
<1>3. /\ wq'[s] = <<>>
      /\ \A i \in 1..Len(done'[s]) : Finished(done'[s][i])
  <2>1. CASE Destroy(s)
    <3>1. [i \in 1..Len(wq[s]) |-> [wq[s][i] EXCEPT !.ok = FALSE]] = <<>>
      BY DEF Dense
    <3>2. done'[s] = done[s] \o <<>> /\ wq'[s] = <<>>
      BY <1>0, <2>1, <3>1 DEF Destroy
    <3>3. done'[s] = done[s]
      BY <1>0, <3>2, ConcatEmptySeq
    <3>. QED  BY <3>2, <3>3 DEF Dense
  <2>2. CASE UNCHANGED writeVars
    BY <2>2 DEF writeVars, Dense
  <2>3. CASE Exit(s)
    <3>1. wq'[s] = <<>> /\ done'[s] = <<>> /\ Len(<<>>) = 0
      BY <1>0, <2>3 DEF Exit
    <3>. QED  BY <3>1
  <2>. QED  BY <1>1, <2>1, <2>2, <2>3
<1>. QED  BY <1>1, <1>2, <1>3 DEF Dense, AllWhole, Whole

\* The reader finds a header only where a frame begins that is whole.
LEMMA ReadStepBehind ==
    ASSUME IInv, NEW s \in End, Behind(s), Dense(Peer[s]), ReadStep(s),
           UNCHANGED start
    PROVE  Behind(s)'
<1> DEFINE p == Peer[s]
           d == Len(delivered[s])
<1>0. /\ TInv /\ Reader(s) /\ p \in End
      /\ Len(start[p]) \in Nat /\ Len(start[p]) >= 1
      /\ Len(sent[p]) \in Nat /\ Len(start[p]) - 1 <= Len(sent[p])
      /\ d \in Nat
      /\ rd \in [End -> {"none", "header", "body"}]
      /\ delivered \in [End -> Seq(Seq(Cell))]
  BY ReaderFacts DEF TInv, TypeOK, SessionTypes, ReadTypes
<1>1. d <= Len(start[p]) - 1 /\ (rd[s] = "body" => d < Len(start[p]) - 1)
  BY DEF Behind, Whole
<1>2. CASE HeaderDone(s)
  <2>1. rd[s] = "header" /\ Available(s) >= head_lenght /\ UNCHANGED delivered
    BY <1>2 DEF HeaderDone
  <2>2. consumed[s] = start[p][d + 1]
    <3>1. d <= Whole(p)
      BY DEF Behind
    <3>. QED  BY <1>0, <2>1, <3>1 DEF Reader, AtFrame
  <2>3. /\ arrived[s] <= Len(stream[p]) /\ Len(stream[p]) = start[p][Len(start[p])]
        /\ arrived[s] \in Nat /\ consumed[s] \in Nat
    BY <1>0 DEF TInv, Counts, TypeOK, ReadTypes, NetTypes, Dense
  <2>4. consumed[s] < Len(stream[p])
    <3>1. Len(stream[p]) \in Nat
      BY <1>0, WriterTypes
    <3>. QED  BY <2>1, <2>3, <3>1, FrameAssumption DEF Available
  <2>5. d + 1 # Len(start[p])
    BY <1>0, <2>2, <2>3, <2>4
  <2>6. d < Len(start[p]) - 1
    BY <1>0, <1>1, <2>5
  <2>7. PICK len \in DecodedLens(s) :
           /\ body_lenght_' = [body_lenght_ EXCEPT ![s] = len]
           /\ overrun' = [overrun EXCEPT ![s] = @ \/ len > max_body_lenght]
    BY <1>2 DEF HeaderDone
  <2>8. len \in 0..max_body_lenght
    <3>1. body_lenght_'[s] = sent[p][d + 1]
      <4>1. d + 1 <= Whole(p)
        BY <1>0, <2>6 DEF Whole
      <4>. QED  BY <1>2, <4>1, HeaderIsNext
    <3>2. sent[p] \in Seq(0..max_body_lenght) /\ d + 1 \in 1..Len(sent[p])
      BY <1>0, <2>6, WriterTypes
    <3>3. sent[p][d + 1] \in 0..max_body_lenght
      BY <3>2, ElementOfSeq
    <3>4. body_lenght_'[s] = len
      BY <1>0, <2>7 DEF TInv, TypeOK, ReadTypes
    <3>. QED  BY <3>1, <3>3, <3>4
  <2>9. ~overrun'[s]
    <3>1. ~(len > max_body_lenght)
      BY <2>8, FrameAssumption
    <3>2. overrun \in [End -> BOOLEAN]
      BY <1>0 DEF TInv, TypeOK, ReadTypes
    <3>3. overrun'[s] = (overrun[s] \/ len > max_body_lenght)
      BY <2>7, <3>2, Zenon
    <3>. QED  BY <3>1, <3>3, Zenon DEF Behind
  <2>. QED  BY <2>1, <2>6, <2>9, <1>1 DEF Behind, Whole
<1>3. CASE BodyDone(s)
  <2>1. rd[s] = "body" /\ rd'[s] = "none"
    BY <1>0, <1>3 DEF BodyDone
  <2>2. Len(delivered'[s]) = d + 1
    <3>1. delivered'[s] = Append(delivered[s], getReadmsg(s))
      BY <1>0, <1>3 DEF BodyDone
    <3>2. delivered[s] \in Seq(Seq(Cell))
      BY <1>0
    <3>3. getReadmsg(s) \in Seq(Cell)
      BY <1>0, ReadmsgType DEF TInv
    <3>. QED  BY <3>1, <3>2, <3>3, AppendProperties
  <2>3. d + 1 <= Len(start[p]) - 1
    BY <1>0, <1>1, <2>1
  <2>4. UNCHANGED overrun
    BY <1>3 DEF BodyDone
  <2>. QED  BY <2>1, <2>2, <2>3, <2>4 DEF Behind, Whole
<1>4. CASE ~HeaderDone(s) /\ ~BodyDone(s)
  <2>1. /\ UNCHANGED <<delivered, overrun>>
        /\ rd'[s] = "body" => rd[s] = "body"
    BY <1>0, <1>4 DEF ReadStep, Open, BodySome, CallbackReturn, ReadAfterCallback,
                      ReadError, Drop, Exit, sessionVars, readVars
  <2>. QED  BY <1>1, <2>1 DEF Behind, Whole
<1>. QED  BY <1>2, <1>3, <1>4

\* A step of one end says nothing of the other's sends, and none is undone.
LEMMA ShortGrows ==
    ASSUME TypeOK, NEW s \in End, ReadStep(s) \/ WriteStep(s), NEW p \in End
    PROVE  /\ ~short'[p] => ~short[p]
           /\ p # s => UNCHANGED <<short[p], freedUse[p], overrun[p]>>
<1>0. /\ short \in [End -> BOOLEAN] /\ freedUse \in [End -> BOOLEAN]
      /\ overrun \in [End -> BOOLEAN]
  BY DEF TypeOK, ReadTypes, WriteTypes
<1>1. UNCHANGED short \/ \E b : short' = [short EXCEPT ![s] = @ \/ b]
  <2>1. ASSUME NEW op, NEW b, NEW q, WriteSome(s, op, b, q)
        PROVE  UNCHANGED short \/ \E c : short' = [short EXCEPT ![s] = @ \/ c]
    BY <2>1, Zenon DEF WriteSome
  <2>2. CASE ReadStep(s)
    BY <2>2 DEF ReadStep, Open, HeaderDone, BodySome, BodyDone, CallbackReturn,
                ReadError, Drop, Exit, Destroy, writeVars
  <2>3. CASE \E len \in BodyLens : doWrite(s, len)
    BY <2>1, <2>3, Zenon DEF doWrite
  <2>4. CASE WriteReady(s)
    BY <2>4, Zenon DEF WriteReady
  <2>5. CASE WriteFail(s)
    BY <2>5 DEF WriteFail
  <2>6. CASE WriteDone(s)
    BY <2>1, <2>6, Zenon DEF WriteDone
  <2>. QED  BY <2>2, <2>3, <2>4, <2>5, <2>6, Zenon DEF WriteStep
<1>2. ~short'[p] => ~short[p]
  <2>1. ASSUME NEW b, short' = [short EXCEPT ![s] = @ \/ b]
        PROVE  ~short'[p] => ~short[p]
    BY <1>0, <2>1, Zenon
  <2>. QED  BY <1>1, <2>1, Zenon
<1>3. p # s => short'[p] = short[p]
  BY <1>0, <1>1, Zenon
<1>4. p # s => freedUse'[p] = freedUse[p] /\ overrun'[p] = overrun[p]
  BY <1>0 DEF ReadStep, WriteStep, Open, HeaderDone, BodySome, BodyDone,
              CallbackReturn, ReadError, Drop, Exit, Destroy, doWrite, WriteReady,
              WriteFail, WriteDone, readVars, writeVars
<1>. QED  BY <1>2, <1>3, <1>4

\* Where the kernel takes every frame, no send is short.
LEMMA NeverShort ==
    ASSUME KernelTakesAll, TypeOK, NEW s \in End, Dense(s), ~short[s],
           ReadStep(s) \/ WriteStep(s)
    PROVE  ~short'[s]
<1>0. short \in [End -> BOOLEAN]
  BY DEF TypeOK, WriteTypes
<1>1. CASE ReadStep(s)
  BY <1>1 DEF ReadStep, Open, HeaderDone, BodySome, BodyDone, CallbackReturn,
              ReadError, Drop, Exit, Destroy, writeVars
<1>2. ASSUME NEW len \in BodyLens, doWrite(s, len) PROVE ~short'[s]
  <2>1. PICK op : /\ op = [k |-> Len(sent[s]) + 1, n |-> 0,
                           total |-> FrameSize(len), ok |-> TRUE]
                  /\ WriteSome(s, op, TRUE, done[s])
    BY <1>2, Zenon DEF doWrite
  <2>2. len \in Nat
    BY SendAssumption
  <2>3. op.total \in Nat /\ op.n = 0
    BY <2>1, <2>2, FrameAssumption DEF FrameSize
  <2>4. Offered(op) \in Nat
    BY <2>3 DEF Offered
  <2>5. UNCHANGED short \/ short' = [short EXCEPT ![s] = @ \/ Offered(op) < Offered(op)]
    BY <2>1, Zenon DEF WriteSome, Take
  <2>6. ~(Offered(op) < Offered(op))
    BY <2>4
  <2>. QED  BY <1>0, <2>5, <2>6, Zenon
<1>3. CASE WriteReady(s) \/ WriteFail(s)
  BY <1>3 DEF WriteReady, WriteFail, Dense
<1>4. CASE WriteDone(s)
  <2>1. done[s] # <<>> /\ done[s] \in Seq(WriteOp)
    BY <1>4 DEF WriteDone, TypeOK, WriteTypes
  <2>2. 1 \in 1..Len(done[s]) /\ Head(done[s]) = done[s][1]
    BY <2>1, HeadTailProperties, EmptySeq, LenProperties
  <2>3. Finished(Head(done[s]))
    BY <2>2 DEF Dense
  <2>. QED  BY <1>4, <2>3 DEF WriteDone, Finished
<1>. QED  BY <1>1, <1>2, <1>3, <1>4, Zenon DEF WriteStep

\* Only doWrite begins a frame.
LEMMA StartGrows ==
    ASSUME IInv, NEW s \in End, ReadStep(s) \/ WriteStep(s)
    PROVE  /\ Len(start[s]) \in Nat
           /\ start'[s] = start[s] \/ Len(start'[s]) = Len(start[s]) + 1
<1>1. Len(start[s]) \in Nat
  BY WriterTypes DEF IInv, OInv
<1>2. CASE ReadStep(s)
  BY <1>1, <1>2 DEF ReadStep, Open, HeaderDone, BodySome, BodyDone, CallbackReturn,
                    ReadError, Drop, Exit, Destroy, writeVars
<1>3. CASE WriteStep(s)
  <2>1. CASE \E len \in BodyLens : doWrite(s, len)
    BY <1>1, <2>1, doWriteWriter DEF Kept, Grown
  <2>2. CASE WriteReady(s) \/ WriteFail(s) \/ WriteDone(s)
    BY <1>1, <2>2 DEF WriteReady, WriteFail, WriteDone
  <2>. QED  BY <1>3, <2>1, <2>2 DEF WriteStep
<1>. QED  BY <1>1, <1>2, <1>3

\* A step of one end's Session keeps the invariant.
LEMMA EndStepDense ==
    ASSUME DInv, NEW s \in End, ReadStep(s) \/ WriteStep(s)
    PROVE  /\ \A p \in End : DenseTillShort(p)' /\ BehindTillShort(p)'
           /\ KernelTakesAll => \A p \in End : ~short'[p]
<1>0. IInv /\ TypeOK /\ UNCHANGED reset
  BY DEF DInv, IInv, OInv, TInv, ReadStep, WriteStep, Open, HeaderDone, BodySome,
         BodyDone, CallbackReturn, ReadError, Drop, Exit, doWrite, WriteReady,
         WriteFail, WriteDone, netVars
<1>1. DenseTillShort(s)'
  <2>1. SUFFICES ASSUME ~short'[s] PROVE Dense(s)'
    BY DEF DenseTillShort
  <2>2. Dense(s)
    BY <1>0, <2>1, ShortGrows DEF DInv, DenseTillShort
  <2>. QED  BY <1>0, <2>1, <2>2, doWriteDense, CompletionDense, ReadStepDense
            DEF WriteStep
<1>2. ASSUME NEW p \in End, p # s
      PROVE  DenseTillShort(p)' /\ UNCHANGED start[p]
  <2>1. UNCHANGED writerVars(p) /\ UNCHANGED <<short[p], freedUse[p]>>
    BY <1>0, <1>2, StepIsLocal, ShortGrows
  <2>2. DenseTillShort(p)
    BY DEF DInv
  <2>. QED  BY <1>0, <2>1, <2>2 DEF DenseTillShort, Dense, AllWhole, Whole, writerVars
<1>3. ASSUME NEW t \in End, UNCHANGED readerVars(t), UNCHANGED overrun[t]
      PROVE  BehindTillShort(t)'
  <2> DEFINE p == Peer[t]
  <2>1. SUFFICES ASSUME ~short'[p] PROVE Behind(t)'
    BY DEF BehindTillShort
  <2>2. p \in End /\ ~short[p]
    BY <1>0, <2>1, PeerType, ShortGrows
  <2>3. /\ Behind(t) /\ Len(delivered[t]) \in Nat
        /\ delivered'[t] = delivered[t] /\ rd'[t] = rd[t]
    BY <1>0, <1>3, <2>2, ReaderFacts DEF DInv, BehindTillShort, readerVars
  <2>4. Len(start[p]) \in Nat
    BY <1>0, <2>2, WriterTypes DEF IInv, OInv
  <2>5. Len(start'[p]) \in Nat /\ Len(start'[p]) >= Len(start[p])
    BY <1>0, <1>2, <2>2, <2>4, StartGrows
  <2>. QED  BY <1>3, <2>3, <2>4, <2>5 DEF Behind, Whole
<1>4. BehindTillShort(s)'
  <2>1. CASE ReadStep(s)
    <3>1. SUFFICES ASSUME ~short'[Peer[s]] PROVE Behind(s)'
      BY DEF BehindTillShort
    <3>2. Peer[s] \in End /\ ~short[Peer[s]]
      BY <1>0, <3>1, PeerType, ShortGrows
    <3>3. Behind(s) /\ Dense(Peer[s])
      BY <3>2 DEF DInv, BehindTillShort, DenseTillShort
    <3>4. UNCHANGED start
      BY <2>1 DEF ReadStep, Open, HeaderDone, BodySome, BodyDone, CallbackReturn,
                  ReadError, Drop, Exit, Destroy, writeVars
    <3>. QED  BY <1>0, <2>1, <3>3, <3>4, ReadStepBehind
  <2>2. CASE WriteStep(s)
    <3>1. UNCHANGED readerVars(s) /\ UNCHANGED overrun[s]
      BY <2>2 DEF WriteStep, doWrite, WriteReady, WriteFail, WriteDone,
                  sessionVars, readVars, readerVars
    <3>. QED  BY <1>3, <3>1
  <2>. QED  BY <2>1, <2>2
<1>5. ASSUME NEW t \in End, t # s PROVE BehindTillShort(t)'
  BY <1>0, <1>3, <1>5, StepIsLocal, ShortGrows
<1>6. ASSUME KernelTakesAll, NEW p \in End PROVE ~short'[p]
  <2>1. ~short[p] /\ ~short[s] /\ Dense(s)
    BY <1>6 DEF DInv, DenseTillShort
  <2>2. p # s => short'[p] = short[p]
    BY <1>0, ShortGrows
  <2>. QED  BY <1>0, <1>6, <2>1, <2>2, NeverShort
<1>. QED  BY <1>1, <1>2, <1>4, <1>5, <1>6

\* Every step keeps the invariant.
LEMMA NextDInv == DInv /\ [Next]_vars => DInv'
<1> DEFINE Rest == /\ \A p \in End : DenseTillShort(p) /\ BehindTillShort(p)
                   /\ KernelTakesAll => \A p \in End : ~short[p]
<1> SUFFICES ASSUME DInv, [Next]_vars PROVE Rest'
  BY NextIInv DEF DInv
<1>1. ASSUME NEW s \in End, ReadStep(s) \/ WriteStep(s) PROVE Rest'
  BY <1>1, EndStepDense
<1>2. ASSUME UNCHANGED <<sessionVars, readVars, writeVars>>,
             \A p \in End : reset[p] => reset'[p]
      PROVE  Rest'
  <2>1. ASSUME NEW p \in End PROVE DenseTillShort(p)'
    BY <1>2, <2>1 DEF DInv, DenseTillShort, Dense, AllWhole, Whole, writeVars
  <2>2. ASSUME NEW s \in End PROVE BehindTillShort(s)'
    BY <1>2, <2>2 DEF DInv, BehindTillShort, Behind, Whole, sessionVars, readVars,
                      writeVars
  <2>3. KernelTakesAll => \A p \in End : ~short'[p]
    BY <1>2 DEF DInv, writeVars
  <2>. QED  BY <2>1, <2>2, <2>3
<1>3. ASSUME NEW s \in End, NetStep(s)
      PROVE  /\ UNCHANGED <<sessionVars, readVars, writeVars>>
             /\ \A p \in End : reset[p] => reset'[p]
  <2>1. reset \in [End -> BOOLEAN]
    BY DEF DInv, IInv, OInv, TInv, TypeOK, NetTypes
  <2>. QED  BY <1>3, <2>1 DEF NetStep, Arrive, Reset
<1>4. UNCHANGED vars => /\ UNCHANGED <<sessionVars, readVars, writeVars>>
                        /\ \A p \in End : reset[p] => reset'[p]
  BY DEF vars, netVars
<1>5. Next => \E s \in End : ReadStep(s) \/ WriteStep(s) \/ NetStep(s)
  BY DEF Next, ReadStep, WriteStep, NetStep
<1>. HIDE DEF Rest
<1>. QED  BY <1>1, <1>2, <1>3, <1>4, <1>5

\* The invariant.
LEMMA WholeSends == Spec => []DInv
BY InitDInv, NextDInv, PTL DEF Spec

\* The reader is behind the whole frames, which are the ones sent.
LEMMA OnlySent == ASSUME KernelTakesAll PROVE DInv => DeliveredIsSent
<1> SUFFICES ASSUME DInv, NEW s \in End, NEW i \in 1..Len(delivered[s])
             PROVE  /\ i <= Len(sent[Peer[s]])
                    /\ delivered[s][i] = Body(i, sent[Peer[s]][i])
  BY DEF DeliveredIsSent
<1>1. /\ Reader(s) /\ Len(delivered[s]) \in Nat
      /\ Len(start[Peer[s]]) \in Nat /\ Len(sent[Peer[s]]) \in Nat
      /\ Len(start[Peer[s]]) - 1 <= Len(sent[Peer[s]])
  BY ReaderFacts DEF DInv
<1>2. Len(delivered[s]) <= Len(start[Peer[s]]) - 1
  BY PeerType DEF DInv, BehindTillShort, Behind, Whole
<1>3. i <= Len(sent[Peer[s]]) /\ i < Len(start[Peer[s]])
  BY <1>1, <1>2
<1>. QED  BY <1>1, <1>3 DEF Reader, Intact

(***************************************************************************)
(* If every send takes its frame, whatever a script receives is what the   *)
(* peer's script wrote, message by message, resets and exits included.     *)
(***************************************************************************)
THEOREM NothingElseDelivered == ASSUME KernelTakesAll PROVE Spec => []DeliveredIsSent
BY OnlySent, WholeSends, PTL

(***************************************************************************)
(* Nothing of doWrite keeps its Session alive, and yet no write goes on    *)
(* with a destroyed one before the kernel has taken a send of that Session *)
(* in part: what could, a completion that is not the last of its frame, is *)
(* there only after a short send.  For every way the sends are split.      *)
(***************************************************************************)
THEOREM FreedUseNeedsShortSend == Spec => []FreedUseAfterShortSend
<1>1. DInv => FreedUseAfterShortSend
  BY DEF DInv, DenseTillShort, Dense, FreedUseAfterShortSend
<1>. QED  BY <1>1, WholeSends, PTL

(***************************************************************************)
(* decode() compares its length with nothing.  Before the first short send *)
(* of the peer every header it decodes is one that encode() wrote, so the  *)
(* terminator and the body stay inside data_.  For every split of the      *)
(* stream, reset and exit.                                                 *)
(***************************************************************************)
THEOREM OverrunNeedsShortSend == Spec => []OverrunAfterShortSend
<1>1. DInv => OverrunAfterShortSend
  BY PeerType DEF DInv, BehindTillShort, Behind, OverrunAfterShortSend
<1>. QED  BY <1>1, WholeSends, PTL
-----------------------------------------------------------------------------
(***************************************************************************)
(* The refinement of Channel.                                              *)
(***************************************************************************)
Written(s) == [i \in 1..Len(sent[s]) |-> Body(i, sent[s][i])]
written == [s \in End |-> Written(s)]

\* What doWrite adds to the lengths it adds to the messages.
LEMMA WrittenGrows ==
    ASSUME NEW q \in Seq(0..max_body_lenght), NEW len \in 0..max_body_lenght
    PROVE  [i \in 1..Len(Append(q, len)) |-> Body(i, Append(q, len)[i])]
               = Append([i \in 1..Len(q) |-> Body(i, q[i])], Body(Len(q) + 1, len))
<1>1. PICK n \in Nat : n = Len(q)
  BY LenProperties
<1>2. PICK r : r = Append(q, len)
  OBVIOUS
<1>3. Len(r) = n + 1 /\ r[n + 1] = len /\ \A i \in 1..n : r[i] = q[i]
  BY <1>1, <1>2, AppendProperties
<1>4. PICK m : m = Body(n + 1, len)
  OBVIOUS
<1>5. PICK w : w = [i \in 1..n |-> Body(i, q[i])]
  OBVIOUS
<1>6. PICK X : X = {w[i] : i \in 1..n} \cup {m}
  OBVIOUS
<1>7. w \in Seq(X) /\ Len(w) = n /\ m \in X
  BY <1>5, <1>6
<1>8. /\ Append(w, m) \in Seq(X) /\ Len(Append(w, m)) = n + 1
      /\ Append(w, m)[n + 1] = m
      /\ \A i \in 1..n : Append(w, m)[i] = w[i]
  BY <1>7, AppendProperties
<1>9. PICK v : v = [i \in 1..(n + 1) |-> Body(i, r[i])]
  OBVIOUS
<1>10. ASSUME NEW i \in 1..(n + 1) PROVE v[i] = Append(w, m)[i]
  <2>1. CASE i \in 1..n
    BY <1>3, <1>5, <1>8, <1>9, <2>1
  <2>2. CASE i = n + 1
    BY <1>3, <1>4, <1>8, <1>9, <2>2
  <2>3. i \in 1..n \/ i = n + 1
    BY <1>1
  <2>. QED  BY <2>1, <2>2, <2>3
<1>11. v = Append(w, m)
  <2>1. PICK u : u = Append(w, m)
    OBVIOUS
  <2>2. u \in Seq(X) /\ Len(u) = n + 1
    BY <1>8, <2>1
  <2>3. \A i \in 1..(n + 1) : u[i] \in X /\ v[i] = u[i]
    BY <1>10, <2>1, <2>2, ElementOfSeq
  <2>4. v \in Seq(X) /\ Len(v) = n + 1
    BY <1>1, <1>9, <2>3
  <2>5. v = u
    BY <2>2, <2>3, <2>4, SeqEqual
  <2>. QED  BY <2>1, <2>5
<1>. QED  BY <1>1, <1>2, <1>3, <1>4, <1>5, <1>9, <1>11

\* doWrite writes to the channel.
LEMMA doWriteWrites ==
    ASSUME TypeOK, NEW s \in End, NEW len \in BodyLens, doWrite(s, len)
    PROVE  Ch!Write(s)
<1>1. /\ sent' = [sent EXCEPT ![s] = Append(sent[s], len)] /\ delivered' = delivered
      /\ Len(sent[s]) < MaxSends[s] /\ len <= max_body_lenght
  BY DEF doWrite, Encodable, readVars
<1>2. len \in 0..max_body_lenght /\ max_body_lenght \in Nat
  BY <1>1, SendAssumption, FrameAssumption
<1>3. sent \in [End -> Seq(0..max_body_lenght)] /\ sent[s] \in Seq(0..max_body_lenght)
  BY DEF TypeOK, WriteTypes
<1>4. PICK k \in Nat : k = Len(sent[s])
  BY <1>3, LenProperties
<1>5. PICK m : m = Body(k + 1, len)
  OBVIOUS
<1>6. Written(s)' = Append(Written(s), m)
  <2>1. sent'[s] = Append(sent[s], len)
    BY <1>1, <1>3
  <2>2. [i \in 1..Len(Append(sent[s], len)) |-> Body(i, Append(sent[s], len)[i])]
            = Append([i \in 1..Len(sent[s]) |-> Body(i, sent[s][i])], m)
    BY <1>2, <1>3, <1>4, <1>5, WrittenGrows
  <2>. QED  BY <2>1, <2>2 DEF Written
<1>7. \A t \in End \ {s} : Written(t)' = Written(t)
  BY <1>1, <1>3 DEF Written
<1>8. written' = [written EXCEPT ![s] = Append(@, m)]
  BY <1>6, <1>7 DEF written
<1>9. m \in Content
  <2>1. k + 1 \in 1..MaxSends[s]
    BY <1>1, <1>4, SendAssumption
  <2>2. k + 1 \in UNION {1..MaxSends[t] : t \in End}
    BY <2>1
  <2>. QED  BY <1>2, <1>5, <2>2 DEF Content
<1>10. (\E x \in Content : written' = [written EXCEPT ![s] = Append(@, x)])
           /\ delivered' = delivered
  BY <1>1, <1>8, <1>9
<1>. QED  BY <1>10, Zenon DEF Ch!Write, written, Written

\* readBody's handler receives the next message that was written.
LEMMA BodyDoneReceives ==
    ASSUME TypeOK, DeliveredIsSent', NEW s \in End, BodyDone(s)
    PROVE  Ch!Receive(s)
<1>1. /\ delivered' = [delivered EXCEPT ![s] = Append(delivered[s], getReadmsg(s))]
      /\ sent' = sent /\ Peer[s] \in End
  BY PeerType DEF BodyDone, writeVars
<1>2. delivered \in [End -> Seq(Seq(Cell))] /\ sent \in [End -> Seq(0..max_body_lenght)]
  BY DEF TypeOK, ReadTypes, WriteTypes
<1>3. PICK d \in Nat, n \in Nat : d = Len(delivered[s]) /\ n = Len(sent[Peer[s]])
  BY <1>1, <1>2, LenProperties
<1>4. PICK m : m = getReadmsg(s)
  OBVIOUS
<1>5. m \in Seq(Cell)
  BY <1>4, ReadmsgType
<1>6. /\ delivered'[s] = Append(delivered[s], m)
      /\ Len(delivered'[s]) = d + 1 /\ delivered'[s][d + 1] = m
  BY <1>1, <1>2, <1>3, <1>4, <1>5, AppendProperties
<1>7. d + 1 \in 1..Len(delivered'[s])
  BY <1>6
<1>8. d + 1 <= n /\ m = Body(d + 1, sent[Peer[s]][d + 1])
  BY <1>1, <1>3, <1>6, <1>7 DEF DeliveredIsSent
<1>9. Len(Written(Peer[s])) = n /\ Written(Peer[s])[d + 1] = m
  BY <1>3, <1>8 DEF Written
<1>10. /\ Len(delivered[s]) < Len(written[Peer[s]])
       /\ delivered' = [delivered EXCEPT ![s] =
                           Append(@, written[Peer[s]][Len(@) + 1])]
  <2>1. PICK w : w = written[Peer[s]]
    OBVIOUS
  <2>2. Len(w) = n /\ w[d + 1] = m
    BY <1>1, <1>9, <2>1 DEF written
  <2>3. Len(delivered[s]) < Len(w)
    BY <1>3, <1>8, <2>2
  <2>4. w[Len(delivered[s]) + 1] = m
    BY <1>3, <2>2
  <2>5. delivered' = [delivered EXCEPT ![s] = Append(delivered[s], m)]
    BY <1>1, <1>4
  <2>. QED  BY <2>1, <2>3, <2>4, <2>5
<1>11. written' = written
  BY <1>1 DEF written, Written
<1>. QED  BY <1>10, <1>11 DEF Ch!Receive, written, Written

\* Each step is one of Channel, or changes nothing there.
LEMMA ChannelStep ==
    ASSUME KernelTakesAll, DInv, [Next]_vars
    PROVE  Ch!Next \/ UNCHANGED <<written, delivered>>
<1>0. TypeOK /\ DeliveredIsSent'
  BY NextDInv, OnlySent, PTL DEF DInv, IInv, OInv, TInv
<1>1. ASSUME NEW s \in End, NEW len \in BodyLens, doWrite(s, len) PROVE Ch!Next
  BY <1>0, <1>1, doWriteWrites DEF Ch!Next
<1>2. ASSUME NEW s \in End, BodyDone(s) PROVE Ch!Next
  BY <1>0, <1>2, BodyDoneReceives DEF Ch!Next
<1>3. ASSUME UNCHANGED <<sent, delivered>> PROVE UNCHANGED <<written, delivered>>
  BY <1>3 DEF written, Written
<1>4. ASSUME NEW s \in End,
             \/ Open(s) \/ HeaderDone(s) \/ BodySome(s) \/ CallbackReturn(s)
             \/ ReadError(s) \/ Drop(s) \/ WriteReady(s) \/ WriteFail(s)
             \/ WriteDone(s) \/ Arrive(s) \/ Reset(s) \/ Exit(s)
      PROVE  UNCHANGED <<sent, delivered>>
  BY <1>4 DEF Open, HeaderDone, BodySome, CallbackReturn, ReadError, Drop, Destroy,
              WriteReady, WriteFail, WriteDone, Arrive, Reset, Exit, readVars, writeVars
<1>5. UNCHANGED vars => UNCHANGED <<sent, delivered>>
  BY DEF vars, readVars, writeVars
<1>. QED  BY <1>1, <1>2, <1>3, <1>4, <1>5 DEF Next

(***************************************************************************)
(* If every send takes its frame, the two Sessions are an ordered channel  *)
(* of whole messages in each direction, which may break at any time.       *)
(***************************************************************************)
THEOREM ConnectionIsChannel == ASSUME KernelTakesAll PROVE Spec => ImplementsChannel
<1>1. Init => Ch!Init
  <2> SUFFICES ASSUME Init PROVE Ch!Init
    OBVIOUS
  <2>1. \A s \in End : sent[s] = <<>> /\ Len(sent[s]) = 0
    BY DEF Init
  <2>2. \A s \in End : [i \in 1..Len(sent[s]) |-> Body(i, sent[s][i])] = <<>>
    BY <2>1
  <2>3. delivered = [s \in End |-> <<>>]
    BY DEF Init
  <2>. QED  BY <2>2, <2>3 DEF Ch!Init
<1>2. DInv /\ [Next]_vars => [Ch!Next]_<<written, delivered>>
  BY ChannelStep
<1>. QED
  BY <1>1, <1>2, WholeSends, PTL
     DEF Spec, ImplementsChannel, Ch!Spec, Ch!vars, written, Written
=============================================================================
