------------------------------ MODULE FrameProofs ------------------------------
(***************************************************************************)
(* The proof that the frames an end wrote before its first short send      *)
(* reach the other script intact.  The invariant says where each of these  *)
(* frames stands in the stream and where the reader is in them.            *)
(***************************************************************************)
EXTENDS SessionProofs

\* How many frames of p the kernel took whole before its first short send.
Whole(p) == Len(start[p]) - 1

\* Nothing was sent short yet: the next write may still be whole.
AllWhole(p) == Whole(p) = Len(sent[p])

\* The frames taken whole stand in p's stream one after the other.
FramesLaid(p) ==
    /\ Len(start[p]) >= 1
    /\ start[p][1] = 0
    /\ Whole(p) <= Len(sent[p])
    /\ \A i \in 1..Len(start[p]) : start[p][i] <= Len(stream[p])
    /\ \A i \in 1..Whole(p) :
          start[p][i + 1] = start[p][i] + head_lenght + sent[p][i]
    /\ \A i \in 1..Whole(p) : \A j \in 1..(head_lenght + sent[p][i]) :
          stream[p][start[p][i] + j] = <<i, j>>

\* A completion that does not send anything more.
Finished(op) == ~op.ok \/ op.n = op.total

\* As long as all were whole, the stream holds nothing else, and no write is
\* under way that could add to it.
NothingElseSent(p) ==
    AllWhole(p) =>
        /\ Len(stream[p]) = start[p][Len(start[p])]
        /\ wq[p] = <<>>
        /\ \A i \in 1..Len(done[p]) : Finished(done[p][i])

\* The reader s cannot get ahead of frames that are still to come.
ReaderBehind(s) ==
    AllWhole(Peer[s]) =>
        /\ Len(delivered[s]) <= Whole(Peer[s])
        /\ rd[s] = "body" => Len(delivered[s]) < Whole(Peer[s])

\* Between two bodies it stands where the next frame starts.
AtFrame(s) ==
    /\ Len(delivered[s]) <= Whole(Peer[s])
    /\ rd[s] = "header" \/ cb[s] = "read" \/ st[s] = "new"
    => consumed[s] = start[Peer[s]][Len(delivered[s]) + 1]

\* Inside the body of frame k, which starts at this place of the stream, it
\* has the length of the body and has copied as much as it has consumed.
Inside(s, k, at, len) ==
    /\ body_lenght_[s] = len
    /\ fill[s] <= len
    /\ consumed[s] = at + head_lenght + fill[s]
    /\ \A j \in 1..fill[s] : body[s][j] = <<k, head_lenght + j>>

InFrame(s) ==
    LET k == Len(delivered[s]) + 1
        p == Peer[s]
    IN  k <= Whole(p) /\ rd[s] = "body" => Inside(s, k, start[p][k], sent[p][k])

\* IntactBeforeShortSend for one reader.
Intact(s) ==
    \A i \in 1..Len(delivered[s]) :
        i < Len(start[Peer[s]]) => delivered[s][i] = Body(i, sent[Peer[s]][i])

Writer(p) == FramesLaid(p) /\ NothingElseSent(p)
Reader(s) == ReaderBehind(s) /\ AtFrame(s) /\ InFrame(s) /\ Intact(s)

IInv == OInv /\ (\A p \in End : Writer(p)) /\ (\A s \in End : Reader(s))

\* Nothing is written and nothing read yet.
LEMMA InitIInv == Init => IInv
<1> SUFFICES ASSUME Init PROVE IInv
  OBVIOUS
<1>1. OInv
  BY InitOInv
<1>2. ASSUME NEW p \in End PROVE Writer(p)
  BY DEF Init, Writer, FramesLaid, NothingElseSent, Whole, AllWhole
<1>3. ASSUME NEW s \in End PROVE Reader(s)
  BY EndAssumption
     DEF Init, Reader, ReaderBehind, AtFrame, InFrame, Intact, Whole, AllWhole
<1>. QED  BY <1>1, <1>2, <1>3 DEF IInv

\* What the types say about one writer and one reader.
LEMMA WriterTypes ==
    ASSUME TInv, NEW p \in End
    PROVE  /\ stream[p] \in Seq(Cell) /\ Len(stream[p]) \in Nat
           /\ sent[p] \in Seq(0..max_body_lenght) /\ Len(sent[p]) \in Nat
           /\ start[p] \in Seq(Nat) /\ Len(start[p]) \in Nat
           /\ wq[p] \in Seq(WriteOp) /\ done[p] \in Seq(WriteOp)
<1>1. /\ stream[p] \in Seq(Cell)
      /\ sent[p] \in Seq(0..max_body_lenght)
      /\ start[p] \in Seq(Nat)
      /\ wq[p] \in Seq(WriteOp) /\ done[p] \in Seq(WriteOp)
  BY DEF TInv, TypeOK, WriteTypes
<1>. QED  BY <1>1, LenProperties

\* And about one reader.
LEMMA ReaderTypes ==
    ASSUME TInv, NEW s \in End
    PROVE  /\ body_lenght_[s] \in 0..MaxDecoded
           /\ body[s] \in [Room -> Cell]
           /\ fill[s] \in 0..MaxDecoded
           /\ consumed[s] \in Nat
           /\ delivered[s] \in Seq(Seq(Cell)) /\ Len(delivered[s]) \in Nat
<1>1. /\ body_lenght_[s] \in 0..MaxDecoded
      /\ body[s] \in [Room -> Cell]
      /\ fill[s] \in 0..MaxDecoded
      /\ consumed[s] \in Nat
      /\ delivered[s] \in Seq(Seq(Cell))
  BY DEF TInv, TypeOK, ReadTypes
<1>. QED  BY <1>1, LenProperties

-----------------------------------------------------------------------------
(***************************************************************************)
(* Steps of the writer.                                                    *)
(***************************************************************************)
Extends(new, old) ==
    /\ Len(new) \in Nat
    /\ Len(old) <= Len(new)
    /\ \A i \in 1..Len(old) : new[i] = old[i]

\* A sequence that stays the same extends itself.
LEMMA SelfExtends ==
    ASSUME NEW S, NEW q \in Seq(S) PROVE Extends(q, q)
BY LenProperties DEF Extends

\* What a send adds comes behind what is there.
LEMMA ConcatExtends ==
    ASSUME NEW S, NEW q \in Seq(S), NEW c \in Seq(S) PROVE Extends(q \o c, q)
BY ConcatProperties, LenProperties DEF Extends

\* So does one more element.
LEMMA AppendExtends ==
    ASSUME NEW S, NEW q \in Seq(S), NEW x \in S PROVE Extends(Append(q, x), q)
BY AppendProperties, LenProperties DEF Extends

\* Frames that were laid stay where they are while more is written.
LEMMA FramesLaidKept ==
    ASSUME TInv, NEW p \in End, FramesLaid(p),
           start'[p] = start[p],
           Extends(stream'[p], stream[p]),
           Extends(sent'[p], sent[p])
    PROVE  FramesLaid(p)'
<1>0. /\ start[p] \in Seq(Nat) /\ Len(start[p]) \in Nat
      /\ sent[p] \in Seq(0..max_body_lenght) /\ Len(sent[p]) \in Nat
      /\ Len(stream[p]) \in Nat
  BY WriterTypes
<1>1. ASSUME NEW i \in 1..Whole(p)
      PROVE  /\ sent'[p][i] = sent[p][i]
             /\ sent[p][i] \in 0..max_body_lenght
             /\ start[p][i] \in Nat
             /\ i \in 1..Len(start[p]) /\ i + 1 \in 1..Len(start[p])
             /\ start[p][i + 1] = start[p][i] + head_lenght + sent[p][i]
             /\ start[p][i + 1] <= Len(stream[p])
  <2>a. PICK n \in Nat, m \in Nat : n = Len(start[p]) /\ m = Len(sent[p])
    BY <1>0
  <2>b. i \in 1..(n - 1) /\ n - 1 <= m
    BY <2>a DEF FramesLaid, Whole
  <2>c. i \in 1..m /\ i \in 1..n /\ i + 1 \in 1..n
    BY <2>b
  <2>1. i \in 1..Len(sent[p]) /\ i \in 1..Len(start[p]) /\ i + 1 \in 1..Len(start[p])
    BY <2>a, <2>c
  <2>2. sent[p][i] \in 0..max_body_lenght /\ start[p][i] \in Nat
    BY <1>0, <2>1, ElementOfSeq
  <2>. QED  BY <2>1, <2>2 DEF FramesLaid, Extends
<1>2. ASSUME NEW i \in 1..Whole(p), NEW j \in 1..(head_lenght + sent[p][i])
      PROVE  stream'[p][start[p][i] + j] = <<i, j>>
  <2>1. start[p][i] + j \in 1..Len(stream[p])
    <3>1. /\ start[p][i] \in Nat /\ sent[p][i] \in Nat
          /\ start[p][i] + head_lenght + sent[p][i] <= Len(stream[p])
      BY <1>1, FrameAssumption
    <3>2. PICK a \in Nat, h \in Nat, m \in Nat, l \in Nat :
             a = start[p][i] /\ h = head_lenght /\ m = sent[p][i] /\ l = Len(stream[p])
      <4>1. head_lenght \in Nat /\ Len(stream[p]) \in Nat
        BY <1>0, FrameAssumption
      <4>. QED  BY <3>1, <4>1, Zenon
    <3>3. a + h + m <= l /\ j \in 1..(h + m)
      BY <3>1, <3>2
    <3>4. a + j \in 1..l
      BY <3>3
    <3>. QED  BY <3>2, <3>4
  <2>. QED  BY <2>1 DEF FramesLaid, Extends
<1>3. ASSUME NEW i \in 1..Len(start[p])
      PROVE  start[p][i] <= Len(stream'[p])
  <2>1. PICK a \in Nat : a = start[p][i]
    BY <1>0, ElementOfSeq
  <2>2. PICK l \in Nat : l = Len(stream[p])
    BY <1>0
  <2>3. a <= l
    BY <2>1, <2>2 DEF FramesLaid
  <2>4. PICK m \in Nat : m = Len(stream'[p]) /\ l <= m
    BY <2>2 DEF Extends
  <2>5. a <= m
    BY <2>3, <2>4
  <2>. QED  BY <2>1, <2>4, <2>5
<1>4. Whole(p) <= Len(sent'[p])
  <2>1. PICK n \in Nat, m \in Nat : n = Len(start[p]) /\ m = Len(sent[p])
    BY <1>0
  <2>2. PICK l \in Nat : l = Len(sent'[p]) /\ m <= l
    BY <2>1 DEF Extends
  <2>3. n - 1 <= m
    BY <2>1 DEF FramesLaid, Whole
  <2>4. n - 1 <= l
    BY <2>2, <2>3
  <2>. QED  BY <2>1, <2>2, <2>4 DEF Whole
<1>5. Whole(p)' = Whole(p)
  BY DEF Whole
<1>6. Len(start'[p]) >= 1 /\ start'[p][1] = 0
  BY DEF FramesLaid
<1>7. \A i \in 1..Len(start'[p]) : start'[p][i] <= Len(stream'[p])
  BY <1>3
<1>8. \A i \in 1..Whole(p) :
         start'[p][i + 1] = start'[p][i] + head_lenght + sent'[p][i]
  BY <1>1
<1>9. \A i \in 1..Whole(p) : \A j \in 1..(head_lenght + sent'[p][i]) :
         stream'[p][start'[p][i] + j] = <<i, j>>
  BY <1>1, <1>2
<1>. QED  BY <1>4, <1>5, <1>6, <1>7, <1>8, <1>9 DEF FramesLaid

\* Where the elements of a concatenation come from.
LEMMA ConcatElems ==
    ASSUME NEW S, NEW q \in Seq(S), NEW c \in Seq(S),
           NEW n, n = Len(q), NEW m, m = Len(c)
    PROVE  /\ Len(q \o c) = n + m
           /\ \A x \in 1..n : (q \o c)[x] = q[x]
           /\ \A j \in 1..m : (q \o c)[n + j] = c[j]
<1>0. n \in Nat /\ m \in Nat
  BY LenProperties
<1>1. \A i \in 1..(n + m) : (q \o c)[i] = IF i <= n THEN q[i] ELSE c[i - n]
  BY ConcatProperties
<1>2. ASSUME NEW x \in 1..n PROVE (q \o c)[x] = q[x]
  <2>1. x \in 1..(n + m) /\ x <= n
    BY <1>0
  <2>. QED  BY <1>1, <2>1
<1>3. ASSUME NEW j \in 1..m PROVE (q \o c)[n + j] = c[j]
  <2>1. n + j \in 1..(n + m) /\ ~(n + j <= n) /\ (n + j) - n = j
    BY <1>0
  <2>. QED  BY <1>1, <2>1
<1>. QED  BY <1>2, <1>3, ConcatProperties

\* Where the elements of an extended sequence come from.
LEMMA AppendElems ==
    ASSUME NEW S, NEW q \in Seq(S), NEW x \in S, NEW n \in Nat, Len(q) = n
    PROVE  /\ Len(Append(q, x)) = n + 1
           /\ \A i \in 1..n : Append(q, x)[i] = q[i]
           /\ Append(q, x)[n + 1] = x
BY AppendProperties, LenProperties

\* A cell of a frame lies between the start of its frame and of the next.
LEMMA CellInFrame ==
    ASSUME NEW at \in Nat, NEW size \in Nat, NEW end \in Nat, NEW j \in 1..size,
           at + size <= end
    PROVE  at + j \in 1..end
<1>1. at + j \in Int /\ 1 <= at + j /\ at + j <= at + size
  OBVIOUS
<1>. QED  BY <1>1

\* The kernel takes a frame at once: its cells are c.
TakesWhole(p, len, c) ==
    /\ Len(c) = head_lenght + len
    /\ \A j \in 1..(head_lenght + len) : c[j] = <<Len(sent[p]) + 1, j>>
    /\ stream'[p] = stream[p] \o c
    /\ sent'[p] = Append(sent[p], len)
    /\ start'[p] = Append(start[p], Len(stream'[p]))

\* Such a frame is laid behind the others.
LEMMA FrameLaidNext ==
    ASSUME TInv, NEW p \in End, Writer(p), AllWhole(p),
           NEW len \in 0..max_body_lenght, NEW c \in Seq(Cell),
           TakesWhole(p, len, c)
    PROVE  /\ FramesLaid(p)'
           /\ AllWhole(p)'
           /\ Len(stream'[p]) = start'[p][Len(start'[p])]
<1>0. /\ start[p] \in Seq(Nat)
      /\ sent[p] \in Seq(0..max_body_lenght) /\ Len(sent[p]) \in Nat
      /\ stream[p] \in Seq(Cell) /\ Len(stream[p]) \in Nat
  BY WriterTypes
<1>h. head_lenght \in Nat /\ len \in Nat
  BY FrameAssumption
<1>W. PICK W \in Nat : W = Len(sent[p])
  BY <1>0
<1>L. PICK L \in Nat : L = Len(stream[p])
  BY <1>0
<1>T. PICK T \in Nat : T = head_lenght + len
  BY <1>h
<1>1. /\ Len(start[p]) = W + 1
      /\ start[p][W + 1] = L
  BY <1>W, <1>L, WriterTypes DEF Writer, NothingElseSent, AllWhole, Whole
<1>2. /\ Len(stream'[p]) = L + T
      /\ \A x \in 1..L : stream'[p][x] = stream[p][x]
      /\ \A j \in 1..T : stream'[p][L + j] = c[j]
  <2>1. L = Len(stream[p]) /\ T = Len(c)
    BY <1>L, <1>T DEF TakesWhole
  <2>2. /\ Len(stream[p] \o c) = L + T
        /\ \A x \in 1..L : (stream[p] \o c)[x] = stream[p][x]
        /\ \A j \in 1..T : (stream[p] \o c)[L + j] = c[j]
    BY <1>0, <2>1, ConcatElems
  <2>. QED  BY <2>2 DEF TakesWhole
<1>3. L + T \in Nat
  OBVIOUS
<1>4. /\ Len(start'[p]) = (W + 1) + 1
      /\ \A i \in 1..(W + 1) : start'[p][i] = start[p][i]
      /\ start'[p][(W + 1) + 1] = L + T
  <2>1. W + 1 \in Nat
    OBVIOUS
  <2>. QED  BY <1>0, <1>1, <1>2, <1>3, <2>1, AppendElems DEF TakesWhole
<1>5. /\ Len(sent'[p]) = W + 1
      /\ \A i \in 1..W : sent'[p][i] = sent[p][i]
      /\ sent'[p][W + 1] = len
  BY <1>0, <1>W, AppendElems DEF TakesWhole
<1>6. Whole(p)' = W + 1 /\ AllWhole(p)'
  BY <1>4, <1>5 DEF Whole, AllWhole
<1>7. Len(stream'[p]) = start'[p][Len(start'[p])]
  BY <1>2, <1>4
<1>8. /\ FramesLaid(p)
      /\ Whole(p) = W
  BY <1>1 DEF Writer, Whole
<1>9. /\ \A i \in 1..(W + 1) : start[p][i] \in Nat /\ start[p][i] <= L
      /\ \A i \in 1..W : /\ start[p][i + 1] = start[p][i] + head_lenght + sent[p][i]
                         /\ \A j \in 1..(head_lenght + sent[p][i]) :
                               stream[p][start[p][i] + j] = <<i, j>>
      /\ start[p][1] = 0
  BY <1>0, <1>1, <1>8, <1>L, ElementOfSeq DEF FramesLaid
<1>10. ASSUME NEW i \in 1..((W + 1) + 1) PROVE start'[p][i] <= L + T
  <2>1. CASE i = (W + 1) + 1
    BY <1>3, <1>4, <2>1
  <2>2. CASE i \in 1..(W + 1)
    <3>1. start'[p][i] \in Nat /\ start'[p][i] <= L
      BY <1>4, <1>9, <2>2
    <3>2. L <= L + T
      OBVIOUS
    <3>. QED  BY <1>3, <3>1, <3>2
  <2>3. i = (W + 1) + 1 \/ i \in 1..(W + 1)
    OBVIOUS
  <2>. QED  BY <2>1, <2>2, <2>3
<1>11. ASSUME NEW i \in 1..(W + 1)
       PROVE  /\ start'[p][i + 1] = start'[p][i] + head_lenght + sent'[p][i]
              /\ \A j \in 1..(head_lenght + sent'[p][i]) :
                    stream'[p][start'[p][i] + j] = <<i, j>>
  <2>1. CASE i = W + 1
    <3>1. /\ start'[p][i] = L
          /\ sent'[p][i] = len
          /\ start'[p][i + 1] = L + T
      BY <1>1, <1>4, <1>5, <2>1
    <3>2. L + T = L + head_lenght + len
      BY <1>T, <1>h
    <3>3. \A j \in 1..T : c[j] = <<W + 1, j>>
      BY <1>W, <1>T DEF TakesWhole
    <3>. QED  BY <1>2, <1>T, <2>1, <3>1, <3>2, <3>3
  <2>2. CASE i \in 1..W
    <3>1. i \in 1..(W + 1) /\ i + 1 \in 1..(W + 1)
      BY <2>2
    <3>2. /\ start'[p][i] = start[p][i]
          /\ start'[p][i + 1] = start[p][i + 1]
          /\ sent'[p][i] = sent[p][i]
      BY <1>4, <1>5, <2>2, <3>1
    <3>3. /\ start[p][i + 1] = start[p][i] + head_lenght + sent[p][i]
          /\ start[p][i + 1] <= L
          /\ start[p][i] \in Nat
          /\ \A j \in 1..(head_lenght + sent[p][i]) :
                stream[p][start[p][i] + j] = <<i, j>>
      BY <1>9, <2>2, <3>1
    <3>4. sent[p][i] \in Nat
      <4>1. sent[p][i] \in 0..max_body_lenght
        BY <1>0, <1>W, <2>2, ElementOfSeq
      <4>. QED  BY <4>1, FrameAssumption
    <3>5. /\ head_lenght + sent[p][i] \in Nat
          /\ start[p][i] + (head_lenght + sent[p][i]) <= L
      <4>1. start[p][i] + head_lenght + sent[p][i]
               = start[p][i] + (head_lenght + sent[p][i])
        BY <1>h, <3>3, <3>4
      <4>. QED  BY <1>h, <3>3, <3>4, <4>1
    <3>6. ASSUME NEW j \in 1..(head_lenght + sent[p][i])
          PROVE  stream'[p][start[p][i] + j] = <<i, j>>
      <4>1. start[p][i] + j \in 1..L
        BY <3>3, <3>5, CellInFrame
      <4>. QED  BY <1>2, <3>3, <4>1
    <3>. QED  BY <3>2, <3>3, <3>6
  <2>3. i = W + 1 \/ i \in 1..W
    OBVIOUS
  <2>. QED  BY <2>1, <2>2, <2>3
<1>12. start'[p][1] = 0
  <2>1. 1 \in 1..(W + 1)
    OBVIOUS
  <2>. QED  BY <1>4, <1>9, <2>1
<1>13. FramesLaid(p)'
  <2>1. 1 <= Len(start'[p]) /\ Whole(p)' <= Len(sent'[p])
    BY <1>4, <1>5, <1>6
  <2>. QED  BY <1>2, <1>4, <1>6, <1>10, <1>11, <1>12, <2>1 DEF FramesLaid
<1>. QED  BY <1>6, <1>7, <1>13

\* A short send, or a write behind one: nothing is laid any more.
LEMMA WriterShort ==
    ASSUME TInv, NEW p \in End, Writer(p),
           start'[p] = start[p],
           Extends(stream'[p], stream[p]),
           Extends(sent'[p], sent[p]),
           ~AllWhole(p)'
    PROVE  Writer(p)'
BY FramesLaidKept DEF Writer, NothingElseSent

\* Nothing is written, but completions come and go.
LEMMA WriterSame ==
    ASSUME TInv, NEW p \in End, Writer(p),
           UNCHANGED <<start[p], sent[p], stream[p]>>,
           AllWhole(p) => /\ wq'[p] = <<>>
                          /\ \A i \in 1..Len(done'[p]) : Finished(done'[p][i])
    PROVE  Writer(p)'
<1>1. /\ Extends(stream'[p], stream[p])
      /\ Extends(sent'[p], sent[p])
  BY WriterTypes, SelfExtends
<1>2. FramesLaid(p)'
  BY <1>1, FramesLaidKept DEF Writer
<1>3. NothingElseSent(p)'
  BY DEF Writer, NothingElseSent, AllWhole, Whole
<1>. QED  BY <1>2, <1>3 DEF Writer

\* What a step may do to the frames that a reader is concerned with.
Kept(p) == start'[p] = start[p] /\ Extends(sent'[p], sent[p])

Grown(p) ==
    /\ AllWhole(p)
    /\ Extends(start'[p], start[p])
    /\ Len(start'[p]) = Len(start[p]) + 1
    /\ Extends(sent'[p], sent[p])

\* A queue of finished writes gets another finished one.
LEMMA AppendFinished ==
    ASSUME NEW q \in Seq(WriteOp), NEW op \in WriteOp, Finished(op),
           \A i \in 1..Len(q) : Finished(q[i])
    PROVE  \A i \in 1..Len(Append(q, op)) : Finished(Append(q, op)[i])
<1>1. PICK n \in Nat : n = Len(q)
  BY LenProperties
<1>2. /\ Len(Append(q, op)) = n + 1
      /\ \A i \in 1..n : Append(q, op)[i] = q[i]
      /\ Append(q, op)[n + 1] = op
  BY <1>1, AppendElems
<1>3. \A i \in 1..(n + 1) : i \in 1..n \/ i = n + 1
  OBVIOUS
<1>. QED  BY <1>1, <1>2, <1>3

\* doWrite lays a whole frame, or ends the time in which all were whole.
LEMMA doWriteWriter ==
    ASSUME IInv, NEW s \in End, NEW len \in BodyLens, doWrite(s, len)
    PROVE  Writer(s)' /\ (Kept(s) \/ Grown(s))
<1> DEFINE op == [k |-> Len(sent[s]) + 1, n |-> 0,
                  total |-> FrameSize(len), ok |-> TRUE]
<1>0. TInv /\ Writer(s)
  BY DEF IInv, OInv
<1>1. /\ stream[s] \in Seq(Cell) /\ Len(stream[s]) \in Nat
      /\ sent[s] \in Seq(0..max_body_lenght) /\ Len(sent[s]) \in Nat
      /\ start[s] \in Seq(Nat) /\ Len(start[s]) \in Nat
      /\ wq[s] \in Seq(WriteOp) /\ done[s] \in Seq(WriteOp)
  BY <1>0, WriterTypes
<1>2. len \in 0..max_body_lenght /\ len \in Nat
  BY SendAssumption DEF doWrite, Encodable
<1>3. op.total = head_lenght + len /\ op.total \in Nat \ {0}
  BY <1>2, FrameAssumption DEF FrameSize
<1>4. op \in WriteOp
  BY <1>1, <1>3 DEF WriteOp
<1>5. /\ WriteSome(s, op, TRUE, done[s])
      /\ sent' = [sent EXCEPT ![s] = Append(@, len)]
      /\ start' = [start EXCEPT ![s] =
            IF Len(@) = op.k /\ Len(stream'[s]) = Len(stream[s]) + op.total
            THEN Append(@, Len(stream'[s])) ELSE @]
  BY Zenon DEF doWrite
<1>6. op.k = Len(sent[s]) + 1 /\ op.n = 0 /\ op.ok
  OBVIOUS
<1>. HIDE DEF op
<1>7. /\ sent'[s] = Append(sent[s], len)
      /\ start'[s] =
            IF Len(start[s]) = op.k /\ Len(stream'[s]) = Len(stream[s]) + op.total
            THEN Append(start[s], Len(stream'[s])) ELSE start[s]
  BY <1>0, <1>5 DEF TInv, TypeOK, WriteTypes
<1>8. Extends(sent'[s], sent[s]) /\ Len(sent'[s]) = Len(sent[s]) + 1
  <2>1. Extends(Append(sent[s], len), sent[s])
    BY <1>1, <1>2, AppendExtends
  <2>2. Len(Append(sent[s], len)) = Len(sent[s]) + 1
    BY <1>1, <1>2, AppendProperties
  <2>. QED  BY <1>7, <2>1, <2>2
<1>9. AllWhole(s) <=> Len(start[s]) = op.k
  BY <1>1, <1>6 DEF AllWhole, Whole
\* Unless the kernel takes the frame whole, it is not laid.
<1>10. ASSUME start'[s] = start[s], Extends(stream'[s], stream[s])
       PROVE  Writer(s)' /\ Kept(s)
  <2>1. ~AllWhole(s)'
    <3>1. Len(start[s]) - 1 <= Len(sent[s])
      BY <1>0 DEF Writer, FramesLaid, Whole
    <3>. QED  BY <1>1, <1>8, <1>10, <3>1 DEF AllWhole, Whole
  <2>. QED  BY <1>0, <1>8, <1>10, <2>1, WriterShort DEF Kept
<1>11. CASE UNCHANGED stream
  <2>1. Len(stream'[s]) # Len(stream[s]) + op.total
    BY <1>1, <1>3, <1>11
  <2>2. start'[s] = start[s]
    BY <1>7, <2>1
  <2>3. Extends(stream'[s], stream[s])
    BY <1>1, <1>11, SelfExtends
  <2>. QED  BY <1>10, <2>2, <2>3
<1>12. ASSUME NEW j \in Take(Offered(op)), j > 0,
              NEW c \in Chunks(op.k, op.n, j, TRUE),
              stream' = [stream EXCEPT ![s] = @ \o c],
              done' = [done EXCEPT ![s] = Append(done[s], [op EXCEPT !.n = @ + j])],
              UNCHANGED wq
       PROVE  Writer(s)' /\ (Kept(s) \/ Grown(s))
  <2>1. j \in Nat /\ j > 0
    BY <1>3, <1>6, <1>12 DEF Take, Offered
  <2>2. c = [i \in 1..j |-> <<op.k, op.n + i>>]
    BY <1>12 DEF Chunks
  <2>3. c \in Seq(Cell) /\ Len(c) = j
    <3>1. op.k \in Nat /\ op.n \in Nat /\ TRUE \in BOOLEAN
      BY <1>1, <1>6
    <3>2. PICK k \in Nat, n \in Nat : k = op.k /\ n = op.n
      BY <3>1
    <3>3. c \in Chunks(k, n, j, TRUE)
      BY <1>12, <3>2
    <3>. QED  BY <2>1, <3>3, FirstChunkType
  <2>4. stream'[s] = stream[s] \o c
    BY <1>0, <1>12 DEF TInv, TypeOK, WriteTypes
  <2>5. Len(stream'[s]) = Len(stream[s]) + j /\ Extends(stream'[s], stream[s])
    <3>1. Len(stream[s] \o c) = Len(stream[s]) + Len(c)
      BY <1>1, <2>3, ConcatProperties
    <3>2. Extends(stream[s] \o c, stream[s])
      BY <1>1, <2>3, ConcatExtends
    <3>. QED  BY <2>3, <2>4, <3>1, <3>2
  <2>6. CASE AllWhole(s) /\ j = op.total
    <3>1. start'[s] = Append(start[s], Len(stream'[s]))
      BY <1>7, <1>9, <2>5, <2>6
    <3>2. \A i \in 1..(head_lenght + len) : c[i] = <<Len(sent[s]) + 1, i>>
      BY <1>2, <1>3, <1>6, <2>2, <2>6
    <3>3. TakesWhole(s, len, c)
      BY <1>3, <1>7, <2>3, <2>4, <2>6, <3>1, <3>2 DEF TakesWhole
    <3>4. /\ FramesLaid(s)'
          /\ Len(stream'[s]) = start'[s][Len(start'[s])]
      BY <1>0, <1>2, <2>3, <2>6, <3>3, FrameLaidNext
    <3>5. /\ wq'[s] = <<>>
          /\ \A i \in 1..Len(done'[s]) : Finished(done'[s][i])
      <4>1. wq'[s] = <<>> /\ \A i \in 1..Len(done[s]) : Finished(done[s][i])
        BY <1>0, <1>12, <2>6 DEF Writer, NothingElseSent
      <4>2. [op EXCEPT !.n = @ + j] \in WriteOp /\ Finished([op EXCEPT !.n = @ + j])
        BY <1>4, <1>6, <2>1, <2>6 DEF WriteOp, Finished
      <4>3. done'[s] = Append(done[s], [op EXCEPT !.n = @ + j])
        BY <1>0, <1>12 DEF TInv, TypeOK, WriteTypes
      <4>. QED  BY <1>1, <4>1, <4>2, <4>3, AppendFinished
    <3>6. Writer(s)'
      BY <3>4, <3>5 DEF Writer, NothingElseSent
    <3>7. Len(stream'[s]) \in Nat
      BY <1>1, <2>1, <2>5
    <3>8. Grown(s)
      BY <1>1, <1>8, <2>6, <3>1, <3>7, AppendExtends, AppendProperties DEF Grown
    <3>. QED  BY <3>6, <3>8
  <2>7. CASE ~(AllWhole(s) /\ j = op.total)
    <3>1. start'[s] = start[s]
      BY <1>1, <1>3, <1>7, <1>9, <2>1, <2>5, <2>7
    <3>. QED  BY <1>10, <2>5, <3>1
  <2>. QED  BY <2>6, <2>7
<1>13. UNCHANGED stream \/
       \E j \in Take(Offered(op)) :
          /\ j > 0
          /\ \E c \in Chunks(op.k, op.n, j, TRUE) :
                stream' = [stream EXCEPT ![s] = @ \o c]
          /\ done' = [done EXCEPT ![s] = Append(done[s], [op EXCEPT !.n = @ + j])]
          /\ UNCHANGED wq
  BY <1>5, Zenon DEF WriteSome
<1>. QED  BY <1>11, <1>12, <1>13

\* The continuation of a write never meets an end that sent all whole.
LEMMA WriteDoneWriter ==
    ASSUME IInv, NEW s \in End,
           WriteReady(s) \/ WriteFail(s) \/ WriteDone(s)
    PROVE  Writer(s)'
<1>0. /\ TInv /\ Writer(s)
      /\ wq \in [End -> Seq(WriteOp)] /\ done \in [End -> Seq(WriteOp)]
      /\ stream \in [End -> Seq(Cell)]
      /\ UNCHANGED <<sent, start>>
  BY DEF IInv, OInv, TInv, TypeOK, WriteTypes, WriteReady, WriteFail, WriteDone
<1>1. stream'[s] \in Seq(Cell) /\ Extends(stream'[s], stream[s])
  <2>1. stream[s] \in Seq(Cell)
    BY <1>0
  <2>2. CASE UNCHANGED stream
    BY <2>1, <2>2, SelfExtends
  <2>3. ASSUME NEW c \in Seq(Cell), stream' = [stream EXCEPT ![s] = @ \o c]
        PROVE  stream'[s] \in Seq(Cell) /\ Extends(stream'[s], stream[s])
    BY <1>0, <2>1, <2>3, ConcatProperties, ConcatExtends
  <2>4. CASE WriteReady(s)
    <3>1. Head(wq[s]) \in WriteOp
      BY <1>0, <2>4, HeadTailProperties DEF WriteReady
    <3>2. /\ Head(wq[s]).total \in Nat /\ Head(wq[s]).n \in Nat
          /\ Head(wq[s]).k \in Nat
      BY <3>1 DEF WriteOp
    <3>3. PICK j \in 1..(Head(wq[s]).total - Head(wq[s]).n) :
             \E c \in Chunks(Head(wq[s]).k, Head(wq[s]).n, j, FALSE) :
                stream' = [stream EXCEPT ![s] = @ \o c]
      BY <2>4 DEF WriteReady, Offered
    <3>4. PICK c \in Chunks(Head(wq[s]).k, Head(wq[s]).n, j, FALSE) :
             stream' = [stream EXCEPT ![s] = @ \o c]
      BY <3>3
    <3>5. j \in Nat
      BY <3>2
    <3>6. c \in Seq(Cell)
      BY <3>2, <3>5, ChunkType
    <3>. QED  BY <2>3, <3>4, <3>6
  <2>5. CASE WriteFail(s)
    BY <2>2, <2>5 DEF WriteFail
  <2>6. CASE WriteDone(s)
    <3>1. Head(done[s]) \in WriteOp /\ Tail(done[s]) \in Seq(WriteOp)
      BY <1>0, <2>6, HeadTailProperties DEF WriteDone
    <3>2. UNCHANGED stream \/ WriteSome(s, Head(done[s]), FALSE, Tail(done[s]))
      BY <2>6 DEF WriteDone
    <3>3. CASE WriteSome(s, Head(done[s]), FALSE, Tail(done[s]))
      <4>1. PICK c \in Seq(Cell) : stream' = [stream EXCEPT ![s] = @ \o c]
        BY <1>0, <3>1, <3>3, WriteSomeEffect DEF TInv
      <4>. QED  BY <2>3, <4>1
    <3>. QED  BY <2>2, <3>2, <3>3
  <2>. QED  BY <2>4, <2>5, <2>6
<1>2. CASE ~AllWhole(s)
  <2>1. ~AllWhole(s)' /\ start'[s] = start[s]
    BY <1>0, <1>2 DEF AllWhole, Whole
  <2>2. Extends(sent'[s], sent[s])
    BY <1>0, WriterTypes, SelfExtends
  <2>. QED  BY <1>0, <1>1, <2>1, <2>2, WriterShort
<1>3. CASE AllWhole(s)
  <2>1. wq[s] = <<>> /\ \A i \in 1..Len(done[s]) : Finished(done[s][i])
    BY <1>0, <1>3 DEF Writer, NothingElseSent
  <2>2. WriteDone(s) /\ done[s] # <<>>
    BY <2>1 DEF WriteReady, WriteFail, WriteDone
  <2>3. /\ done[s] \in Seq(WriteOp) /\ Len(done[s]) \in Nat
        /\ 1 \in 1..Len(done[s]) /\ Head(done[s]) = done[s][1]
    BY <1>0, <2>2, HeadTailProperties, EmptySeq, LenProperties
  <2>4. Finished(Head(done[s]))
    BY <2>1, <2>3
  <2>5. /\ done' = [done EXCEPT ![s] = Tail(@)]
        /\ UNCHANGED <<wq, stream>>
    BY <2>2, <2>4 DEF WriteDone, Finished
  <2>6. ASSUME NEW i \in 1..Len(Tail(done[s]))
        PROVE  Finished(Tail(done[s])[i])
    <3>1. /\ Len(Tail(done[s])) = Len(done[s]) - 1
          /\ Tail(done[s])[i] = done[s][i + 1]
      BY <2>2, <2>3, HeadTailProperties
    <3>2. i + 1 \in 1..Len(done[s])
      BY <2>3, <3>1
    <3>. QED  BY <2>1, <3>1, <3>2
  <2>7. wq'[s] = <<>> /\ \A i \in 1..Len(done'[s]) : Finished(done'[s][i])
    BY <1>0, <2>1, <2>5, <2>6
  <2>8. UNCHANGED <<start[s], sent[s], stream[s]>>
    BY <1>0, <2>5
  <2>. QED  BY <1>0, <2>7, <2>8, WriterSame
<1>. QED  BY <1>2, <1>3

\* A Session that is destroyed, or whose process exits, sends no more.
LEMMA DestroyWriter ==
    ASSUME IInv, NEW s \in End,
           Destroy(s) \/ UNCHANGED writeVars \/ Exit(s)
    PROVE  Writer(s)'
<1>0. /\ TInv /\ Writer(s)
      /\ wq \in [End -> Seq(WriteOp)] /\ done \in [End -> Seq(WriteOp)]
      /\ UNCHANGED <<stream, sent, start>>
  BY DEF IInv, OInv, TInv, TypeOK, WriteTypes, Destroy, writeVars, Exit
<1>1. UNCHANGED <<start[s], sent[s], stream[s]>>
  BY <1>0
<1>2. ASSUME AllWhole(s)
      PROVE  /\ wq'[s] = <<>>
             /\ \A i \in 1..Len(done'[s]) : Finished(done'[s][i])
  <2>1. wq[s] = <<>> /\ \A i \in 1..Len(done[s]) : Finished(done[s][i])
    BY <1>0, <1>2 DEF Writer, NothingElseSent
  <2>2. CASE Destroy(s)
    <3>1. Len(wq[s]) = 0
      BY <2>1
    <3>2. [i \in 1..Len(wq[s]) |-> [wq[s][i] EXCEPT !.ok = FALSE]] = <<>>
      BY <3>1
    <3>3. done'[s] = done[s] \o <<>> /\ wq'[s] = <<>>
      BY <1>0, <2>2, <3>2 DEF Destroy
    <3>4. done'[s] = done[s]
      BY <1>0, <3>3, ConcatEmptySeq
    <3>. QED  BY <2>1, <3>3, <3>4
  <2>3. CASE UNCHANGED writeVars
    BY <2>1, <2>3 DEF writeVars
  <2>4. CASE Exit(s)
    <3>1. wq'[s] = <<>> /\ done'[s] = <<>> /\ Len(<<>>) = 0
      BY <1>0, <2>4 DEF Exit
    <3>. QED  BY <3>1
  <2>. QED  BY <2>2, <2>3, <2>4
<1>. QED  BY <1>0, <1>1, <1>2, WriterSame

-----------------------------------------------------------------------------
(***************************************************************************)
(* Steps of the reader.                                                    *)
(***************************************************************************)
readerVars(s) == <<st[s], cb[s], rd[s], body_lenght_[s], body[s], fill[s],
                   consumed[s], delivered[s]>>

\* What is written, by its peer or by itself, does not disturb a reader.
LEMMA ReaderUndisturbed ==
    ASSUME TInv, NEW s \in End, Reader(s), FramesLaid(Peer[s]),
           UNCHANGED readerVars(s),
           Kept(Peer[s]) \/ Grown(Peer[s])
    PROVE  Reader(s)'
<1> DEFINE p == Peer[s]
           d == Len(delivered[s])
<1>0. /\ p \in End
      /\ start[p] \in Seq(Nat) /\ Len(start[p]) \in Nat
      /\ sent[p] \in Seq(0..max_body_lenght) /\ Len(sent[p]) \in Nat
      /\ d \in Nat
  BY PeerType, WriterTypes, ReaderTypes
<1>1. /\ Len(start[p]) >= 1
      /\ Len(start[p]) - 1 <= Len(sent[p])
  BY DEF FramesLaid, Whole
<1>2. UNCHANGED <<st[s], cb[s], rd[s], body_lenght_[s], body[s], fill[s],
                  consumed[s], delivered[s]>>
  BY DEF readerVars
<1>3. CASE Kept(p)
  <2>1. start'[p] = start[p] /\ Extends(sent'[p], sent[p])
    BY <1>3 DEF Kept
  <2>2. AllWhole(p)' => AllWhole(p)
    BY <1>0, <1>1, <2>1 DEF AllWhole, Whole, Extends
  <2>3. ReaderBehind(s)'
    BY <1>2, <2>1, <2>2 DEF Reader, ReaderBehind, Whole
  <2>4. AtFrame(s)'
    BY <1>2, <2>1 DEF Reader, AtFrame, Whole
  <2>5. \A i \in 1..(Len(start[p]) - 1) : sent'[p][i] = sent[p][i]
    BY <1>0, <1>1, <2>1 DEF Extends
  <2>6. InFrame(s)'
    <3>1. ASSUME d + 1 <= Len(start[p]) - 1, rd[s] = "body"
          PROVE  /\ Inside(s, d + 1, start[p][d + 1], sent[p][d + 1])
                 /\ sent'[p][d + 1] = sent[p][d + 1]
      <4>1. d + 1 \in 1..(Len(start[p]) - 1)
        BY <1>0, <3>1
      <4>. QED  BY <2>5, <3>1, <4>1 DEF Reader, InFrame, Whole
    <3>. QED  BY <1>2, <2>1, <3>1 DEF InFrame, Inside, Whole
  <2>7. Intact(s)'
    <3>1. ASSUME NEW i \in 1..d, i < Len(start[p])
          PROVE  delivered[s][i] = Body(i, sent'[p][i])
      <4>1. PICK n \in Nat : n = Len(start[p]) /\ n >= 1
        BY <1>0, <1>1
      <4>2. i \in 1..(n - 1)
        BY <1>0, <3>1, <4>1
      <4>3. sent'[p][i] = sent[p][i]
        BY <2>5, <4>1, <4>2
      <4>4. delivered[s][i] = Body(i, sent[p][i])
        BY <3>1 DEF Reader, Intact
      <4>. QED  BY <4>3, <4>4
    <3>. QED  BY <1>2, <2>1, <3>1 DEF Intact
  <2>. QED  BY <2>3, <2>4, <2>6, <2>7 DEF Reader
<1>4. CASE Grown(p)
  <2>1. /\ AllWhole(p)
        /\ Extends(start'[p], start[p])
        /\ Len(start'[p]) = Len(start[p]) + 1
        /\ Extends(sent'[p], sent[p])
    BY <1>4 DEF Grown
  <2>2. /\ d <= Len(start[p]) - 1
        /\ rd[s] = "body" => d < Len(start[p]) - 1
    BY <2>1 DEF Reader, ReaderBehind, Whole
  <2>3. /\ start'[p][d + 1] = start[p][d + 1]
        /\ \A i \in 1..(Len(start[p]) - 1) : sent'[p][i] = sent[p][i]
    <3>1. d + 1 \in 1..Len(start[p])
      BY <1>0, <2>2
    <3>2. start'[p][d + 1] = start[p][d + 1]
      BY <2>1, <3>1 DEF Extends
    <3>3. ASSUME NEW i \in 1..(Len(start[p]) - 1) PROVE sent'[p][i] = sent[p][i]
      <4>1. i \in 1..Len(sent[p])
        BY <1>0, <1>1
      <4>. QED  BY <2>1, <4>1 DEF Extends
    <3>. QED  BY <3>2, <3>3
  <2>4. ReaderBehind(s)'
    BY <1>0, <1>2, <2>1, <2>2 DEF ReaderBehind, Whole
  <2>5. AtFrame(s)'
    BY <1>2, <2>2, <2>3 DEF Reader, AtFrame, Whole
  <2>6. InFrame(s)'
    <3>1. ASSUME rd[s] = "body"
          PROVE  /\ Inside(s, d + 1, start[p][d + 1], sent[p][d + 1])
                 /\ sent'[p][d + 1] = sent[p][d + 1]
      <4>1. d + 1 \in 1..(Len(start[p]) - 1)
        BY <1>0, <2>2, <3>1
      <4>. QED  BY <2>3, <3>1, <4>1 DEF Reader, InFrame, Whole
    <3>. QED  BY <1>2, <2>3, <3>1 DEF InFrame, Inside, Whole
  <2>7. Intact(s)'
    <3>1. ASSUME NEW i \in 1..d PROVE delivered'[s][i] = Body(i, sent'[p][i])
      <4>1. i < Len(start[p]) /\ i \in 1..(Len(start[p]) - 1)
        BY <1>0, <2>2
      <4>2. delivered[s][i] = Body(i, sent[p][i])
        BY <4>1 DEF Reader, Intact
      <4>. QED  BY <1>2, <2>3, <4>1, <4>2
    <3>. QED  BY <1>2, <3>1 DEF Intact, Body
  <2>. QED  BY <2>4, <2>5, <2>6, <2>7 DEF Reader
<1>. QED  BY <1>3, <1>4

\* What IInv says of one reader and of the frames it reads.
LEMMA ReaderFacts ==
    ASSUME IInv, NEW s \in End
    PROVE  /\ TInv /\ Reader(s) /\ Writer(Peer[s]) /\ Peer[s] \in End
           /\ Len(start[Peer[s]]) \in Nat /\ Len(start[Peer[s]]) >= 1
           /\ Len(sent[Peer[s]]) \in Nat
           /\ Len(start[Peer[s]]) - 1 <= Len(sent[Peer[s]])
           /\ Len(delivered[s]) \in Nat
<1>1. TInv /\ Reader(s) /\ Writer(Peer[s]) /\ Peer[s] \in End
  BY PeerType DEF IInv, OInv
<1>. QED  BY <1>1, WriterTypes, ReaderTypes DEF Writer, FramesLaid, Whole

\* In a header, the next header of the stream is that of the next frame.
LEMMA HeaderIsNext ==
    ASSUME IInv, NEW s \in End, HeaderDone(s),
           Len(delivered[s]) + 1 <= Whole(Peer[s])
    PROVE  body_lenght_'[s] = sent[Peer[s]][Len(delivered[s]) + 1]
<1> DEFINE p == Peer[s]
<1>0. /\ TInv /\ Reader(s) /\ FramesLaid(p) /\ p \in End
      /\ Len(start[p]) \in Nat /\ Len(sent[p]) \in Nat
      /\ Len(start[p]) - 1 <= Len(sent[p])
      /\ Len(delivered[s]) \in Nat
      /\ sent[p] \in Seq(0..max_body_lenght)
  BY ReaderFacts, WriterTypes DEF Writer
<1>k. PICK k \in Nat : k = Len(delivered[s]) + 1
  BY <1>0
<1>1. k \in 1..Whole(p) /\ k \in 1..Len(sent[p])
  <2>1. PICK l \in Nat, n \in Nat : l = Len(start[p]) /\ n = Len(sent[p])
    BY <1>0
  <2>2. k <= l - 1 /\ k # 0 /\ l - 1 <= n
    BY <1>0, <1>k, <2>1 DEF Whole
  <2>3. k \in 1..(l - 1) /\ k \in 1..n
    BY <2>2
  <2>. QED  BY <2>1, <2>3 DEF Whole
<1>2. sent[p][k] \in 0..max_body_lenght /\ sent[p][k] \in Nat
  <2>1. sent[p][k] \in 0..max_body_lenght
    BY <1>0, <1>1, ElementOfSeq
  <2>. QED  BY <2>1, FrameAssumption
<1>3. consumed[s] = start[p][k]
  BY <1>0, <1>k, <1>1 DEF HeaderDone, Reader, AtFrame, Whole
<1>4. \A j \in 1..(head_lenght + sent[p][k]) : stream[p][consumed[s] + j] = <<k, j>>
  BY <1>0, <1>1, <1>3 DEF FramesLaid
<1>5. \A j \in 1..head_lenght : stream[p][consumed[s] + j] = <<k, j>>
  <2>1. \A j \in 1..head_lenght : j \in 1..(head_lenght + sent[p][k])
    BY <1>2, FrameAssumption
  <2>. QED  BY <1>4, <2>1
<1>6. HeaderAt(p, k, consumed[s])
  BY <1>5 DEF HeaderAt
<1>7. ASSUME NEW m \in 1..Len(sent[p]), HeaderAt(p, m, consumed[s])
      PROVE  m = k
  <2>1. 1 \in 1..head_lenght
    BY FrameAssumption
  <2>2. <<m, 1>> = <<k, 1>>
    BY <1>5, <1>7, <2>1 DEF HeaderAt
  <2>. QED  BY <2>2
<1>8. DecodedLens(s) = {DecodeLen(body_lenght_[s], LenBytes(sent[p][k]))}
  <2>1. {m \in 1..Len(sent[p]) : HeaderAt(p, m, consumed[s])} = {k}
    BY <1>1, <1>6, <1>7
  <2>. QED  BY <2>1 DEF DecodedLens
<1>9. DecodeLen(body_lenght_[s], LenBytes(sent[p][k])) = sent[p][k]
  <2>1. body_lenght_[s] \in 0..MaxDecoded
    BY <1>0, ReaderTypes
  <2>2. PICK old \in Nat : old = body_lenght_[s] /\ old < 65536
    BY <2>1, DecodedRange
  <2>3. PICK len \in Nat : len = sent[p][k] /\ len <= max_body_lenght
    BY <1>2, FrameAssumption
  <2>4. DecodeLen(old, LenBytes(len)) = len
    BY <2>2, <2>3, FrameAssumption, DecodeLenInverse
  <2>. QED  BY <2>2, <2>3, <2>4
<1>10. body_lenght_'[s] = sent[p][k]
  <2>1. body_lenght_' = [body_lenght_ EXCEPT ![s] = sent[p][k]]
    BY <1>8, <1>9 DEF HeaderDone
  <2>2. body_lenght_ \in [End -> 0..MaxDecoded]
    BY <1>0 DEF TInv, TypeOK, ReadTypes
  <2>. QED  BY <2>1, <2>2
<1>. QED  BY <1>10, <1>k

\* readHeader's handler finds the length of the frame it stands at.
LEMMA HeaderDoneReader ==
    ASSUME IInv, NEW s \in End, HeaderDone(s)
    PROVE  Reader(s)'
<1> DEFINE p == Peer[s]
           d == Len(delivered[s])
<1>0. /\ TInv /\ Reader(s) /\ Writer(p) /\ p \in End
      /\ Len(start[p]) \in Nat /\ Len(start[p]) >= 1
      /\ Len(sent[p]) \in Nat
      /\ d \in Nat
      /\ consumed \in [End -> Nat] /\ fill \in [End -> 0..MaxDecoded]
      /\ rd \in [End -> {"none", "header", "body"}]
  BY ReaderFacts DEF TInv, TypeOK, SessionTypes, ReadTypes
<1>1. /\ UNCHANGED <<st, cb, start, sent, stream, delivered>>
      /\ rd[s] = "header" /\ rd'[s] = "body" /\ cb'[s] = "none"
      /\ fill'[s] = 0
      /\ consumed'[s] = consumed[s] + head_lenght
      /\ Available(s) >= head_lenght
  BY <1>0 DEF HeaderDone, Idle, writeVars
<1>2. st[s] # "new"
  BY <1>1 DEF IInv, OInv, LiveIffOwned
<1>3. d <= Whole(p) => consumed[s] = start[p][d + 1]
  BY <1>0, <1>1 DEF Reader, AtFrame
\* Behind the last frame there is nothing that could be a header.
<1>4. AllWhole(p) => d < Whole(p)
  <2>1. SUFFICES ASSUME AllWhole(p), d = Whole(p) PROVE FALSE
    BY <1>0 DEF Reader, ReaderBehind, Whole
  <2>2. Len(stream[p]) = start[p][Len(start[p])]
    BY <1>0, <2>1 DEF Writer, NothingElseSent
  <2>3. d + 1 = Len(start[p])
    BY <1>0, <2>1 DEF Whole
  <2>4. consumed[s] = Len(stream[p])
    BY <1>0, <1>3, <2>1, <2>2, <2>3 DEF Whole
  <2>5. /\ arrived[s] <= Len(stream[p])
        /\ arrived[s] \in Nat /\ consumed[s] \in Nat
    BY <1>0 DEF TInv, Counts, TypeOK, ReadTypes, NetTypes
  <2>. QED  BY <1>1, <2>4, <2>5, FrameAssumption DEF Available
<1>5. ReaderBehind(s)'
  BY <1>0, <1>1, <1>4 DEF ReaderBehind, AllWhole, Whole
<1>6. AtFrame(s)'
  BY <1>1, <1>2 DEF AtFrame
<1>7. InFrame(s)'
  <2>1. ASSUME d + 1 <= Whole(p)
        PROVE  Inside(s, d + 1, start[p][d + 1], sent[p][d + 1])'
    <3>1. body_lenght_'[s] = sent[p][d + 1]
      BY <2>1, HeaderIsNext
    <3>2. consumed[s] = start[p][d + 1] /\ consumed[s] \in Nat
      BY <1>0, <1>3, <2>1 DEF Whole
    <3>3. sent[p][d + 1] \in Nat
      <4>1. body_lenght_'[s] \in 0..MaxDecoded
        <5>1. TInv'
          BY <1>0, ReadStepTInv
        <5>. QED  BY <5>1 DEF TInv, TypeOK, ReadTypes
      <4>. QED  BY <3>1, <4>1, FrameAssumption
    <3>4. consumed'[s] = start[p][d + 1] + head_lenght + 0
      BY <1>1, <3>2, FrameAssumption
    <3>5. fill'[s] = 0 /\ fill'[s] <= sent[p][d + 1]
      BY <1>1, <3>3
    <3>6. \A j \in 1..fill'[s] : body'[s][j] = <<d + 1, head_lenght + j>>
      BY <3>5
    <3>. QED  BY <1>1, <3>1, <3>4, <3>5, <3>6 DEF Inside
  <2>. QED  BY <1>1, <2>1 DEF InFrame, Inside, Whole
<1>8. Intact(s)'
  BY <1>0, <1>1 DEF Reader, Intact, Body
<1>. QED  BY <1>5, <1>6, <1>7, <1>8 DEF Reader

\* readBody copies the next cells of that frame.
LEMMA BodySomeReader ==
    ASSUME IInv, NEW s \in End, BodySome(s)
    PROVE  Reader(s)'
<1> DEFINE p == Peer[s]
           d == Len(delivered[s])
<1>0. /\ TInv /\ Reader(s) /\ FramesLaid(p) /\ p \in End
      /\ Len(start[p]) \in Nat
      /\ d \in Nat
      /\ consumed \in [End -> Nat] /\ fill \in [End -> 0..MaxDecoded]
      /\ body \in [End -> [Room -> Cell]]
      /\ body_lenght_[s] \in 0..MaxDecoded
  BY ReaderFacts DEF TInv, TypeOK, ReadTypes, Writer
<1>1. /\ UNCHANGED <<st, cb, rd, start, sent, stream, delivered, body_lenght_>>
      /\ rd[s] = "body" /\ cb[s] = "none"
  BY DEF BodySome, Idle, sessionVars, writeVars
<1>2. st[s] # "new"
  BY <1>1 DEF IInv, OInv, LiveIffOwned
<1>3. PICK n \in 1..(body_lenght_[s] - fill[s]) :
         /\ body' = [body EXCEPT ![s] =
              [i \in Room |->
                  IF i \in (fill[s] + 1)..(fill[s] + n)
                  THEN stream[p][consumed[s] + i - fill[s]]
                  ELSE @[i]]]
         /\ fill' = [fill EXCEPT ![s] = @ + n]
         /\ consumed' = [consumed EXCEPT ![s] = @ + n]
  BY DEF BodySome
<1>4. ReaderBehind(s)' /\ AtFrame(s)'
  BY <1>0, <1>1, <1>2 DEF Reader, ReaderBehind, AtFrame, AllWhole, Whole
<1>5. Intact(s)'
  BY <1>0, <1>1 DEF Reader, Intact, Body
<1>6. ASSUME d + 1 <= Whole(p)
      PROVE  Inside(s, d + 1, start[p][d + 1], sent[p][d + 1])'
  <2>k. PICK k \in Nat : k = d + 1
    BY <1>0
  <2>l. PICK len \in Nat : len = body_lenght_[s] /\ len <= MaxDecoded
    <3>1. body_lenght_[s] \in 0..MaxDecoded /\ MaxDecoded \in Nat
      BY <1>0, DecodedRange
    <3>. QED  BY <3>1
  <2>f. PICK f \in Nat : f = fill[s]
    <3>1. fill[s] \in 0..MaxDecoded
      BY <1>0
    <3>. QED  BY <3>1
  <2>0. Inside(s, k, start[p][k], sent[p][k])
    BY <1>0, <1>1, <1>6, <2>k DEF Reader, InFrame
  <2>1. sent[p][k] = len /\ f <= len /\ n \in Nat /\ f + n <= len
    BY <2>0, <2>l, <2>f DEF Inside
  <2>a. PICK at \in Nat : at = start[p][k]
    <3>1. start[p] \in Seq(Nat) /\ Len(start[p]) \in Nat
      BY <1>0, WriterTypes
    <3>2. PICK l \in Nat : l = Len(start[p])
      BY <3>1
    <3>3. k <= l - 1 /\ k # 0
      BY <1>0, <1>6, <2>k, <3>2 DEF Whole
    <3>4. k \in 1..l
      BY <3>3
    <3>. QED  BY <3>1, <3>2, <3>4, ElementOfSeq
  <2>c. PICK c \in Nat : c = consumed[s]
    BY <1>0
  <2>2. /\ c = at + head_lenght + f
        /\ \A j \in 1..f : body[s][j] = <<k, head_lenght + j>>
    BY <2>0, <2>a, <2>c, <2>f DEF Inside
  <2>3. /\ fill'[s] = f + n
        /\ consumed'[s] = c + n
        /\ \A i \in Room :
              body'[s][i] = IF i \in (f + 1)..(f + n)
                            THEN stream[p][c + i - f] ELSE body[s][i]
    BY <1>0, <1>3, <2>f, <2>c
  <2>4. c + n = at + head_lenght + (f + n)
    BY <2>1, <2>2, FrameAssumption
  <2>5. \A j \in 1..(head_lenght + len) : stream[p][at + j] = <<k, j>>
    <3>1. k \in 1..Whole(p)
      BY <1>0, <1>6, <2>k DEF Whole
    <3>. QED  BY <1>0, <2>1, <2>a, <3>1 DEF FramesLaid
  <2>6. ASSUME NEW i \in 1..(f + n)
        PROVE  body'[s][i] = <<k, head_lenght + i>>
    <3>1. i \in Room /\ i \in 1..(f + n) /\ head_lenght \in Nat
      BY <2>1, <2>l, DecodedRange, FrameAssumption
    <3>2. CASE i \in (f + 1)..(f + n)
      <4>1. c + i - f = at + (head_lenght + i)
        BY <2>2, <3>1
      <4>2. head_lenght + i \in 1..(head_lenght + len)
        BY <2>1, <3>1
      <4>. QED  BY <2>3, <2>5, <3>1, <3>2, <4>1, <4>2
    <3>3. CASE i \in 1..f
      <4>1. ~(i \in (f + 1)..(f + n))
        BY <3>3
      <4>. QED  BY <2>2, <2>3, <3>1, <3>3, <4>1
    <3>4. i \in (f + 1)..(f + n) \/ i \in 1..f
      BY <2>1
    <3>. QED  BY <3>2, <3>3, <3>4
  <2>7. Inside(s, k, at, len)'
    BY <1>1, <2>1, <2>3, <2>4, <2>6, <2>l DEF Inside
  <2>. QED  BY <1>1, <2>k, <2>a, <2>1, <2>7 DEF Inside
<1>7. InFrame(s)'
  BY <1>1, <1>6 DEF InFrame, Inside, Whole
<1>. QED  BY <1>4, <1>5, <1>7 DEF Reader

\* readBody's handler delivers the frame and stands at the next.
LEMMA BodyDoneReader ==
    ASSUME IInv, NEW s \in End, BodyDone(s)
    PROVE  Reader(s)'
<1> DEFINE p == Peer[s]
<1>0. /\ TInv /\ Reader(s) /\ FramesLaid(p) /\ p \in End
      /\ Len(start[p]) \in Nat /\ Len(sent[p]) \in Nat
      /\ Len(start[p]) - 1 <= Len(sent[p])
      /\ delivered \in [End -> Seq(Seq(Cell))]
      /\ rd \in [End -> {"none", "header", "body"}]
      /\ cb \in [End -> {"none", "open", "read"}]
  BY ReaderFacts DEF TInv, TypeOK, SessionTypes, ReadTypes, Writer
<1>d. PICK d \in Nat : d = Len(delivered[s])
  BY ReaderFacts
<1>1. /\ UNCHANGED <<st, body_lenght_, body, fill, consumed, start, sent>>
      /\ rd[s] = "body" /\ rd'[s] = "none"
      /\ fill[s] = body_lenght_[s]
      /\ delivered'[s] = Append(delivered[s], getReadmsg(s))
  BY <1>0 DEF BodyDone, BodyComplete, writeVars
<1>2. /\ Len(delivered'[s]) = d + 1
      /\ \A i \in 1..d : delivered'[s][i] = delivered[s][i]
      /\ delivered'[s][d + 1] = getReadmsg(s)
  <2>1. getReadmsg(s) \in Seq(Cell)
    BY <1>0, ReadmsgType DEF TInv
  <2>2. delivered[s] \in Seq(Seq(Cell)) /\ Len(delivered[s]) = d
    BY <1>0, <1>d
  <2>3. /\ Len(Append(delivered[s], getReadmsg(s))) = d + 1
        /\ \A i \in 1..d :
              Append(delivered[s], getReadmsg(s))[i] = delivered[s][i]
        /\ Append(delivered[s], getReadmsg(s))[d + 1] = getReadmsg(s)
    BY <2>1, <2>2, AppendElems
  <2>. QED  BY <1>1, <2>3
<1>3. ReaderBehind(s)'
  BY <1>0, <1>1, <1>2, <1>d DEF Reader, ReaderBehind, AllWhole, Whole
<1>4. ASSUME d + 1 <= Whole(p)
      PROVE  /\ consumed[s] = start[p][(d + 1) + 1]
             /\ getReadmsg(s) = Body(d + 1, sent[p][d + 1])
  <2>1. Inside(s, d + 1, start[p][d + 1], sent[p][d + 1])
    BY <1>0, <1>1, <1>4, <1>d DEF Reader, InFrame
  <2>2. d + 1 \in 1..Whole(p)
    BY <1>0, <1>4 DEF Whole
  <2>3. start[p][(d + 1) + 1] = start[p][d + 1] + head_lenght + sent[p][d + 1]
    BY <1>0, <2>2 DEF FramesLaid
  <2>. QED  BY <1>1, <2>1, <2>3 DEF Inside, getReadmsg, Body
<1>5. AtFrame(s)'
  BY <1>1, <1>2, <1>4 DEF AtFrame, Whole
<1>6. InFrame(s)'
  BY <1>1 DEF InFrame
<1>7. Intact(s)'
  <2>1. ASSUME NEW i \in 1..(d + 1), i < Len(start[p])
        PROVE  delivered'[s][i] = Body(i, sent[p][i])
    <3>1. CASE i = d + 1
      <4>1. d + 1 <= Whole(p)
        BY <1>0, <2>1, <3>1 DEF Whole
      <4>. QED  BY <1>2, <1>4, <3>1, <4>1
    <3>2. CASE i \in 1..d
      BY <1>0, <1>2, <1>d, <2>1, <3>2 DEF Reader, Intact
    <3>. QED  BY <3>1, <3>2
  <2>. QED  BY <1>1, <1>2, <2>1 DEF Intact, Body
<1>. QED  BY <1>3, <1>5, <1>6, <1>7 DEF Reader

\* Starting, ending and dropping the reads of a Session read nothing.
LEMMA OtherReader ==
    ASSUME IInv, NEW s \in End,
           Open(s) \/ CallbackReturn(s) \/ ReadError(s) \/ Drop(s) \/ Exit(s)
    PROVE  Reader(s)'
<1>0. /\ Reader(s)
      /\ st \in [End -> {"new", "live", "dead"}]
      /\ rd \in [End -> {"none", "header", "body"}]
      /\ cb \in [End -> {"none", "open", "read"}]
  BY ReaderFacts DEF IInv, OInv, TInv, TypeOK, SessionTypes
<1>1. /\ UNCHANGED <<body_lenght_, body, fill, consumed, delivered, start, sent>>
      /\ \/ st'[s] # "new" /\ cb'[s] # "read" /\ rd'[s] = "none"
         \/ st'[s] = st[s] /\ cb'[s] = cb[s] /\ rd'[s] = rd[s]
         \/ /\ st'[s] # "new" /\ cb'[s] # "read" /\ rd'[s] = "header"
            /\ st[s] = "new" \/ cb[s] = "read"
         \/ st'[s] = st[s] /\ cb'[s] = "none" /\ rd'[s] = rd[s]
  <2>1. UNCHANGED <<body_lenght_, body, fill, consumed, delivered, start, sent>>
    BY DEF Open, CallbackReturn, ReadError, Drop, Exit, Destroy, readVars, writeVars
  <2>2. CASE Open(s)
    BY <1>0, <2>1, <2>2 DEF Open
  <2>3. CASE CallbackReturn(s)
    <3>1. st[s] # "new"
      BY <2>3 DEF CallbackReturn, IInv, OInv, LiveIffOwned
    <3>. QED  BY <1>0, <2>1, <2>3, <3>1 DEF CallbackReturn, ReadAfterCallback
  <2>4. CASE ReadError(s)
    <3>1. st[s] # "new"
      BY <2>4 DEF ReadError, IInv, OInv, LiveIffOwned
    <3>2. st'[s] # "new"
      BY <1>0, <2>4, <3>1 DEF ReadError, Destroy
    <3>. QED  BY <1>0, <2>1, <2>4, <3>2 DEF ReadError, Idle
  <2>5. CASE Drop(s)
    <3>1. CASE HandlerOwns(s)
      BY <2>1, <2>5, <3>1 DEF Drop, sessionVars
    <3>2. CASE ~HandlerOwns(s)
      BY <1>0, <2>1, <2>5, <3>2 DEF Drop, Destroy, HandlerOwns, Idle
    <3>. QED  BY <3>1, <3>2
  <2>6. CASE Exit(s)
    BY <1>0, <2>1, <2>6 DEF Exit
  <2>. QED  BY <2>1, <2>2, <2>3, <2>4, <2>5, <2>6
<1>2. ReaderBehind(s)'
  BY <1>0, <1>1 DEF Reader, ReaderBehind, AllWhole, Whole
<1>3. AtFrame(s)'
  BY <1>0, <1>1 DEF Reader, AtFrame, Whole
<1>4. InFrame(s)'
  BY <1>0, <1>1 DEF Reader, InFrame, Inside, Whole
<1>5. Intact(s)'
  BY <1>0, <1>1 DEF Reader, Intact, Body
<1>. QED  BY <1>2, <1>3, <1>4, <1>5 DEF Reader

-----------------------------------------------------------------------------
(***************************************************************************)
(* All steps together.                                                     *)
(***************************************************************************)
writerVars(p) == <<stream[p], sent[p], start[p], wq[p], done[p]>>

ReadStep(s) ==
    \/ Open(s) \/ HeaderDone(s) \/ BodySome(s) \/ BodyDone(s)
    \/ CallbackReturn(s) \/ ReadError(s) \/ Drop(s) \/ Exit(s)

WriteStep(s) ==
    \/ \E len \in BodyLens : doWrite(s, len)
    \/ WriteReady(s) \/ WriteFail(s) \/ WriteDone(s)

NetStep(s) == Arrive(s) \/ Reset(s)

\* A step of one end touches the reads and writes of that end alone.
LEMMA StepIsLocal ==
    ASSUME TypeOK, NEW s \in End, NEW t \in End, t # s,
           ReadStep(s) \/ WriteStep(s)
    PROVE  UNCHANGED readerVars(t) /\ UNCHANGED writerVars(t)
<1>0. /\ st \in [End -> {"new", "live", "dead"}]
      /\ cb \in [End -> {"none", "open", "read"}]
      /\ rd \in [End -> {"none", "header", "body"}]
      /\ body_lenght_ \in [End -> 0..MaxDecoded]
      /\ body \in [End -> [Room -> Cell]]
      /\ fill \in [End -> 0..MaxDecoded]
      /\ consumed \in [End -> Nat]
      /\ delivered \in [End -> Seq(Seq(Cell))]
      /\ wq \in [End -> Seq(WriteOp)]
      /\ done \in [End -> Seq(WriteOp)]
      /\ stream \in [End -> Seq(Cell)]
      /\ sent \in [End -> Seq(0..max_body_lenght)]
      /\ start \in [End -> Seq(Nat)]
  BY DEF TypeOK, SessionTypes, ReadTypes, WriteTypes
<1>1. ASSUME NEW op, NEW inDoWrite, NEW posted,
             WriteSome(s, op, inDoWrite, posted)
      PROVE  UNCHANGED <<stream[t], wq[t], done[t]>>
  <2>0. /\ wq \in [End -> Seq(WriteOp)] /\ done \in [End -> Seq(WriteOp)]
        /\ stream \in [End -> Seq(Cell)]
    BY <1>0
  <2>1. /\ UNCHANGED stream \/ \E q : stream' = [stream EXCEPT ![s] = q]
        /\ UNCHANGED wq \/ \E q : wq' = [wq EXCEPT ![s] = q]
        /\ \E q : done' = [done EXCEPT ![s] = q]
    BY <1>1, Zenon DEF WriteSome
  <2>. QED  BY <2>0, <2>1
<1>a. wq \in [End -> Seq(WriteOp)] /\ done \in [End -> Seq(WriteOp)]
  BY <1>0
<1>2. UNCHANGED <<stream[t], wq[t], done[t]>>
  <2>1. CASE ReadStep(s)
    <3>1. Destroy(s) \/ UNCHANGED writeVars \/ Exit(s)
      BY <2>1 DEF ReadStep, Open, HeaderDone, BodySome, BodyDone,
                  CallbackReturn, ReadError, Drop
    <3>2. CASE Destroy(s)
      <4>1. UNCHANGED stream /\ UNCHANGED <<wq[t], done[t]>>
        BY <1>a, <3>2 DEF Destroy
      <4>. QED  BY <4>1
    <3>3. CASE UNCHANGED writeVars
      BY <3>3 DEF writeVars
    <3>4. CASE Exit(s)
      <4>1. UNCHANGED stream /\ UNCHANGED <<wq[t], done[t]>>
        BY <1>a, <3>4 DEF Exit
      <4>. QED  BY <4>1
    <3>. QED  BY <3>1, <3>2, <3>3, <3>4
  <2>2. ASSUME NEW len \in BodyLens, doWrite(s, len)
        PROVE  UNCHANGED <<stream[t], wq[t], done[t]>>
    BY <1>1, <2>2, Zenon DEF doWrite
  <2>3. CASE WriteReady(s)
    BY <1>0, <2>3 DEF WriteReady
  <2>4. CASE WriteFail(s)
    BY <1>0, <2>4 DEF WriteFail
  <2>5. CASE WriteDone(s)
    <3>1. \/ done' = [done EXCEPT ![s] = Tail(@)] /\ UNCHANGED <<wq, stream>>
          \/ WriteSome(s, Head(done[s]), FALSE, Tail(done[s]))
      BY <2>5 DEF WriteDone
    <3>. QED  BY <1>0, <1>1, <3>1
  <2>. QED  BY <2>1, <2>2, <2>3, <2>4, <2>5 DEF WriteStep
<1>3. UNCHANGED <<sent[t], start[t]>>
  BY <1>0 DEF ReadStep, WriteStep, Open, HeaderDone, BodySome, BodyDone,
              CallbackReturn, ReadError, Drop, Exit, Destroy, doWrite,
              WriteReady, WriteFail, WriteDone, writeVars
<1>4. UNCHANGED readerVars(t)
  <2>1. CASE WriteStep(s)
    BY <2>1 DEF WriteStep, doWrite, WriteReady, WriteFail, WriteDone,
                sessionVars, readVars, readerVars
  <2>2. CASE ReadStep(s)
    <3>1. UNCHANGED <<st[t], cb[t], rd[t]>>
      BY <1>0, <2>2 DEF ReadStep, Open, HeaderDone, BodySome, BodyDone,
                        CallbackReturn, ReadError, Drop, Exit, Destroy,
                        sessionVars
    <3>2. UNCHANGED <<body_lenght_[t], body[t], fill[t], consumed[t], delivered[t]>>
      <4>0. /\ body_lenght_ \in [End -> 0..MaxDecoded]
            /\ body \in [End -> [Room -> Cell]]
            /\ fill \in [End -> 0..MaxDecoded]
            /\ consumed \in [End -> Nat]
            /\ delivered \in [End -> Seq(Seq(Cell))]
        BY <1>0
      <4>1. CASE HeaderDone(s)
        BY <4>0, <4>1 DEF HeaderDone
      <4>2. CASE BodySome(s)
        <5>1. UNCHANGED <<body_lenght_, delivered>>
          BY <4>2 DEF BodySome
        <5>2. UNCHANGED <<body[t], fill[t], consumed[t]>>
          BY <4>0, <4>2 DEF BodySome
        <5>. QED  BY <5>1, <5>2
      <4>3. CASE BodyDone(s)
        BY <4>0, <4>3 DEF BodyDone
      <4>4. CASE Open(s) \/ CallbackReturn(s) \/ ReadError(s) \/ Drop(s) \/ Exit(s)
        BY <4>4 DEF Open, CallbackReturn, ReadError, Drop, Exit, readVars
      <4>. QED  BY <2>2, <4>1, <4>2, <4>3, <4>4 DEF ReadStep
    <3>. QED  BY <3>1, <3>2 DEF readerVars
  <2>. QED  BY <2>1, <2>2
<1>. QED  BY <1>2, <1>3, <1>4 DEF writerVars

\* An end whose writes are left alone, and its reader.
LEMMA WriterUnchanged ==
    ASSUME IInv, NEW p \in End, UNCHANGED writerVars(p)
    PROVE  Writer(p)' /\ Kept(p)
<1>1. /\ TInv /\ Writer(p)
      /\ UNCHANGED <<stream[p], sent[p], start[p], wq[p], done[p]>>
  BY DEF IInv, OInv, writerVars
<1>2. Extends(sent'[p], sent[p])
  BY <1>1, WriterTypes, SelfExtends
<1>3. Writer(p)'
  BY <1>1, WriterSame DEF Writer, NothingElseSent
<1>. QED  BY <1>1, <1>2, <1>3 DEF Kept

\* A step of one end's Session keeps the invariant of both writers and readers.
LEMMA EndStep ==
    ASSUME IInv, NEW s \in End, ReadStep(s) \/ WriteStep(s)
    PROVE  (\A p \in End : Writer(p)') /\ (\A t \in End : Reader(t)')
<1>0. TInv /\ TypeOK
  BY DEF IInv, OInv, TInv
<1>1. Writer(s)' /\ (Kept(s) \/ Grown(s))
  <2>1. CASE ReadStep(s)
    <3>1. Destroy(s) \/ UNCHANGED writeVars \/ Exit(s)
      BY <2>1 DEF ReadStep, Open, HeaderDone, BodySome, BodyDone,
                  CallbackReturn, ReadError, Drop
    <3>2. UNCHANGED <<sent, start>>
      BY <3>1 DEF Destroy, writeVars, Exit
    <3>3. Kept(s)
      BY <1>0, <3>2, WriterTypes, SelfExtends DEF Kept
    <3>. QED  BY <3>1, <3>3, DestroyWriter
  <2>2. ASSUME NEW len \in BodyLens, doWrite(s, len)
        PROVE  Writer(s)' /\ (Kept(s) \/ Grown(s))
    BY <2>2, doWriteWriter
  <2>3. CASE WriteReady(s) \/ WriteFail(s) \/ WriteDone(s)
    <3>1. UNCHANGED <<sent, start>>
      BY <2>3 DEF WriteReady, WriteFail, WriteDone
    <3>2. Kept(s)
      BY <1>0, <3>1, WriterTypes, SelfExtends DEF Kept
    <3>. QED  BY <2>3, <3>2, WriteDoneWriter
  <2>. QED  BY <2>1, <2>2, <2>3 DEF WriteStep
<1>2. ASSUME NEW p \in End, p # s PROVE Writer(p)' /\ Kept(p)
  BY <1>0, <1>2, StepIsLocal, WriterUnchanged
<1>3. ASSUME NEW t \in End, UNCHANGED readerVars(t) PROVE Reader(t)'
  <2>1. Kept(Peer[t]) \/ Grown(Peer[t])
    BY <1>1, <1>2, PeerType
  <2>2. Reader(t) /\ FramesLaid(Peer[t])
    BY PeerType DEF IInv, Writer
  <2>. QED  BY <1>0, <1>3, <2>1, <2>2, ReaderUndisturbed
<1>4. Reader(s)'
  <2>1. CASE ReadStep(s)
    BY <2>1, HeaderDoneReader, BodySomeReader, BodyDoneReader, OtherReader
       DEF ReadStep
  <2>2. CASE WriteStep(s)
    <3>1. UNCHANGED readerVars(s)
      BY <2>2 DEF WriteStep, doWrite, WriteReady, WriteFail, WriteDone,
                  sessionVars, readVars, readerVars
    <3>. QED  BY <1>3, <3>1
  <2>. QED  BY <2>1, <2>2
<1>5. ASSUME NEW t \in End, t # s PROVE Reader(t)'
  BY <1>0, <1>3, <1>5, StepIsLocal
<1>. QED  BY <1>1, <1>2, <1>4, <1>5

\* Every step keeps the invariant.
LEMMA NextIInv == IInv /\ [Next]_vars => IInv'
<1> SUFFICES ASSUME IInv, [Next]_vars
             PROVE  (\A p \in End : Writer(p)') /\ (\A t \in End : Reader(t)')
  BY NextOInv DEF IInv
<1>1. ASSUME NEW s \in End, ReadStep(s) \/ WriteStep(s)
      PROVE  (\A p \in End : Writer(p)') /\ (\A t \in End : Reader(t)')
  BY <1>1, EndStep
<1>2. ASSUME UNCHANGED <<sessionVars, readVars, writeVars>>
      PROVE  (\A p \in End : Writer(p)') /\ (\A t \in End : Reader(t)')
  <2>1. ASSUME NEW p \in End PROVE Writer(p)' /\ Kept(p)
    <3>1. UNCHANGED writerVars(p)
      BY <1>2 DEF writeVars, writerVars
    <3>. QED  BY <3>1, WriterUnchanged
  <2>2. ASSUME NEW t \in End PROVE Reader(t)'
    <3>1. UNCHANGED readerVars(t)
      BY <1>2 DEF sessionVars, readVars, readerVars
    <3>2. TInv /\ Reader(t) /\ FramesLaid(Peer[t]) /\ Kept(Peer[t])
      BY <2>1, PeerType DEF IInv, OInv, Writer
    <3>. QED  BY <3>1, <3>2, ReaderUndisturbed
  <2>. QED  BY <2>1, <2>2
<1>3. ASSUME NEW s \in End, NetStep(s)
      PROVE  UNCHANGED <<sessionVars, readVars, writeVars>>
  BY <1>3 DEF NetStep, Arrive, Reset
<1>4. UNCHANGED vars => UNCHANGED <<sessionVars, readVars, writeVars>>
  BY DEF vars
<1>5. Next => \E s \in End : ReadStep(s) \/ WriteStep(s) \/ NetStep(s)
  BY DEF Next, ReadStep, WriteStep, NetStep
<1>. QED  BY <1>1, <1>2, <1>3, <1>4, <1>5

(***************************************************************************)
(* However the kernel splits the sends and the network the stream, and     *)
(* whatever read_msg_ held before: every frame that an end wrote before    *)
(* its first short send reaches the other script as it was written.  For   *)
(* every header size, body length and number of frames.                    *)
(***************************************************************************)
THEOREM FramesIntact == Spec => []IntactBeforeShortSend
<1>1. IInv => IntactBeforeShortSend
  BY DEF IInv, Reader, Intact, IntactBeforeShortSend
<1>. QED  BY <1>1, InitIInv, NextIInv, PTL DEF Spec

=============================================================================
