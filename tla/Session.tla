------------------------------- MODULE Session -------------------------------
(***************************************************************************)
(* libsocket/session.cpp: two Sessions at the ends of one connection, each *)
(* in a process of its own with a single-threaded io_context.  A Session   *)
(* reads header, body, header, body ... for ever, hands every body to the  *)
(* script's "read" callback, and writes frames for the script with         *)
(* doWrite.                                                                *)
(*                                                                         *)
(* The byte stream of each direction is a sequence of cells <<k, j>>: the  *)
(* j-th cell of the k-th frame that end gave to doWrite, or Junk.          *)
(***************************************************************************)
EXTENDS Message, Sequences

CONSTANTS
    End,            \* the Sessions
    Peer,           \* the Session at the other end of the connection
    BodyLens,       \* lengths of the strings scripts write
    MaxSends,       \* bound: frames each end writes
    MaxDecoded,     \* longest length decode() can find; 65535 in the code
    KernelTakesAll  \* the socket's send buffer always has room for a frame

ASSUME EndAssumption ==
    /\ Peer \in [End -> End]
    /\ \A s \in End : Peer[s] # s /\ Peer[Peer[s]] = s

ASSUME SendAssumption ==
    /\ BodyLens \subseteq Nat
    /\ MaxSends \in [End -> Nat]
    /\ KernelTakesAll \in BOOLEAN

\* Two length bytes hold more than a body may have.
ASSUME DecodeAssumption == MaxDecoded \in max_body_lenght..65535

VARIABLES
    \* the Session object and the io_context that serves it
    st,             \* "new" until accepted or connected, then "live", "dead"
    held,           \* the script keeps a session_ptr
    cb,             \* the callback the script is running for this Session
    rd,             \* the async_read that is pending
    body_lenght_,   \* read_msg_.body_lenght_
    body,           \* read_msg_.body(), and socket_ behind it
    fill,           \* cells of the pending body that have been read
    overrun,        \* decode() wrote beyond data_, into socket_
    wq,             \* writes waiting for the socket to become writable
    done,           \* writes whose completion is posted to the io_context
    freedUse,       \* a write was continued on a destroyed Session
    \* the connection
    stream,         \* cells the kernel took from this end, in order
    arrived,        \* how many of the peer's cells have reached this end
    consumed,       \* how many of those the Session has read
    reset,          \* the connection is broken
    \* history, for the properties
    sent,           \* body lengths of the frames given to doWrite
    short,          \* the kernel once took less than a send offered it
    start,          \* where the frames begin that the kernel took at once
    delivered       \* what getReadmsg returned in the "read" callbacks

sessionVars == <<st, held, cb, rd>>
readVars == <<body_lenght_, body, fill, overrun, consumed, delivered>>
writeVars == <<wq, done, freedUse, stream, sent, short, start>>
netVars == <<arrived, reset>>
vars == <<sessionVars, readVars, writeVars, netVars>>

Cell == Nat \X Nat
Junk == <<0, 0>>

\* The bytes from body() on: the rest of data_ with the terminator's place,
\* and as much behind it as a decoded length can reach.
Room == 1..(MaxDecoded + 1)

WriteOp == [k : Nat, n : Nat, total : Nat, ok : BOOLEAN]

Init ==
    /\ st = [s \in End |-> "new"]
    /\ held = [s \in End |-> FALSE]
    /\ cb = [s \in End |-> "none"]
    /\ rd = [s \in End |-> "none"]
    /\ body_lenght_ = [s \in End |-> 0]
    /\ body = [s \in End |-> [j \in Room |-> Junk]]
    /\ fill = [s \in End |-> 0]
    /\ overrun = [s \in End |-> FALSE]
    /\ wq = [s \in End |-> <<>>]
    /\ done = [s \in End |-> <<>>]
    /\ freedUse = [s \in End |-> FALSE]
    /\ stream = [s \in End |-> <<>>]
    /\ arrived = [s \in End |-> 0]
    /\ consumed = [s \in End |-> 0]
    /\ reset = [s \in End |-> FALSE]
    /\ sent = [s \in End |-> <<>>]
    /\ short = [s \in End |-> FALSE]
    /\ start = [s \in End |-> <<0>>]
    /\ delivered = [s \in End |-> <<>>]
-----------------------------------------------------------------------------
(***************************************************************************)
(* Reading.                                                                *)
(***************************************************************************)

\* The io_context runs one handler at a time, and none during a callback.
Idle(s) == cb[s] = "none"

Available(s) == arrived[s] - consumed[s]

\* What Session::getReadmsg returns.
getReadmsg(s) == [j \in 1..body_lenght_[s] |-> body[s][j]]

\* The handler of async_accept or async_connect: new_session->start() posts
\* the first readHeader, then the "accept" or "connect" callback runs.
Open(s) ==
    /\ st[s] = "new"
    /\ st' = [st EXCEPT ![s] = "live"]
    /\ rd' = [rd EXCEPT ![s] = "header"]
    /\ cb' = [cb EXCEPT ![s] = "open"]
    /\ held' = [held EXCEPT ![s] = TRUE]
    /\ UNCHANGED <<readVars, writeVars, netVars>>

\* The header cells at a position of p's stream belong to frame k.
HeaderAt(p, k, at) ==
    \A j \in 1..head_lenght : stream[p][at + j] = <<k, j>>

\* The lengths decode() can find in the next header.  Cells that are not one
\* frame's header hold any length, and nothing compares it with the room.
DecodedLens(s) ==
    LET p == Peer[s]
        whose == {k \in 1..Len(sent[p]) : HeaderAt(p, k, consumed[s])}
    IN  IF whose # {}
        THEN {DecodeLen(body_lenght_[s], LenBytes(sent[p][k])) : k \in whose}
        ELSE 0..MaxDecoded

\* readHeader's handler without an error: decode() with the terminator it
\* stores behind the body, then readBody().
HeaderDone(s) ==
    /\ Idle(s)
    /\ rd[s] = "header"
    /\ Available(s) >= head_lenght
    /\ consumed' = [consumed EXCEPT ![s] = @ + head_lenght]
    /\ \E len \in DecodedLens(s) :
          /\ body_lenght_' = [body_lenght_ EXCEPT ![s] = len]
          /\ body' = [body EXCEPT ![s][len + 1] = Junk]
          /\ overrun' = [overrun EXCEPT ![s] = @ \/ len > max_body_lenght]
    /\ fill' = [fill EXCEPT ![s] = 0]
    /\ rd' = [rd EXCEPT ![s] = "body"]
    /\ UNCHANGED <<st, held, cb, delivered, writeVars, netVars>>

\* One read_some of the composed read that fills read_msg_.body().
BodySome(s) ==
    /\ Idle(s)
    /\ rd[s] = "body"
    /\ \E j \in 1..(body_lenght_[s] - fill[s]) :
          /\ j <= Available(s)
          /\ body' = [body EXCEPT ![s] =
                [i \in Room |->
                    IF i \in (fill[s] + 1)..(fill[s] + j)
                    THEN stream[Peer[s]][consumed[s] + i - fill[s]]
                    ELSE @[i]]]
          /\ fill' = [fill EXCEPT ![s] = @ + j]
          /\ consumed' = [consumed EXCEPT ![s] = @ + j]
    /\ UNCHANGED <<sessionVars, body_lenght_, overrun, delivered, writeVars, netVars>>

\* Mutant: readBody with async_read_some, satisfied by any part of the body.
BodyStarted(s) == fill[s] > 0 \/ body_lenght_[s] = 0

\* readBody's async_read completes when the whole body is there.
BodyComplete(s) == fill[s] = body_lenght_[s]

\* readBody's handler without an error, up to the script's callback.
BodyDone(s) ==
    /\ Idle(s)
    /\ rd[s] = "body"
    /\ BodyComplete(s)
    /\ cb' = [cb EXCEPT ![s] = "read"]
    /\ rd' = [rd EXCEPT ![s] = "none"]
    /\ held' = [held EXCEPT ![s] = TRUE]
    /\ delivered' = [delivered EXCEPT ![s] = Append(@, getReadmsg(s))]
    /\ UNCHANGED <<st, body_lenght_, body, fill, overrun, consumed, writeVars, netVars>>

\* Mutant: the handler of readBody ends with the callback.
ReadNothingMore(s) == rd[s]

\* What is read next: the handler of readBody goes on to readHeader; accept's
\* and connect's had started the read before the callback.
ReadAfterCallback(s) == IF cb[s] = "read" THEN "header" ELSE rd[s]

\* The script's callback returns to the handler that called it.
CallbackReturn(s) ==
    /\ cb[s] # "none"
    /\ cb' = [cb EXCEPT ![s] = "none"]
    /\ rd' = [rd EXCEPT ![s] = ReadAfterCallback(s)]
    /\ UNCHANGED <<st, held, readVars, writeVars, netVars>>

\* Mutant: the read handlers capture this alone.
HandlerOwnsNothing(s) == FALSE

\* The pending read handler captures self = shared_from_this().
HandlerOwns(s) == rd[s] # "none"

\* ~Session closes the socket: what waits in it completes with an error.
Destroy(s) ==
    /\ st' = [st EXCEPT ![s] = "dead"]
    /\ done' = [done EXCEPT ![s] =
                   @ \o [i \in 1..Len(wq[s]) |-> [wq[s][i] EXCEPT !.ok = FALSE]]]
    /\ wq' = [wq EXCEPT ![s] = <<>>]
    /\ UNCHANGED <<freedUse, stream, sent, short, start>>

\* Cells the pending read still waits for.
Wanted(s) == IF rd[s] = "header" THEN head_lenght ELSE body_lenght_[s] - fill[s]

NoMoreInput(s) ==
    \/ reset[s]
    \/ st[Peer[s]] = "dead" /\ arrived[s] = Len(stream[Peer[s]])

\* Mutant: the handler reads on after an error.
ReadErrorRetries(s) ==
    /\ Idle(s)
    /\ rd[s] # "none"
    /\ Available(s) < Wanted(s)
    /\ NoMoreInput(s)
    /\ rd' = [rd EXCEPT ![s] = "header"]
    /\ UNCHANGED <<st, held, cb, readVars, writeVars, netVars>>

\* The handler of readHeader or readBody with an error: it only logs, so the
\* read chain ends and its session_ptr goes away.  A socket_ that decode()
\* wrote into may fail at any time; else it reads on or the process dies (Exit).
ReadError(s) ==
    /\ Idle(s)
    /\ rd[s] # "none"
    /\ overrun[s] \/ (Available(s) < Wanted(s) /\ NoMoreInput(s))
    /\ rd' = [rd EXCEPT ![s] = "none"]
    /\ IF held[s] THEN UNCHANGED <<st, writeVars>> ELSE Destroy(s)
    /\ UNCHANGED <<held, cb, readVars, netVars>>

\* Lua's collector finalizes the script's session_ptr.
Drop(s) ==
    /\ Idle(s)
    /\ held[s]
    /\ held' = [held EXCEPT ![s] = FALSE]
    /\ IF HandlerOwns(s) THEN UNCHANGED <<st, writeVars>> ELSE Destroy(s)
    /\ UNCHANGED <<cb, rd, readVars, netVars>>
-----------------------------------------------------------------------------
(***************************************************************************)
(* Writing.  doWrite encodes into a local message and hands its address to *)
(* async_write, which tries to send at once, while doWrite is still        *)
(* running.  What the kernel does not take then is sent later, out of      *)
(* stack memory that is no longer the message.                             *)
(***************************************************************************)

\* Mutant: the header is written first, and the body when it is out.
HeaderFirst(op) ==
    IF op.n < head_lenght THEN head_lenght - op.n ELSE op.total - op.n

\* The cells a send of this write offers the kernel: the rest of the frame.
Offered(op) == op.total - op.n

\* How much of rem cells one send takes.
Take(rem) == IF KernelTakesAll THEN {rem} ELSE 0..rem

\* What a send of j cells reads out of the buffer of frame k.
Chunks(k, n, j, inDoWrite) ==
    {[i \in 1..j |-> <<k, n + i>>]} \cup
        (IF inDoWrite THEN {} ELSE {[i \in 1..j |-> Junk]})

\* One async_write_some of the composed write op.  posted is what the other
\* completions of the io_context are at this point.
WriteSome(s, op, inDoWrite, posted) ==
    LET queued == /\ wq' = [wq EXCEPT ![s] = Append(@, op)]
                  /\ done' = [done EXCEPT ![s] = posted]
                  /\ UNCHANGED stream
    IN  \/ /\ wq[s] # <<>>
           /\ queued
           /\ UNCHANGED short
        \/ /\ wq[s] = <<>>
           /\ reset[s]
           /\ done' = [done EXCEPT ![s] = Append(posted, [op EXCEPT !.ok = FALSE])]
           /\ UNCHANGED <<wq, stream, short>>
        \/ /\ wq[s] = <<>>
           /\ ~reset[s]
           /\ \E j \in Take(Offered(op)) :
              /\ short' = [short EXCEPT ![s] = @ \/ j < Offered(op)]
              /\ \/ j = 0 /\ queued
                 \/ /\ j > 0
                    /\ \E chunk \in Chunks(op.k, op.n, j, inDoWrite) :
                          stream' = [stream EXCEPT ![s] = @ \o chunk]
                    /\ done' = [done EXCEPT ![s] =
                                   Append(posted, [op EXCEPT !.n = @ + j])]
                    /\ UNCHANGED wq

\* Mutant: msg.size(), whose body_lenght_ encode() never sets.
HeaderSizeOnly(len) == head_lenght

\* msg.head_len() + str.size(): the cells doWrite hands to async_write.
FrameSize(len) == head_lenght + len

\* doWrite from any callback of the script's process, for a session_ptr the
\* script has.  A body that is too long throws and changes nothing.
doWrite(s, len) ==
    /\ st[s] = "live"
    /\ held[s]
    /\ Len(sent[s]) < MaxSends[s]
    /\ Encodable(len)
    /\ LET k == Len(sent[s]) + 1
           total == FrameSize(len)
       IN  /\ sent' = [sent EXCEPT ![s] = Append(@, len)]
           /\ WriteSome(s, [k |-> k, n |-> 0, total |-> total, ok |-> TRUE],
                        TRUE, done[s])
           /\ start' = [start EXCEPT ![s] =
                 IF Len(@) = k /\ Len(stream'[s]) = Len(stream[s]) + total
                 THEN Append(@, Len(stream'[s])) ELSE @]
    /\ UNCHANGED <<sessionVars, readVars, freedUse, netVars>>

\* The socket becomes writable and the reactor performs the first waiting
\* write, as far as the send buffer allows.
WriteReady(s) ==
    /\ Idle(s)
    /\ wq[s] # <<>>
    /\ ~reset[s]
    /\ LET op == Head(wq[s])
       IN  \E j \in 1..Offered(op) :
              /\ short' = [short EXCEPT ![s] = @ \/ j < Offered(op)]
              /\ \E chunk \in Chunks(op.k, op.n, j, FALSE) :
                    stream' = [stream EXCEPT ![s] = @ \o chunk]
              /\ done' = [done EXCEPT ![s] = Append(@, [op EXCEPT !.n = @ + j])]
    /\ wq' = [wq EXCEPT ![s] = Tail(@)]
    /\ UNCHANGED <<sessionVars, readVars, freedUse, sent, start, netVars>>

\* The first waiting write fails on the broken connection.
WriteFail(s) ==
    /\ Idle(s)
    /\ wq[s] # <<>>
    /\ reset[s]
    /\ done' = [done EXCEPT ![s] = Append(@, [Head(wq[s]) EXCEPT !.ok = FALSE])]
    /\ wq' = [wq EXCEPT ![s] = Tail(@)]
    /\ UNCHANGED <<sessionVars, readVars, freedUse, stream, sent, short, start,
                   netVars>>

\* The completion of a send.  A frame that is out, or failed, runs doWrite's
\* handler, which only logs; otherwise the composed op sends the rest.  It
\* holds the socket by reference and nothing keeps the Session alive.
WriteDone(s) ==
    /\ Idle(s)
    /\ done[s] # <<>>
    /\ LET op == Head(done[s])
           finished == ~op.ok \/ op.n = op.total
       IN  \/ /\ finished
              /\ done' = [done EXCEPT ![s] = Tail(@)]
              /\ UNCHANGED <<wq, stream, short, freedUse>>
           \/ /\ ~finished
              /\ st[s] = "live"
              /\ WriteSome(s, op, FALSE, Tail(done[s]))
              /\ UNCHANGED freedUse
           \/ /\ ~finished
              /\ st[s] = "dead"
              /\ freedUse' = [freedUse EXCEPT ![s] = TRUE]
              /\ done' = [done EXCEPT ![s] = Tail(@)]
              /\ UNCHANGED <<wq, stream, short>>
    /\ UNCHANGED <<sessionVars, readVars, sent, start, netVars>>
-----------------------------------------------------------------------------
(***************************************************************************)
(* The network and the processes.                                          *)
(***************************************************************************)

\* The network moves some of the peer's cells into this end's receive buffer.
Arrive(s) ==
    /\ ~reset[s]
    /\ \E a \in (arrived[s] + 1)..Len(stream[Peer[s]]) :
          arrived' = [arrived EXCEPT ![s] = a]
    /\ UNCHANGED <<sessionVars, readVars, writeVars, reset>>

\* The connection breaks; cells that have not arrived are lost.
Reset(s) ==
    /\ ~reset[s]
    /\ reset' = [reset EXCEPT ![s] = TRUE, ![Peer[s]] = TRUE]
    /\ UNCHANGED <<sessionVars, readVars, writeVars, arrived>>

\* The process of this end stops: its kernel closes the socket, and what the
\* kernel had taken is still delivered.
Exit(s) ==
    /\ st[s] = "live"
    /\ st' = [st EXCEPT ![s] = "dead"]
    /\ held' = [held EXCEPT ![s] = FALSE]
    /\ cb' = [cb EXCEPT ![s] = "none"]
    /\ rd' = [rd EXCEPT ![s] = "none"]
    /\ wq' = [wq EXCEPT ![s] = <<>>]
    /\ done' = [done EXCEPT ![s] = <<>>]
    /\ UNCHANGED <<readVars, freedUse, stream, sent, short, start, netVars>>

Next ==
    \E s \in End :
        \/ Open(s)
        \/ HeaderDone(s)
        \/ BodySome(s)
        \/ BodyDone(s)
        \/ CallbackReturn(s)
        \/ ReadError(s)
        \/ Drop(s)
        \/ \E len \in BodyLens : doWrite(s, len)
        \/ WriteReady(s)
        \/ WriteFail(s)
        \/ WriteDone(s)
        \/ Arrive(s)
        \/ Reset(s)
        \/ Exit(s)

Spec == Init /\ [][Next]_vars

(***************************************************************************)
(* run() keeps running the handlers that are ready, scripts return from    *)
(* their callbacks and the network delivers.  Nothing forces a script to   *)
(* write or Lua to collect, a process to exit, a connection to break or    *)
(* the peer's kernel to make room.                                         *)
(***************************************************************************)
Fairness ==
    \A s \in End :
        /\ WF_vars(Open(s))
        /\ WF_vars(HeaderDone(s))
        /\ WF_vars(BodySome(s))
        /\ WF_vars(BodyDone(s))
        /\ WF_vars(CallbackReturn(s))
        /\ WF_vars(ReadError(s))
        /\ WF_vars(WriteDone(s))
        /\ WF_vars(Arrive(s))

FairSpec == Spec /\ Fairness
-----------------------------------------------------------------------------
(***************************************************************************)
(* The type invariant, in four parts: the Session and its io_context, the  *)
(* message it reads, its writes, and the network.                          *)
(***************************************************************************)
SessionTypes ==
    /\ st \in [End -> {"new", "live", "dead"}]
    /\ held \in [End -> BOOLEAN]
    /\ cb \in [End -> {"none", "open", "read"}]
    /\ rd \in [End -> {"none", "header", "body"}]

ReadTypes ==
    /\ body_lenght_ \in [End -> 0..MaxDecoded]
    /\ body \in [End -> [Room -> Cell]]
    /\ fill \in [End -> 0..MaxDecoded]
    /\ overrun \in [End -> BOOLEAN]
    /\ consumed \in [End -> Nat]
    /\ delivered \in [End -> Seq(Seq(Cell))]

WriteTypes ==
    /\ wq \in [End -> Seq(WriteOp)]
    /\ done \in [End -> Seq(WriteOp)]
    /\ freedUse \in [End -> BOOLEAN]
    /\ stream \in [End -> Seq(Cell)]
    /\ sent \in [End -> Seq(0..max_body_lenght)]
    /\ short \in [End -> BOOLEAN]
    /\ start \in [End -> Seq(Nat)]

NetTypes == arrived \in [End -> Nat] /\ reset \in [End -> BOOLEAN]

\* The type invariant of the whole connection.
TypeOK == SessionTypes /\ ReadTypes /\ WriteTypes /\ NetTypes

(***************************************************************************)
(* shared_from_this() in the read handlers: a Session is destroyed exactly *)
(* when no read is pending, no callback has it and the script has let it   *)
(* go.  In particular no read ever completes into a destroyed Session, and *)
(* none is leaked.                                                         *)
(***************************************************************************)
LiveIffOwned ==
    \A s \in End :
        st[s] = "live" <=> held[s] \/ cb[s] # "none" \/ rd[s] # "none"

\* The body of frame k, as the bytes the peer's script wrote.
Body(k, len) == [j \in 1..len |-> <<k, head_lenght + j>>]

(***************************************************************************)
(* However little the kernel takes per send: the frames an end wrote       *)
(* before its first short send reach the other script whole and in order,  *)
(* across every split of the stream and every reuse of read_msg_.          *)
(***************************************************************************)
IntactBeforeShortSend ==
    \A s \in End : \A i \in 1..Len(delivered[s]) :
        i < Len(start[Peer[s]]) => delivered[s][i] = Body(i, sent[Peer[s]][i])

(***************************************************************************)
(* session.cpp, at doWrite: it writes the data to the peer.  What the      *)
(* peer's script receives is what this script wrote, in that order.        *)
(***************************************************************************)
DeliveredIsSent ==
    \A s \in End : \A i \in 1..Len(delivered[s]) :
        /\ i <= Len(sent[Peer[s]])
        /\ delivered[s][i] = Body(i, sent[Peer[s]][i])

(***************************************************************************)
(* doWrite's write keeps nothing alive, so it may go on with a Session     *)
(* that is gone.  It takes a short send to come to that: whatever is       *)
(* dropped and destroyed while completions are posted, a write whose sends *)
(* were all taken whole has nothing left to do with its Session.           *)
(***************************************************************************)
FreedUseAfterShortSend == \A s \in End : freedUse[s] => short[s]

(***************************************************************************)
(* decode() compares the length with nothing.  What keeps its terminator   *)
(* and the body inside data_ is the limit in the peer's encode(), and that *)
(* only as long as the peer's sends are whole: no split of the stream and  *)
(* no reset makes a reader take other bytes for a header.                  *)
(***************************************************************************)
OverrunAfterShortSend == \A s \in End : overrun[s] => short[Peer[s]]

(***************************************************************************)
(* README.md: getReadmsg gets the received message.  Whenever the script   *)
(* has a session_ptr, what getReadmsg returns is empty or a message that   *)
(* was received.                                                           *)
(***************************************************************************)
GetReadmsgIsReceived ==
    \A s \in End :
        held[s] => \/ getReadmsg(s) = <<>>
                   \/ \E i \in 1..Len(delivered[s]) : getReadmsg(s) = delivered[s][i]

(***************************************************************************)
(* Every frame written is handed to the peer's script unless the           *)
(* connection breaks or the peer goes away; the writer may go away after   *)
(* doWrite returned.                                                       *)
(***************************************************************************)
WrittenArrives ==
    \A s \in End : \A i \in 1..MaxSends[Peer[s]] :
        Len(sent[Peer[s]]) >= i ~>
            Len(delivered[s]) >= i \/ reset[s] \/ st[s] = "dead"

(***************************************************************************)
(* When the peer is gone the read chain of this end stops for good,        *)
(* wherever in a frame the stream was cut, so that the Session lives no    *)
(* longer than the script wants.                                           *)
(***************************************************************************)
ReadChainEnds ==
    \A s \in End :
        st[Peer[s]] = "dead" ~> [](rd[s] = "none" /\ cb[s] = "none")

\* What a script can write, message by message.
Content == {Body(k, len) : k \in UNION {1..MaxSends[s] : s \in End},
                           len \in 0..max_body_lenght}

\* What the two histories are to Channel.
Ch == INSTANCE Channel WITH
        Content <- Content,
        written <- [s \in End |-> [i \in 1..Len(sent[s]) |-> Body(i, sent[s][i])]],
        received <- delivered

(***************************************************************************)
(* The refinement: with doWrite on one end and the read chain on the other *)
(* the connection implements an ordered channel of whole messages in each  *)
(* direction.                                                              *)
(***************************************************************************)
ImplementsChannel == Ch!Spec

\* A Session as its script knows it.
Phase(s) ==
    IF st[s] = "new" THEN "new"
    ELSE IF cb[s] # "none" THEN "callback"
    ELSE IF st[s] = "dead" \/ rd[s] = "none" THEN "over" ELSE "quiet"

Life == INSTANCE SessionLife WITH
            Sessions <- End, phase <- [s \in End |-> Phase(s)]

(***************************************************************************)
(* The refinement: whatever the connection and the collector do, a script  *)
(* gets one callback at a time for a Session, the first one when it is     *)
(* opened, and none any more when the chain of reads has ended.            *)
(***************************************************************************)
KeepsLife == Life!Spec
=============================================================================
