# Verification of socketcore

socketcore is a Lua module, written in C++ over Boost.Asio, that gives scripts
TCP connections with framed messages, timers and a MySQL connection.  This
directory holds TLA+ models of it, TLC configurations that check them on small
instances, and theorems about them that TLAPS has checked for all instances.

## 1. The system

Everything runs on one thread.  `luaopen_socketcore` creates one `io_context`,
one `Socket` and one `DataBase` and registers the functions a script can call.
The script's main chunk creates timers, listens and connects, and then calls
`run()`, which is `io_context::run()`: from there on the script runs only
inside callbacks, which the handlers of the `io_context` call one at a time.
The hard part is therefore not parallelism within a process.  It is the order
in which handlers become ready, what an object looks like between two handlers,
who keeps it alive meanwhile, and the other process at the end of a connection.

| component | source | state | operations |
|---|---|---|---|
| message | `message.hpp` | `header_`, `data_`, `body_lenght_` of an object that is reused for every frame | `encode`, `decode` |
| Session | `session.cpp`, `session.h` | socket, `read_msg_`, the owners of the object, pending reads and writes; static `cbs_` | `start`, `readHeader`, `readBody`, `doWrite`, `getReadmsg`, `callBack`, the destructor |
| mytimer | `mytimer.hpp` | `timer_`, `id_`, `msTime_`, `bLoop_`; static `timerSet_`, `mapIdToTimer_` | constructor, `retain`, `start` and its handler, `cancel`, `cancelById` |
| Socket | `socket.cpp`, `socket.h` | `acceptor_`, Sessions that are being accepted or connected | `listen`, `accept`, `connect`; `read` and `write` |
| DataBase | `database.hpp` | `res_`, and the server's side of the connection | `connect`, `query`, `fetch_row`, the destructor |
| Lua binding | `socketcore.cpp` | none of its own: one `io_context`, `Socket` and `DataBase` | the table of functions, `run` |
| `header.hpp` | | none | an older header definition nobody includes |
| precompiled header, DLL entry | `stdafx.*`, `dllmain.cpp`, `targetver.h` | none | |
| example script | `examples/example_timer.lua` | | a user of the timers |
| sol | `third/sol` | | vendored binding library |

How they interact:

* `Socket::accept` and `connect` create a `Session` and hand it to the handler,
  which calls `start()` and then the script's `accept` or `connect` callback;
  only then is the next `accept()` issued.
* A `Session` reads a header, decodes it into `read_msg_`, reads the body into
  the same `read_msg_`, calls the script's `read` callback, and starts over.  The
  script reads the message with `getReadmsg`, which looks at `read_msg_`.  The
  read handlers hold a `shared_ptr` to the Session, and so may the script.
* `doWrite` encodes into a *local* `message` and passes its address to
  `async_write`, whose handler captures nothing.
* A timer's handler captures `this`; `retain()` keeps the object in
  `mapIdToTimer_`.  The handler calls the script's function and then, if
  `bLoop_` still says so, moves the expiry on and waits again.

What is hard to get right here, and hard to test (each at its line in
`PROJECT.json`, "hazards"):

* the byte stream may be cut anywhere, at any time, also by the end of the peer;
* the kernel may take any part of a frame, and `async_write` goes on later, from
  memory and a socket that may be gone, next to other writes on the same socket;
* a reader that has lost its place decodes a length that nothing compares with `data_`;
* a completion may be queued already when another handler cancels it;
* a callback may cancel the timer it belongs to, create others, or write;
* `read_msg_` is reused, partly overwritten, and visible to the script all along;
* an accept may fail, for want of a descriptor or of `listen()`, and nobody hears of it;
* ids, chains and `run()` must end, or go on, exactly when they should.

What makes each component correct:

* **message**: what is decoded is what was encoded, whatever went through the
  object before, and nothing is written outside `data_`.
* **Session**: each direction is an ordered channel of whole messages; a Session
  lives exactly as long as something refers to it; written messages arrive, and a
  read chain ends when the peer is gone.
* **mytimer**: an id stands for one timer for good; a timer never has two waits;
  no drift; no call after cancel beyond the one already queued; `run()` ends.
* **Socket**: each `accept()` of a script starts a chain of accepts that only an error
  ends; a session is introduced to the script before its first message; a waiting
  client is served and a Session whose peer has left goes away.
* **the process**: timers and sockets, on one `io_context`, neither disturb nor starve
  each other, and `run()` returns when both have nothing left.
* **DataBase**: `fetch_row` gives the rows of one result after the other, in order
  and to the end, and each call leaves the connection usable for the next query.

## 2. Modules

| module | models | how |
|---|---|---|
| `Message` | the frame: `Header`, `encode`, `decode` | operators on lengths and header bytes |
| `Codec` | a sending and a reading `message` object | one action per `encode` and `decode` |
| `Channel` | abstract: what a connection promises | two sequences of messages per connection |
| `SessionLife` | abstract: what a script is promised about each Session | one phase per Session |
| `Session` | two Sessions, their io_contexts, the connection, the scripts | one action per handler and call |
| `Socket` | the acceptor, the accept chains, `connect`, the Sessions as owners see them, the script | one action per handler and call |
| `Alarm` | abstract: what a timer promises | status and next call of each alarm |
| `MyTimer` | the timers, the io_context's timer queue, the script | one action per handler and call |
| `Process` | `Socket` and `MyTimer` on one io_context, with one script | their actions, and a joint end of `run()` |
| `DataBase` | one MySQL connection and `res_` | one action per call |
| `MCCodec`, `MCSession`, `MCSocket`, `MCProcess`, `MCDataBase` | instances for TLC | values of constants |
| `CodecProofs`, `SessionProofs`, `FrameProofs`, `WholeProofs`, `SocketProofs`, `DataBaseProofs`, `TimerProofs`, `ProcessProofs` | | theorems |

### Message and Codec

A body is its length, since neither `encode` nor `decode` looks inside.  The two
length bytes are computed as the code copies them, from a `size_t` into two
`uint8_t`, on the little-endian machines the makefile builds for.  `DecodeLen`
overwrites the low two bytes of `body_lenght_` and leaves the others, as the
`memcpy` does.  `Header header;` is not initialised, so `pmt_` is any byte unless
the message is PROTO.  `Abort` is the failed `assert` on a PROTO message without
a type.

### Session

The state of one end: `st` (not yet connected, live, destroyed), who owns it
(`held` by the script, `cb` while a callback runs, `rd` a pending read), the
parts of `read_msg_` (`body_lenght_`, `body`, `fill`), and its writes (`wq` waiting
for the socket to become writable, `done` with a posted completion).  The
connection is, for each direction, the cells the kernel took (`stream`) with how
many `arrived` and were `consumed`.  A cell `<<k, j>>` is the `j`-th cell of the
`k`-th frame, so every mix-up of frames shows; `Junk` is what is sent out of
memory that is no longer the frame.

`HeaderDone` finds the length of the frame whose header it has read.  Cells that are not one
frame's header hold any length up to `MaxDecoded`, which is 65535 in the code, and
neither `decode` nor `readHeader` compares it with anything: a length above
`max_body_lenght` sets `overrun`, for the terminator and the body then go beyond `data_`
into `socket_`, which follows `read_msg_` in a Session.  From there on the reads go on, or
fail at any moment (`ReadError`), or the process dies (`Exit`).

| action | code |
|---|---|
| `Open` | the success branches of `Socket::accept` and `connect`, up to the callback |
| `HeaderDone`, `BodySome`, `BodyDone` | `readHeader`'s handler; one read of `readBody`'s `async_read`; `readBody`'s handler up to the callback |
| `CallbackReturn` | the rest of that handler, which calls `readHeader` |
| `ReadError` | either handler with an error: it logs, and its `session_ptr` goes away |
| `Drop` | Lua's collector on the script's `session_ptr` |
| `doWrite` | `Session::doWrite`, with the first send that `async_write` makes before it returns |
| `WriteReady`, `WriteFail`, `WriteDone` | the reactor sends, or fails; a completion sends the rest or runs the handler |
| `Arrive`, `Reset`, `Exit` | the network; the end of a process |

Several writes on one socket wait in one queue, and the first send is tried only
when the queue is empty: that is what the reactor of Asio does.  Each completion
of a short send goes to the end of the same queue, which is how two composed
writes get mixed.

`KernelTakesAll` says whether the socket's send buffer always has room for a
frame.  Under `FALSE` every send may take any part of what is left, also nothing;
`short` records that one did not take all of it.

`SessionLife` is the Session from its script's side: introduced once, then one
callback at a time, and silence when it is over.  `Session` and `Socket` both
implement it (`KeepsLife`, `IntroducesSessions`), which is how the two views of a
Session, its bytes and its owners, fit together.

### Socket

`accepts` counts the `async_accept`s that wait, `accepted` and `refused` those that are
complete with their handlers not run yet.  Asio tries `accept(2)` on the spot if no other
accept waits.  The kernel takes the descriptor before it looks for a client: with `MaxFds` in
use that fails, also when nobody waits.  Otherwise the accept waits until the reactor finds
the acceptor readable, and `PollAcceptor` then performs the waiting accepts one after the
other until none is left or none of the clients: `Served` says how many get one, and
when the descriptors are used up meanwhile, the accepts behind fail, with or without a further
client.  On a socket that does not listen an accept fails at once.

| action | code |
|---|---|
| `setCallBack`, `listen`, `Accept`, `connect`, `Run` | the script's calls, from its main chunk or a callback |
| `AcceptDone`, `ConnectDone` | the handlers without an error, with `start()`, up to the callback |
| `Message` | `readBody`'s handler up to the callback; `Session` has the rest |
| `CallbackReturn` | what follows the callback: the next `accept()`, or `readHeader()` |
| `AcceptError`, `ConnectError`, `ReadError` | the branches that only log |
| `Abort` | `callBack`'s assert on a name nobody registered; the makefile does not set `NDEBUG` |
| `Drop` | Lua's collector on a `session_ptr` |
| `Raise` | an error the script does not catch: the process ends, and in a callback its handler goes no further |
| `RunReturns` | no work left: the `io_context` is stopped, for good, since nobody calls `restart()` |
| `Arrive`, `Leave` | the peers |

### Process

`Process` extends `Socket` and instantiates `MyTimer` with the same `script` and `stopped`.
A step is one of either part with the other's variables unchanged, except the end of
`run()`, which is a step of both: no timer waits and no socket has work.  As each
callback may call every function, timers are created from an accept callback
and accepts started from a timer.  An error in a timer's callback ends the process as one in
a Session's does.

### MyTimer

One script with an `io_context`.  `script` says whether its main chunk, `run()` or
a callback is executing; timers are created and cancelled in the first and the
last.  `wait` and `queue` are the `async_wait`s: pending, or completed and queued.
`Poll` completes all waits that are due together, in the order of their
expiry; timers that expire at the same time come in any order.  The handler is
two actions, `Fire` up to the script's function and `FuncReturn` after it,
because the script acts in between and time passes; `Raise` is an error instead of the return.  `uuid_` of each object is
uninitialised, so `uuid()` may give any id that is not in `timerSet_`.
`born`, `once`, `fired`, `cancelled` and `late` are history.

`Alarm` is what remains without waits, queues and handlers: an alarm is set for a time,
calls no sooner, again at the same interval if it is to repeat, and once more
at the most when it is cancelled.  `ImplementsAlarm` maps a timer to "cancelled" only
while a completion of it is queued, and to "off" otherwise.

### DataBase

`conn` is what the MySQL client library knows of its connection: closed, ready for a
query, with a result nobody uses yet, or with rows that are unread.  `res_` is the
number of the statement whose result is open.  `connect`, `query` and `fetch_row` are
three operations, with the destructor (`destroy`) as the fourth; `fetch_row` is one action with its inner calls, since they are
synchronous: `mysql_query`, `mysql_use_result`, `mysql_fetch_row` and
`mysql_free_result`.  Each of them may find that the server is gone, and in
`mysql_query` the statement may have been executed by then.  Calls that throw without
having changed anything are not actions.  `ran` and `answers` are history.

## 3. What the runs show

| run | instance | checks |
|---|---|---|
| `codec` | the code's sizes, 4 and 1024, and body lengths at each boundary, the two beyond the limit included | `TypeOK`, `DecodeInvertsEncode`, `TerminatorInBounds` |
| `session` | both ends write, bodies of length 2, whole sends, FairSpec | `DeliveredIsSent`, `ImplementsChannel`, `WrittenArrives`, `ReadChainEnds` |
| `session_short` | one writer, bodies of length 1, any split of a send | `TypeOK`, `LiveIffOwned`, `IntactBeforeShortSend`, `FreedUseAfterShortSend`, `OverrunAfterShortSend`, `KeepsLife` |
| `socket` | two clients, one outgoing connection, two calls of `accept()`, two descriptors, FairSpec | `TypeOK`, `OneAcceptPerCall`, `DescriptorsOwned`, `RunServes`, `ClientsServed`, `DescriptorsReturn`, `IntroducesSessions` |
| `process` | one client, one outgoing connection, one descriptor, one timer, clock up to 2, a script that has registered its callbacks, fair | `TimersInProcess`, `OneAcceptPerCall`, `AlarmsInProcess`, `IntroducesSessions`, `ReturnsWhenDone`, `TimersFire`, `ProcessEnds` |
| `timer` | two timers, three ids, two intervals, clock up to 5, FairSpec | `TypeOK`, `Retained`, `OneWaitEach`, `OnSchedule`, `CancelEndsCalls`, `RunOutlasts`, `TimerFires`, `RunEnds`, `ImplementsAlarm` |
| `database` | statements with no result set and with 0, 1 and 2 rows, three executed | `TypeOK`, `ResIsOpen`, `ReadThrough`, `ResultEnds` |

Five runs look for a disagreement between the code and what it, or its README,
says, and find it; each is a finding in `PROJECT.json`:

* `codec_pmt`: the default `pmt` is not sent; the byte is whatever the stack held.
* `session_corrupt`: after a short send the peer's script receives a message that
  nobody wrote, because the rest of the frame is sent from a dead stack frame.
* `session_torn`: a script that keeps a `session_ptr` and calls `getReadmsg` outside
  the read callback may get the length of one message with the bytes of another.
* `timer_late`: a timer that is cancelled while its completion is queued calls back
  once more.
* `database_sync`: a SELECT given to `db_query` leaves its result on the connection, and
  no operation of the library makes the connection usable again.

So for the connection the picture is this.  As long as each send takes the whole
frame, it is an ordered channel of whole messages (`ImplementsChannel`) and messages
arrive.  With short sends this ends at the first one, and three things are said of how,
however the kernel behaves.  The frames written before it arrive intact
(`IntactBeforeShortSend`).  After it a write may go on in a Session that is gone, since
`doWrite` keeps nothing alive; without it none does, whatever is dropped while
completions are posted (`FreedUseAfterShortSend`).  And after it the peer may take other
bytes for a header and write beyond `data_`; without it no split of the stream and no
reset makes it do so, although nothing checks the length (`OverrunAfterShortSend`).
In `session_short` both do happen, after a short send.

For the acceptor: an accept chain is never lost or doubled by callbacks, but any error
ends it for good.  That takes no client too many: when the last descriptor goes to a
client, the `accept()` that follows its callback has none, and fails.
`ClientsServed` therefore says only that clients are served as long as one chain is
alive, `DescriptorsReturn` that descriptors come back unless the script keeps its
`session_ptr`s, and nothing in the library makes use of them afterwards.
`DescriptorsOwned` is the safe half of that: a descriptor is never without an owner.

For the end of `run()`: `RunOutlasts`, `RunServes` and, for the whole process,
`ReturnsWhenDone` say that it does not return too early, `RunEnds` and `ProcessEnds` that it
does return.

### Bounds

* Header size: 1 or 2 cells.  Two is the least size in which another frame's cells
  can get between the cells of a header.  The proofs are for every size.
* Bodies of at most 2 cells, again the least that can be cut in the middle; a
  length beyond `max_body_lenght` is in `BodyLens` so that `encode` refuses it.
* Two frames in one direction (and one in the other for `session`): the first
  to be cut short, the second to come between it and its rest, and to be read with
  a `read_msg_` that another message has used.  Bodies of length 0 are in `codec` and in
  the theorems.  `MaxDecoded` is one more than a body may have: the least that overruns.
* Two clients, so that one waits behind the other and a chain must go on; an outgoing
  connection that competes for descriptors; two descriptors, one less than there are
  peers, so that accepts and connects fail for want of one; two calls of `accept()`, so
  that one chain may end and the other go on.
* `process` has one of each, as what it is about is how they take turns: a client that is
  accepted, a peer that is connected to, and a timer.  They share one descriptor, so that the
  accept fails under a live Session, or the connect does.  `ProcessEnds` is about what is then
  left: it holds for behaviours in which the accepted Session, its chain ended by
  the limit, has lost its peer while its read was pending and its `session_ptr` was held or
  not, for those with the connected one, and for those in which the connect failed.  The
  script registers its callbacks first (`MCSpec`, a special case of `ProcessSpec`);
  what becomes of one that does not is in `socket`.  Its liveness
  properties are what needs so small an instance; the other ones are also theorems.
* Two timers: one whose callback runs, the other behind it in the queue, created or
  cancelled meanwhile.  Two intervals make them expire together, apart, and in both
  orders.  Three ids, one more than timers.  The clock stops at 5: a loop of interval 1
  then fires five times and one of interval 2 twice, with room for a late callback.
* Three statements: one result before, one during and one after, each of a size that
  is its own (none, one, several rows).  `database` gives `db_query` only statements
  without a result set; `database_sync` shows what happens otherwise.
* No symmetry is used: the two ends have different numbers of writes.

Deadlock is not checked in these runs: a process exits, a connection breaks, a
script may have nothing left to do and the clock stops.  What must not stop is said
by the liveness properties.

### Fairness

`Session!Fairness` is weak fairness for each handler that is ready: `run()` takes
the next one as long as there is one.  It also has the return of a script's
callback and the delivery of what the kernel took (TCP, while the connection
holds).  There is none on `doWrite`, `Drop`, `Exit`, `Reset`, and none on
`WriteReady`, as a peer that does not read may keep the send buffer full for ever.

`Socket!Fairness` is strong fairness for the handlers: between two turns of `run()` other
callbacks come, so a handler is ready again and again rather than all the time,
and `run()` takes ready handlers first in, first out.  The same holds for the timers
in `Process`, as the reactor looks at its timer queue in every turn.  A connect comes
to an end one way or the other, and a peer that has left has sent only so much before.
Nothing makes a script accept, register a callback or let go of a `session_ptr`, or a
peer come or go; in `MCSpec` alone the script gets through with registering.

`MyTimer!Fairness` is weak fairness for calling `run()`, for its handlers, for the
return of callbacks and of `run()`, and for the clock.  Nothing makes the script
create or cancel a timer.

`DataBase!FairSpec` says that the script goes on calling `fetch_row`: `ResultEnds` is a
promise to such a script.

## 4. What is proved

All with TLAPS, for every value of the constants that satisfies the named
assumptions in `Message`, `Session`, `Socket`, `DataBase`, `MyTimer` and `Process`: a header of at
least one cell, bodies that fit into two length bytes, a `MaxDecoded` between the longest
body and 65535, ends that are each other's peers
in pairs, clients that are not also connected to, and intervals above zero.  There may
be any number of connections, writes and lengths, and `KernelTakesAll` is either.

| theorem | states |
|---|---|
| `CodecProofs!TypeCorrect` | `Spec => []TypeOK` |
| `CodecProofs!RoundTrip` | `Spec => []DecodeInvertsEncode` |
| `CodecProofs!TerminatorFits` | `Spec => []TerminatorInBounds` |
| `SessionProofs!TypeCorrect` | `Spec => []TypeOK` |
| `SessionProofs!Ownership` | `Spec => []LiveIffOwned` |
| `SessionProofs!LivesAsPromised` | `Spec => KeepsLife`, the refinement of `SessionLife` |
| `FrameProofs!FramesIntact` | `Spec => []IntactBeforeShortSend` |
| `WholeProofs!NothingElseDelivered` | `Spec => []DeliveredIsSent`, if `KernelTakesAll` |
| `WholeProofs!FreedUseNeedsShortSend` | `Spec => []FreedUseAfterShortSend` |
| `WholeProofs!OverrunNeedsShortSend` | `Spec => []OverrunAfterShortSend` |
| `WholeProofs!ConnectionIsChannel` | `Spec => ImplementsChannel`, the refinement of `Channel`, if `KernelTakesAll` |
| `DataBaseProofs!TypeCorrect` | `Spec => []TypeOK` |
| `DataBaseProofs!ResultsReadThrough` | `Spec => []ReadThrough` |
| `DataBaseProofs!InSync` | `Spec => []ResIsOpen`, if `db_query` gets no statement with a result set |
| `SocketProofs!TypeCorrect` | `Spec => []TypeOK` |
| `SocketProofs!ChainsStand` | `Spec => []OneAcceptPerCall` |
| `SocketProofs!ChainsKeepRunning` | `Spec => RunServes` |
| `SocketProofs!NoneLost` | `Spec => []DescriptorsOwned` |
| `SocketProofs!IntroducesAsPromised` | `Spec => IntroducesSessions`, the refinement of `SessionLife` |
| `TimerProofs!TypeCorrect` | `Spec => []TypeOK` |
| `TimerProofs!IdsStand` | `Spec => []Retained` |
| `TimerProofs!WaitsOnce` | `Spec => []OneWaitEach` |
| `TimerProofs!KeepsSchedule` | `Spec => []OnSchedule` |
| `TimerProofs!CancelEnds` | `Spec => []CancelEndsCalls` |
| `TimerProofs!OutlastsTimers` | `Spec => RunOutlasts` |
| `TimerProofs!TimersAreAlarms` | `Spec => ImplementsAlarm`, the refinement of `Alarm` |
| `ProcessProofs!TimersKeepTime` | `ProcessSpec => []TimersInProcess` |
| `ProcessProofs!ChainsInProcess` | `ProcessSpec => []OneAcceptPerCall` |
| `ProcessProofs!ReturnsLast` | `ProcessSpec => ReturnsWhenDone` |
| `ProcessProofs!SessionsInProcess` | `ProcessSpec => IntroducesSessions`, the refinement of `SessionLife` |
| `ProcessProofs!AlarmsKeepTime` | `ProcessSpec => AlarmsInProcess`, the refinement of `Alarm` |

**Codec.**  `DecodeInvertsEncode` speaks of the decoded state only.  The invariant adds
what is on the wire while a frame travels, and that `body_lenght_` is always below
65536: only then may `decode` leave its upper bytes alone.

**Types of Session.**  `TypeOK` is not inductive: the reader indexes the stream.  `TInv`
adds `Counts`: what was consumed is at most what arrived, and that is at most what
the kernel took, so that every cell a read copies exists.  It holds for every length that a
header which is none may hold, also for those beyond `data_`.

**Ownership.**  `LiveIffOwned` needs to know, when a callback returns without a read
pending, that the script holds the Session (`CallbackHeld`), for otherwise the Session
would outlive its last owner at that step.

**Frames.**  `IInv` adds two invariants to this.  `Writer(p)`: the frames taken
whole stand in `p`'s stream one after the other from position 0 (`FramesLaid`), and
as long as no send was short there is nothing else in it, and no write is
under way that could add to it (`NothingElseSent`).  `Reader(s)`: between two bodies
the reader stands at the start of the next such frame (`AtFrame`), within one it has
copied exactly what it has consumed (`InFrame`), it never gets ahead of the writer
(`ReaderBehind`), and what was delivered is intact (`Intact`).  The proof then has one
lemma per kind of step: those that extend a stream, `doWrite` in its whole and its
short case, the header step with the arithmetic of the length bytes, the copying,
and the delivery.

**Short sends.**  `DInv` adds to `IInv` what holds of an end until one of its sends is short.
`Dense(p)`: the stream ends with the last whole frame, no write waits, every completion is of a
write that is out or failed, and a frame that is missing in the stream means that the
connection is broken, also after it broke, when `IInv` says nothing any more.
`Behind(s)` follows while the *peer* has had no short send: a reader with a header's worth of
cells before it stands at a frame that is there, so what it decodes fits.
`FreedUseAfterShortSend` is what `Dense` says of completions, at the step that would continue
one on a destroyed Session; `OverrunAfterShortSend` is a part of `Behind`.  Under
`KernelTakesAll` no send is short (`NeverShort`), and `DeliveredIsSent` and the channel follow;
`session_corrupt` shows what becomes of `DeliveredIsSent` otherwise.

**DataBase.**  The invariant `Position` ties `res_`, `conn` and the last answer together:
while a result is open the last answer is the row before the unread ones, otherwise it
is an end.  `FetchNextKeeps` shows it for the first row of a result and for the later
ones at once, from the two situations in which `fetch_row` gets there.  For `ReadThrough`
it also matters that statements executed later do not disturb the earlier (`Extended`).

**Socket.**  `OneAcceptPerCall` counts the callbacks of accept that run, and is not inductive:
a callback that returns must have been the only one.  `OneCallback` says so, and with it
`Accounted` needs no counting of sets: the chains outside their callback are all that were
started, or all but one.  `RunServes` follows at the only step that sets `stopped`.
`OneCallback` does not say that in a callback one of a Session is running: in a process it
may be a timer's.
`DescriptorsOwned` is inductive together with `InLine`: the accepted clients and those in the
kernel's queue form one `Line`, in which each stands once and has no Session yet.
`accept(2)` moves the boundary between the two, by one client or by several, and leaves the
line as it is (`LineStands`), an arrival lengthens it, and only the handler of accept takes its
head.  That the accepts are as many after the reactor's step as before is `PollCounts`.

**Timers.**  None of the invariants of `MyTimer` is inductive alone, and the proof has one
`IInv` for all.  `Table` adds that a timer gets an id that is not in the table, so that
`retain()` never finds an entry there.  `Queued` says of the queue of completions that it holds
each queued wait once and no other, which needs `OrderLists`: the order in which a poll
gives out the timers that are due lists each once.  `OnTime` has the deadline of a timer
in its three situations, waiting, in its callback and idle, and `QueuedInTime` that no
completion without an error is queued early: only from both does it follow that the call made
out of the queue is in time.  `Cancelling` says what is left of a timer that was
cancelled: no `bLoop_`, no pending wait, and a completion without an error in the queue
only if it was there before.  `Going` is the opposite, what a timer that was not cancelled
has before it: a loop keeps `bLoop_`, and one that is idle has made its one call.  With an
empty queue and no wait nobody is left who still has to call, which is `RunOutlasts`.
`TypeOK`'s bound on `expiry` follows from `OnTime`, too.

`IInv` says nothing of `script`.  It is kept by every step that begins a handler of a timer
only when no callback of a timer runs (`NextKeeps`), and by every step that leaves the timers
alone (`RestKeeps`).  `MyTimer` meets the first with `ScriptTypes`, as `script` is "callback" just
when `current` is a timer; in a process the callback may be a Session's.

**The process.**  `PInv` is the invariant of the sockets, the one of the timers, and `Turns`: while
a timer is in its callback the script is, or was when it raised an error, and no Session is in
one.  `Turns` is what lets
`NextKeeps` apply, and what lets a timer's callback return to `run()` without a Session's
being cut off.  Sockets' steps then keep the timers' invariant by `RestKeeps` and their own as
proved alone, timers' steps the other way round, and the end of `run()` is a step of both.
`ReturnsWhenDone` joins `NothingLeft` of the sockets with `IdleIsDone` of the timers at that
step, and the two refinements join the step simulations of the parts: a step of one part
changes nothing of the other's abstract state.

**Refinements.**  Each is proved as initial states and steps: every step of the code is one
step of the abstract specification or none.

* `SessionLife` by `Session`: the ownership invariant is enough, for a Session that is called
  back is live, and one that is over has no read pending.
* `SessionLife` by `Socket`: `AcceptDone` must find a client that has no Session yet, which
  `InLine` says, and a read or a callback must be of a live Session, which
  `DescriptorsOwned` says.
* `Channel`: `DeliveredIsSent` of the next state says that what `BodyDone` appends is the next
  message written, and that there is one.
* `Alarm`: `Cancelling` and `Queued` decide between `Cancel` and `Silence` at the time of a
  cancel, for a completion that is queued then is the last, and `OnTime` gives the deadline
  that the abstract `due` has.

Only model-checked: liveness (`WrittenArrives`, `ReadChainEnds`, `ClientsServed`,
`DescriptorsReturn`, `TimerFires`, `RunEnds`, `TimersFire`, `ProcessEnds`, `ResultEnds`), which is
beyond TLAPS.  Every invariant, action property and refinement that a passing run checks is
also a theorem.  Nothing in these modules is recursive, and no proof needs induction over
data.

## 5. What is not modelled, and where the models stop

* `Socket::read`, `write`, `uuid` and `fds_` work on `connections_`, which no code ever
  fills: they return at once.  A name that does not resolve, or an address in use,
  throws and changes nothing.
* `Socket` knows of a message only that it has come; `Session` has one connection with its
  bytes.  A composition of the two would multiply both, and `SessionLife` is what each
  relies on of the other.
* The conversion of a row to a table in `db_fetch_row`, for which a row of NULLs looks
  like the end of the result; errors of the database that change nothing.
* An error in the script ends the process (`Raise`).  A script that catches it around
  `run()` with `pcall` has left `run()` through frames of Asio, with nothing re-armed; what
  that does depends on how Lua was built, and is left out.
* A script that calls `run()` inside a callback.
* Both ends of a connection run this library, so what a header holds that is one is what
  `encode` put there.
* Of a `socket_` that `decode` has written into, that reads go on, that they fail, and that
  the process dies; other effects of that undefined behaviour are left out, as are those of
  continuing a write on a destroyed Session (`freedUse`) beyond the fact.
* Buffer contents beyond which frame a cell belongs to, logging, `key_` and `roomId_`.
* Intervals of zero or less, for which a loop timer never lets `run()` rest.
* `cbs_` and `mapIdToTimer_` are static and may outlive the Lua state and the
  `io_context`; the end of a process is one step here.
* Running out of ids (2^32 of them), where `uuid()` would not return.  `timerSet_`, "the
  running timers", never gives an id back: the erase in `cancel` is commented out.
* `serialize`, `header.hpp`, the precompiled header, `dllmain.cpp`.
* The vendored sol, 26271 of the repository's 27069 lines of code: a third-party
  header that binds functions to Lua and keeps no state the library depends on.  A map
  that covers the library entirely would still cover 3% of these lines.

## 6. Plan

Done, in this order, the most important behaviour first: `Message` and `Codec` with
proofs; `Session` with `Channel`; `SessionProofs` and `FrameProofs`; `MyTimer`;
`DataBase` with proofs; `Socket` with `SessionLife`; `Alarm`; `Process`;
`TimerProofs`, `WholeProofs` and `SocketProofs`; the step simulations of `SessionLife`,
`Channel` and `Alarm`; `ProcessProofs`, from the invariants of `Socket` and `MyTimer`.

Left: a composition of `Session` with `Socket`, so that the promise of `Channel` is stated of
the Sessions that `accept` and `connect` open, and of more than one connection.
