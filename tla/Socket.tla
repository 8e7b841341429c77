-------------------------------- MODULE Socket --------------------------------
(***************************************************************************)
(* libsocket/socket.cpp: listen, the chain of accepts, connect, and the    *)
(* Sessions these open, in one process with its script and its io_context. *)
(* A Session is what its owners and its pending read say of it; what it    *)
(* reads and writes is the matter of module Session.                       *)
(***************************************************************************)
EXTENDS Naturals, Sequences, FiniteSets

CONSTANTS
    Client,         \* peers that connect to this process, once each
    Remote,         \* peers this process connects to, once each
    MaxAccepts,     \* bound: how often the script calls accept()
    MaxFds          \* descriptors the process has for connections

ASSUME SocketAssumption ==
    /\ Client \cap Remote = {}
    /\ MaxAccepts \in Nat
    /\ MaxFds \in Nat

VARIABLES
    script,         \* "main" chunk, "run" of the io_context, a "callback",
                    \* or "aborted" by a failed assert or an error
    stopped,        \* the io_context ran out of work
    cbs_,           \* the names of the registered callbacks
    \* acceptor_
    listening,
    accepts,        \* async_accepts that are pending
    accepted,       \* clients whose accept is complete, its handler waiting
    refused,        \* async_accepts that are complete, with an error
    backlog,        \* clients waiting in the kernel
    \* the Sessions
    st,             \* "new", "opening", "failed" to open, "live", "dead"
    held,           \* the script keeps a session_ptr
    cb,             \* the callback the script is running for this Session
    rd,             \* a read is pending
    gone,           \* the peer has closed the connection
    \* history, for the properties
    started,        \* accept() calls of the script
    failed          \* accept handlers that got an error

scriptVars == <<script, stopped>>
acceptVars == <<accepts, accepted, refused, backlog>>
socketVars == <<listening, acceptVars>>
sessionVars == <<st, held, cb, rd>>
countVars == <<started, failed>>
vars == <<scriptVars, cbs_, socketVars, sessionVars, gone, countVars>>

Peer == Client \cup Remote
Names == {"accept", "connect", "read"}

Init ==
    /\ script = "main"
    /\ stopped = FALSE
    /\ cbs_ = {}
    /\ listening = FALSE
    /\ accepts = 0
    /\ accepted = <<>>
    /\ refused = 0
    /\ backlog = <<>>
    /\ st = [s \in Peer |-> "new"]
    /\ held = [s \in Peer |-> FALSE]
    /\ cb = [s \in Peer |-> "none"]
    /\ rd = [s \in Peer |-> FALSE]
    /\ gone = [s \in Peer |-> FALSE]
    /\ started = 0
    /\ failed = 0
-----------------------------------------------------------------------------
(***************************************************************************)
(* Calls of the script.                                                    *)
(***************************************************************************)
InScript == script \in {"main", "callback"}

setCallBack(name) ==
    /\ InScript
    /\ cbs_' = cbs_ \cup {name}
    /\ UNCHANGED <<scriptVars, socketVars, sessionVars, gone, countVars>>

\* listen().  An address in use throws, as does a second call.
listen ==
    /\ InScript
    /\ ~listening
    /\ listening' = TRUE
    /\ UNCHANGED <<scriptVars, cbs_, acceptVars, sessionVars, gone, countVars>>

\* Descriptors in use: a socket has one from connect() or accept(2) on.
Fds == Cardinality({s \in Peer : st[s] = "live" \/ (s \in Remote /\ st[s] = "opening")})
           + Len(accepted)

\* Socket::accept().  On a socket that does not listen the async_accept fails
\* at once; behind others it waits; else it tries accept(2) on the spot.  That
\* takes a descriptor before it looks for a client, and fails without one.
accept ==
    \/ /\ ~listening \/ (accepts = 0 /\ Fds >= MaxFds)
       /\ refused' = refused + 1
       /\ UNCHANGED <<accepts, accepted, backlog>>
    \/ /\ listening
       /\ accepts > 0 \/ (backlog = <<>> /\ Fds < MaxFds)
       /\ accepts' = accepts + 1
       /\ UNCHANGED <<accepted, refused, backlog>>
    \/ /\ listening
       /\ accepts = 0 /\ backlog # <<>> /\ Fds < MaxFds
       /\ accepted' = Append(accepted, Head(backlog))
       /\ backlog' = Tail(backlog)
       /\ UNCHANGED <<accepts, refused>>

\* accept() of the script.
Accept ==
    /\ InScript
    /\ started < MaxAccepts
    /\ started' = started + 1
    /\ accept
    /\ UNCHANGED <<scriptVars, cbs_, listening, sessionVars, gone, failed>>

\* connect() opens its socket at once.  A name that does not resolve throws.
connect(s) ==
    /\ InScript
    /\ st[s] = "new"
    /\ st' = [st EXCEPT ![s] = IF Fds < MaxFds THEN "opening" ELSE "failed"]
    /\ UNCHANGED <<scriptVars, cbs_, socketVars, held, cb, rd, gone, countVars>>

\* An error in the script that it does not catch ends the process: in a
\* callback the handler that called it does not go on.
Raise ==
    /\ InScript
    /\ script' = "aborted"
    /\ UNCHANGED <<stopped, cbs_, socketVars, sessionVars, gone, countVars>>

\* run(), as long as the io_context has not stopped: nobody calls restart().
Run ==
    /\ script = "main"
    /\ ~stopped
    /\ script' = "run"
    /\ UNCHANGED <<stopped, cbs_, socketVars, sessionVars, gone, countVars>>
-----------------------------------------------------------------------------
(***************************************************************************)
(* Handlers of the io_context.                                             *)
(***************************************************************************)
\* Mutant: an accept is done for every client, whether one is pending or not.
AcceptOfEach(n) == n = Len(backlog)

\* So many pending accepts get a client: all, or one for each client, or as
\* many as there are descriptors left.
Served(n) ==
    /\ n <= accepts
    /\ n = 0 \/ Fds + n <= MaxFds
    /\ n \in {accepts, Len(backlog)} \/ Fds + n >= MaxFds

\* A client waits and the acceptor is readable: the pending accepts are tried
\* one after the other, until none is pending or none waits.  Once the
\* descriptors are used up the others fail, even with no client left.
PollAcceptor ==
    /\ script = "run"
    /\ accepts > 0
    /\ backlog # <<>>
    /\ \E n \in 0..Len(backlog) :
          /\ Served(n)
          /\ accepted' = accepted \o SubSeq(backlog, 1, n)
          /\ backlog' = SubSeq(backlog, n + 1, Len(backlog))
          /\ \/ /\ Fds + n < MaxFds
                /\ accepts' = accepts - n
                /\ UNCHANGED refused
             \/ /\ Fds + n >= MaxFds
                /\ accepts' = 0
                /\ refused' = refused + (accepts - n)
    /\ UNCHANGED <<scriptVars, cbs_, listening, sessionVars, gone, countVars>>

\* The handler of accept or connect without an error, up to the callback:
\* start() posts the first read.
Introduce(s, name) ==
    /\ script' = "callback"
    /\ st' = [st EXCEPT ![s] = "live"]
    /\ rd' = [rd EXCEPT ![s] = TRUE]
    /\ cb' = [cb EXCEPT ![s] = name]
    /\ held' = [held EXCEPT ![s] = TRUE]

AcceptDone ==
    /\ script = "run"
    /\ accepted # <<>>
    /\ "accept" \in cbs_
    /\ Introduce(Head(accepted), "accept")
    /\ accepted' = Tail(accepted)
    /\ UNCHANGED <<stopped, cbs_, listening, accepts, refused, backlog, gone, countVars>>

\* The handler of accept with an error only logs: the chain ends.
AcceptError ==
    /\ script = "run"
    /\ refused > 0
    /\ refused' = refused - 1
    /\ failed' = failed + 1
    /\ UNCHANGED <<scriptVars, cbs_, listening, accepts, accepted, backlog, sessionVars,
                   gone, started>>

ConnectDone(s) ==
    /\ script = "run"
    /\ st[s] = "opening"
    /\ "connect" \in cbs_
    /\ Introduce(s, "connect")
    /\ UNCHANGED <<stopped, cbs_, socketVars, gone, countVars>>

\* The handler of connect with an error only logs.
ConnectError(s) ==
    /\ script = "run"
    /\ st[s] \in {"opening", "failed"}
    /\ st' = [st EXCEPT ![s] = "dead"]
    /\ UNCHANGED <<scriptVars, cbs_, socketVars, held, cb, rd, gone, countVars>>

\* A whole message has been read, which a peer may have sent before it left:
\* readBody's handler, up to the callback.
Message(s) ==
    /\ script = "run"
    /\ rd[s]
    /\ "read" \in cbs_
    /\ script' = "callback"
    /\ rd' = [rd EXCEPT ![s] = FALSE]
    /\ cb' = [cb EXCEPT ![s] = "read"]
    /\ held' = [held EXCEPT ![s] = TRUE]
    /\ UNCHANGED <<stopped, cbs_, socketVars, st, gone, countVars>>

\* Handlers that are about to call this callback.
DueCall(name) ==
    \/ name = "accept" /\ accepted # <<>>
    \/ name = "connect" /\ \E s \in Remote : st[s] = "opening"
    \/ name = "read" /\ \E s \in Peer : rd[s]

\* callBack()'s assert: a callback that is due has not been registered.
Abort(name) ==
    /\ script = "run"
    /\ name \notin cbs_
    /\ DueCall(name)
    /\ script' = "aborted"
    /\ UNCHANGED <<stopped, cbs_, socketVars, sessionVars, gone, countVars>>

\* Mutant: the handler of accept ends with the callback.
AcceptsNoMore(s) == UNCHANGED acceptVars

\* Mutant: the handler of connect calls accept(), too.
AcceptsAlways(s) == accept

\* accept's handler goes on with the next accept().
AcceptsAgain(s) == IF cb[s] = "accept" THEN accept ELSE UNCHANGED acceptVars

\* The script's callback returns to its handler, which goes on: accept's
\* with the next accept(), readBody's with readHeader().
CallbackReturn(s) ==
    /\ script = "callback"
    /\ cb[s] # "none"
    /\ script' = "run"
    /\ cb' = [cb EXCEPT ![s] = "none"]
    /\ rd' = [rd EXCEPT ![s] = TRUE]
    /\ AcceptsAgain(s)
    /\ UNCHANGED <<stopped, cbs_, listening, st, held, gone, countVars>>

\* Mutant: only the script owns the Session.
HandlerOwnsNothing(s) == FALSE

\* The read handler owns the Session.
HandlerOwns(s) == rd[s]

\* Mutant: the read handler reads on after an error.
ReadErrorReadsOn(s) ==
    /\ script = "run"
    /\ rd[s]
    /\ gone[s]
    /\ UNCHANGED vars

\* The read handlers with an error only log: the chain of reads ends.
ReadError(s) ==
    /\ script = "run"
    /\ rd[s]
    /\ gone[s]
    /\ rd' = [rd EXCEPT ![s] = FALSE]
    /\ st' = [st EXCEPT ![s] = IF held[s] THEN @ ELSE "dead"]
    /\ UNCHANGED <<scriptVars, cbs_, socketVars, held, cb, gone, countVars>>

\* Lua's collector finalizes the script's session_ptr, while Lua runs.
Drop(s) ==
    /\ InScript
    /\ held[s]
    /\ cb[s] = "none"
    /\ held' = [held EXCEPT ![s] = FALSE]
    /\ st' = [st EXCEPT ![s] = IF HandlerOwns(s) THEN @ ELSE "dead"]
    /\ UNCHANGED <<scriptVars, cbs_, socketVars, cb, rd, gone, countVars>>

\* What keeps run() from returning.
Work ==
    \/ accepts > 0 \/ accepted # <<>> \/ refused > 0
    \/ \E s \in Remote : st[s] \in {"opening", "failed"}
    \/ \E s \in Peer : rd[s]

RunReturns ==
    /\ script = "run"
    /\ ~Work
    /\ script' = "main"
    /\ stopped' = TRUE
    /\ UNCHANGED <<cbs_, socketVars, sessionVars, gone, countVars>>
-----------------------------------------------------------------------------
(***************************************************************************)
(* The peers.                                                              *)
(***************************************************************************)
Arrive(c) ==
    /\ listening
    /\ st[c] = "new"
    /\ st' = [st EXCEPT ![c] = "opening"]
    /\ backlog' = Append(backlog, c)
    /\ UNCHANGED <<scriptVars, cbs_, listening, accepts, accepted, refused, held, cb, rd,
                   gone, countVars>>

\* A peer leaves, perhaps before it was accepted.
Leave(s) ==
    /\ ~gone[s]
    /\ st[s] = "live" \/ (s \in Client /\ st[s] = "opening")
    /\ gone' = [gone EXCEPT ![s] = TRUE]
    /\ UNCHANGED <<scriptVars, cbs_, socketVars, sessionVars, countVars>>

ScriptNext ==
    \/ \E name \in Names : setCallBack(name)
    \/ listen
    \/ Accept
    \/ \E s \in Remote : connect(s)
    \/ \E s \in Peer : Drop(s)
    \/ Raise

HandlerNext ==
    \/ PollAcceptor
    \/ AcceptDone
    \/ AcceptError
    \/ \E s \in Remote : ConnectDone(s) \/ ConnectError(s)
    \/ \E s \in Peer : Message(s) \/ CallbackReturn(s) \/ ReadError(s)
    \/ \E name \in Names : Abort(name)

PeerNext ==
    \/ \E c \in Client : Arrive(c)
    \/ \E s \in Peer : Leave(s)

Next == ScriptNext \/ HandlerNext \/ PeerNext \/ Run \/ RunReturns

Spec == Init /\ [][Next]_vars

(***************************************************************************)
(* The script calls run() and returns from its callbacks.  run() takes     *)
(* ready handlers in the order in which they became ready, so none waits   *)
(* for ever behind the callbacks of the others.                            *)
(***************************************************************************)
Fairness ==
    /\ WF_vars(Run)
    /\ SF_vars(PollAcceptor)
    /\ SF_vars(AcceptDone \/ Abort("accept"))
    /\ SF_vars(AcceptError)
    /\ \A s \in Remote : SF_vars(ConnectDone(s) \/ ConnectError(s) \/ Abort("connect"))
    /\ \A s \in Peer : WF_vars(CallbackReturn(s)) /\ SF_vars(ReadError(s))

FairSpec == Spec /\ Fairness
-----------------------------------------------------------------------------
\* The type invariant: the script, the acceptor and the Sessions.
TypeOK ==
    /\ script \in {"main", "run", "callback", "aborted"}
    /\ stopped \in BOOLEAN
    /\ cbs_ \subseteq Names
    /\ listening \in BOOLEAN
    /\ accepts \in Nat /\ refused \in Nat
    /\ accepted \in Seq(Client) /\ backlog \in Seq(Client)
    /\ st \in [Peer -> {"new", "opening", "failed", "live", "dead"}]
    /\ held \in [Peer -> BOOLEAN]
    /\ cb \in [Peer -> Names \cup {"none"}]
    /\ rd \in [Peer -> BOOLEAN]
    /\ gone \in [Peer -> BOOLEAN]
    /\ started \in Nat /\ failed \in Nat

(***************************************************************************)
(* The accept chains: for every accept() of the script one accept is       *)
(* pending, or its callback is running, or it has failed for good.  None   *)
(* is lost and none doubled, whatever the callbacks do.                    *)
(***************************************************************************)
OneAcceptPerCall ==
    LET running == Cardinality({s \in Peer : cb[s] = "accept"})
    IN  accepts + Len(accepted) + refused + running + failed = started

(***************************************************************************)
(* As long as one accept chain is alive run() does not return.             *)
(***************************************************************************)
RunServes == [][stopped' /\ ~stopped => failed = started]_vars

(***************************************************************************)
(* A client in the queue is accepted in the end, except if the accept      *)
(* chains have all failed, or the script accepts only after run()          *)
(* returned, when a further run() does nothing.                            *)
(***************************************************************************)
ClientsServed ==
    \A c \in Client :
        st[c] = "opening" /\ started > 0 ~>
            st[c] # "opening" \/ failed = started \/ stopped \/ script = "aborted"

(***************************************************************************)
(* A Session lives, with its descriptor, as long as the script, a callback *)
(* or a pending read refers to it, and no longer: none is lost with its    *)
(* descriptor, and none is destroyed that somebody still reaches.          *)
(***************************************************************************)
DescriptorsOwned ==
    \A s \in Peer : st[s] = "live" <=> held[s] \/ cb[s] # "none" \/ rd[s]

(***************************************************************************)
(* When its peer has left, a Session goes away and gives its descriptor    *)
(* back, except while the script keeps its session_ptr.                    *)
(***************************************************************************)
DescriptorsReturn ==
    \A s \in Peer :
        st[s] = "live" /\ gone[s] ~> st[s] = "dead" \/ held[s] \/ script = "aborted"

\* A Session as SessionLife has it.
Phase(s) ==
    IF st[s] \in {"new", "opening", "failed"} THEN "new"
    ELSE IF cb[s] # "none" THEN "callback"
    ELSE IF st[s] = "dead" \/ ~rd[s] THEN "over" ELSE "quiet"

Life == INSTANCE SessionLife WITH
            Sessions <- Peer, phase <- [s \in Peer |-> Phase(s)]

(***************************************************************************)
(* The refinement: accept and connect introduce every Session before its   *)
(* first message, and nothing calls back for one that is over.             *)
(***************************************************************************)
IntroducesSessions == Life!Spec
=============================================================================
