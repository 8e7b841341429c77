----------------------------- MODULE SocketProofs -----------------------------
(***************************************************************************)
(* Proofs about Socket, for any number of peers, descriptors and calls of  *)
(* accept().                                                               *)
(***************************************************************************)
EXTENDS Socket, SequenceTheorems, FiniteSetTheorems, TLAPS

\* The io_context runs one callback at a time, and it need not be a Session's.
OneCallback ==
    /\ script \in {"main", "run"} => \A s \in Peer : cb[s] = "none"
    /\ \A s, u \in Peer : cb[s] # "none" /\ cb[u] # "none" => s = u

\* The accept chains that are not in their callback.
Chains == accepts + Len(accepted) + refused + failed

\* Whether one is in its callback is the same as whether that callback runs.
Accounted ==
    /\ (\A s \in Peer : cb[s] # "accept") => Chains = started
    /\ (\E s \in Peer : cb[s] = "accept") => Chains + 1 = started

SInv == TypeOK /\ OneCallback /\ Accounted

\* Before the script runs nothing is pending.
LEMMA InitSInv == Init => SInv
<1> SUFFICES ASSUME Init PROVE SInv
  OBVIOUS
<1>1. <<>> \in Seq(Client) /\ Len(accepted) = 0
  BY EmptySeq DEF Init
<1>2. TypeOK
  BY <1>1 DEF Init, TypeOK, Names
<1>3. OneCallback
  BY DEF Init, OneCallback
<1>4. Accounted
  BY <1>1 DEF Init, Accounted, Chains
<1>. QED  BY <1>2, <1>3, <1>4 DEF SInv
-----------------------------------------------------------------------------
\* accept() adds one accept, pending or complete.
LEMMA AcceptEffect ==
    ASSUME TypeOK, accept
    PROVE  /\ accepts' \in Nat /\ refused' \in Nat
           /\ accepted' \in Seq(Client) /\ backlog' \in Seq(Client)
           /\ accepts' + Len(accepted') + refused' = accepts + Len(accepted) + refused + 1
<1>1. /\ accepted \in Seq(Client) /\ Len(accepted) \in Nat
      /\ backlog \in Seq(Client) /\ refused \in Nat /\ accepts \in Nat
  BY LenProperties DEF TypeOK
<1>2. CASE refused' = refused + 1 /\ UNCHANGED <<accepts, accepted, backlog>>
  BY <1>1, <1>2
<1>3. CASE accepts' = accepts + 1 /\ UNCHANGED <<accepted, refused, backlog>>
  BY <1>1, <1>3
<1>4. CASE /\ backlog # <<>>
           /\ accepted' = Append(accepted, Head(backlog)) /\ backlog' = Tail(backlog)
           /\ UNCHANGED <<accepts, refused>>
  <2>1. Head(backlog) \in Client /\ Tail(backlog) \in Seq(Client)
    BY <1>1, <1>4, HeadTailProperties
  <2>2. accepted' \in Seq(Client) /\ Len(accepted') = Len(accepted) + 1
    BY <1>1, <1>4, <2>1, AppendProperties
  <2>3. PICK n \in Nat : n = Len(accepted)
    BY <1>1
  <2>4. accepts + (n + 1) + refused = accepts + n + refused + 1
    BY <1>1, <2>3
  <2>. QED  BY <1>1, <1>4, <2>1, <2>2, <2>3, <2>4
<1>. QED  BY <1>2, <1>3, <1>4 DEF accept

\* A step of the acceptor: the first of the backlog are accepted, and the
\* accepts that are pending no more have a client or an error.
LEMMA PollEffect ==
    ASSUME TypeOK, PollAcceptor
    PROVE  \E n \in 0..Len(backlog) :
              /\ n <= accepts
              /\ accepted' = accepted \o SubSeq(backlog, 1, n)
              /\ backlog' = SubSeq(backlog, n + 1, Len(backlog))
              /\ \/ accepts' = accepts - n /\ refused' = refused
                 \/ accepts' = 0 /\ refused' = refused + (accepts - n)
BY DEF PollAcceptor, Served

\* What a queue and the rest of it are.
LEMMA FirstAndRest ==
    ASSUME NEW S, NEW q \in Seq(S), NEW n \in 0..Len(q)
    PROVE  /\ SubSeq(q, 1, n) \in Seq(S) /\ Len(SubSeq(q, 1, n)) = n
           /\ SubSeq(q, n + 1, Len(q)) \in Seq(S)
           /\ SubSeq(q, 1, n) \o SubSeq(q, n + 1, Len(q)) = q
<1>1. Len(q) \in Nat /\ \A i \in 1..Len(q) : q[i] \in S
  BY LenProperties, ElementOfSeq
<1>2. PICK l \in Nat : l = Len(q)
  BY <1>1
<1>3. /\ n \in Nat /\ n <= l /\ n \in Int /\ n + 1 \in Int /\ l \in Int /\ 1 \in Int
      /\ \A i \in 1..n : i \in 1..l
      /\ \A i \in (n + 1)..l : i \in 1..l
  BY <1>2
<1>4. /\ SubSeq(q, 1, n) \in Seq(S)
      /\ Len(SubSeq(q, 1, n)) = IF 1 <= n THEN n - 1 + 1 ELSE 0
  BY <1>1, <1>2, <1>3, SubSeqProperties
<1>5. SubSeq(q, n + 1, Len(q)) \in Seq(S)
  BY <1>1, <1>2, <1>3, SubSeqProperties
<1>6. SubSeq(q, 1, n) \o SubSeq(q, n + 1, Len(q)) = q
  <2>1. 1 \in 1..(Len(q) + 1) /\ n \in (1 - 1)..Len(q) /\ Len(q) \in n..Len(q)
    BY <1>2, <1>3
  <2>2. SubSeq(q, 1, n) \o SubSeq(q, n + 1, Len(q)) = SubSeq(q, 1, Len(q))
    BY <2>1, ConcatAdjacentSubSeq
  <2>3. SubSeq(q, 1, Len(q)) = q
    BY SubSeqFull
  <2>. QED  BY <2>2, <2>3
<1>7. Len(SubSeq(q, 1, n)) = n
  <2>1. PICK k : k = Len(SubSeq(q, 1, n))
    OBVIOUS
  <2>2. k = IF 1 <= n THEN n - 1 + 1 ELSE 0
    BY <1>4, <2>1, Zenon
  <2>3. k = n
    BY <1>3, <2>2
  <2>. QED  BY <2>1, <2>3, Zenon
<1>. QED  BY <1>4, <1>5, <1>6, <1>7, Zenon

\* No accept is lost or doubled in it.
LEMMA PollCounts ==
    ASSUME TypeOK, PollAcceptor
    PROVE  /\ accepts' \in Nat /\ refused' \in Nat
           /\ accepted' \in Seq(Client) /\ backlog' \in Seq(Client)
           /\ Len(accepted') \in Nat
           /\ accepts' + Len(accepted') + refused' = accepts + Len(accepted) + refused
<1>1. /\ accepted \in Seq(Client) /\ backlog \in Seq(Client)
      /\ refused \in Nat /\ accepts \in Nat
  BY DEF TypeOK
<1>2. Len(accepted) \in Nat /\ Len(backlog) \in Nat
  BY <1>1, LenProperties
<1>3. PICK n \in 0..Len(backlog) :
         /\ n <= accepts
         /\ accepted' = accepted \o SubSeq(backlog, 1, n)
         /\ backlog' = SubSeq(backlog, n + 1, Len(backlog))
         /\ \/ accepts' = accepts - n /\ refused' = refused
            \/ accepts' = 0 /\ refused' = refused + (accepts - n)
  BY PollEffect
<1>4. /\ SubSeq(backlog, 1, n) \in Seq(Client) /\ Len(SubSeq(backlog, 1, n)) = n
      /\ SubSeq(backlog, n + 1, Len(backlog)) \in Seq(Client)
  BY <1>1, FirstAndRest
<1>5. accepted' \in Seq(Client) /\ Len(accepted') = Len(accepted) + n
  BY <1>1, <1>3, <1>4, ConcatProperties
<1>6. PICK k \in Nat : k = Len(accepted)
  BY <1>2
<1>7. n \in Nat
  BY <1>2
<1>8. accepts' \in Nat /\ refused' \in Nat /\ accepts' + (k + n) + refused' = accepts + k + refused
  BY <1>1, <1>3, <1>6, <1>7
<1>. QED  BY <1>3, <1>4, <1>5, <1>6, <1>7, <1>8

\* The numbers that Chains adds up.
LEMMA Numbers ==
    ASSUME TypeOK
    PROVE  /\ accepts \in Nat /\ refused \in Nat /\ failed \in Nat /\ started \in Nat
           /\ accepted \in Seq(Client) /\ Len(accepted) \in Nat
BY LenProperties DEF TypeOK

(***************************************************************************)
(* Steps that leave the accepts and the callbacks alone.                   *)
(***************************************************************************)
LEMMA OtherKeeps ==
    ASSUME SInv, TypeOK', UNCHANGED <<accepts, accepted, refused, cb, countVars>>,
           script' \in {"main", "run"} => script \in {"main", "run"}
    PROVE  SInv'
BY DEF SInv, OneCallback, Accounted, Chains, countVars

\* Steps of the script, and what the peers do.
LEMMA ScriptKeeps == ASSUME SInv, ScriptNext \/ PeerNext \/ Run \/ RunReturns PROVE SInv'
<1>0. TypeOK /\ Peer = Client \cup Remote
  BY DEF SInv, Peer
<1>1. ASSUME NEW name \in Names, setCallBack(name) PROVE SInv'
  <2>1. TypeOK'
    BY <1>0, <1>1 DEF setCallBack, TypeOK, scriptVars, socketVars, acceptVars,
                      sessionVars, countVars
  <2>. QED  BY <1>1, <2>1, OtherKeeps
            DEF setCallBack, scriptVars, socketVars, acceptVars, sessionVars
<1>2. CASE listen
  <2>1. TypeOK'
    BY <1>0, <1>2 DEF listen, TypeOK, scriptVars, acceptVars, sessionVars, countVars
  <2>. QED  BY <1>2, <2>1, OtherKeeps DEF listen, scriptVars, acceptVars, sessionVars
<1>3. CASE Accept
  <2>1. /\ accepts' \in Nat /\ refused' \in Nat
        /\ accepted' \in Seq(Client) /\ backlog' \in Seq(Client)
        /\ accepts' + Len(accepted') + refused' = accepts + Len(accepted) + refused + 1
    BY <1>0, <1>3, AcceptEffect DEF Accept
  <2>2. /\ started' = started + 1
        /\ UNCHANGED <<script, stopped, cbs_, listening, st, held, cb, rd, gone, failed>>
    BY <1>3 DEF Accept, scriptVars, sessionVars
  <2>3. TypeOK'
    BY <1>0, <2>1, <2>2 DEF TypeOK
  <2>4. Chains' = Chains + 1
    <3>1. Len(accepted') \in Nat
      BY <2>1, LenProperties
    <3>2. PICK n \in Nat, m \in Nat : n = Len(accepted) /\ m = Len(accepted')
      BY <1>0, <3>1, Numbers
    <3>3. accepts' + m + refused' = accepts + n + refused + 1
      BY <2>1, <3>2
    <3>4. /\ accepts' \in Nat /\ refused' \in Nat
          /\ accepts \in Nat /\ refused \in Nat /\ failed \in Nat
      BY <1>0, <2>1, Numbers
    <3>5. accepts' + m + refused' + failed = accepts + n + refused + failed + 1
      BY <3>2, <3>3, <3>4
    <3>. QED  BY <2>2, <3>2, <3>4, <3>5 DEF Chains
  <2>5. Chains \in Nat
    BY <1>0, Numbers DEF Chains
  <2>6. Accounted'
    BY <1>0, <2>2, <2>4, <2>5, Numbers DEF SInv, Accounted
  <2>7. OneCallback'
    BY <2>2 DEF SInv, OneCallback
  <2>. QED  BY <2>3, <2>6, <2>7 DEF SInv
<1>4. ASSUME NEW s \in Remote, connect(s) PROVE SInv'
  <2>1. TypeOK'
    BY <1>0, <1>4 DEF connect, TypeOK, scriptVars, socketVars, acceptVars, countVars
  <2>. QED  BY <1>4, <2>1, OtherKeeps DEF connect, scriptVars, socketVars, acceptVars
<1>5. ASSUME NEW s \in Peer, Drop(s) PROVE SInv'
  <2>1. TypeOK'
    BY <1>0, <1>5 DEF Drop, TypeOK, scriptVars, socketVars, acceptVars, countVars
  <2>. QED  BY <1>5, <2>1, OtherKeeps DEF Drop, scriptVars, socketVars, acceptVars
<1>6. ASSUME NEW c \in Client, Arrive(c) PROVE SInv'
  <2>1. Append(backlog, c) \in Seq(Client)
    BY <1>0, AppendProperties DEF TypeOK
  <2>2. TypeOK'
    BY <1>0, <1>6, <2>1 DEF Arrive, TypeOK, scriptVars, countVars
  <2>. QED  BY <1>6, <2>2, OtherKeeps DEF Arrive, scriptVars
<1>7. ASSUME NEW s \in Peer, Leave(s) PROVE SInv'
  <2>1. TypeOK'
    BY <1>0, <1>7 DEF Leave, TypeOK, scriptVars, socketVars, acceptVars, sessionVars,
                      countVars
  <2>. QED  BY <1>7, <2>1, OtherKeeps
            DEF Leave, scriptVars, socketVars, acceptVars, sessionVars
<1>8. CASE Run \/ RunReturns
  <2>1. TypeOK'
    BY <1>0, <1>8 DEF Run, RunReturns, TypeOK, socketVars, acceptVars, sessionVars,
                      countVars
  <2>. QED  BY <1>8, <2>1, OtherKeeps DEF Run, RunReturns, socketVars, acceptVars,
                                          sessionVars
<1>9. CASE Raise
  <2>1. TypeOK'
    BY <1>0, <1>9 DEF Raise, TypeOK, socketVars, acceptVars, sessionVars, countVars
  <2>. QED  BY <1>9, <2>1, OtherKeeps DEF Raise, socketVars, acceptVars, sessionVars
<1>. QED  BY <1>1, <1>2, <1>3, <1>4, <1>5, <1>6, <1>7, <1>8, <1>9 DEF ScriptNext, PeerNext

\* A callback begins: it is the only one, and is of an accept or not.
LEMMA CallbackBegins ==
    ASSUME SInv, TypeOK', NEW s \in Peer, NEW name \in Names,
           script = "run", script' = "callback",
           cb' = [cb EXCEPT ![s] = name],
           UNCHANGED <<started, failed>>,
           IF name = "accept" THEN Chains' + 1 = Chains ELSE Chains' = Chains
    PROVE  SInv'
<1>1. cb \in [Peer -> Names \cup {"none"}] /\ \A u \in Peer : cb[u] = "none"
  BY DEF SInv, TypeOK, OneCallback
<1>2. cb'[s] = name /\ \A u \in Peer \ {s} : cb'[u] = "none"
  BY <1>1
<1>3. name # "none"
  BY DEF Names
<1>4. OneCallback'
  BY <1>2, <1>3 DEF OneCallback
<1>5. Chains = started
  BY <1>1 DEF SInv, Accounted
<1>6. (\E u \in Peer : cb'[u] = "accept") <=> name = "accept"
  BY <1>2
<1>7. Accounted'
  BY <1>5, <1>6 DEF Accounted
<1>. QED  BY <1>4, <1>7 DEF SInv

\* Steps of the handlers.
LEMMA HandlerKeeps == ASSUME SInv, HandlerNext PROVE SInv'
<1>0. TypeOK /\ Peer = Client \cup Remote
  BY DEF SInv, Peer
<1>1. CASE PollAcceptor
  <2>1. /\ accepts' \in Nat /\ refused' \in Nat
        /\ accepted' \in Seq(Client) /\ backlog' \in Seq(Client)
        /\ Len(accepted') \in Nat
        /\ accepts' + Len(accepted') + refused' = accepts + Len(accepted) + refused
    BY <1>0, <1>1, PollCounts
  <2>2. UNCHANGED <<script, stopped, cbs_, listening, st, held, cb, rd, gone,
                    started, failed>>
    BY <1>1 DEF PollAcceptor, scriptVars, sessionVars, countVars
  <2>3. TypeOK'
    BY <1>0, <2>1, <2>2 DEF TypeOK
  <2>4. Chains' = Chains
    <3>1. PICK n \in Nat, m \in Nat : n = Len(accepted) /\ m = Len(accepted')
      BY <1>0, <2>1, Numbers
    <3>2. PICK a \in Nat, b \in Nat : a = accepts /\ b = accepts'
      BY <1>0, <2>1, Numbers
    <3>3. PICK r \in Nat, q \in Nat, f \in Nat : r = refused /\ q = refused' /\ f = failed
      BY <1>0, <2>1, Numbers
    <3>4. b + m + q = a + n + r
      BY <2>1, <3>1, <3>2, <3>3
    <3>5. b + m + q + f = a + n + r + f
      BY <3>4
    <3>6. Chains = a + n + r + f
      BY <3>1, <3>2, <3>3 DEF Chains
    <3>7. Chains' = b + m + q + f
      BY <2>2, <3>1, <3>2, <3>3 DEF Chains
    <3>. QED  BY <3>5, <3>6, <3>7
  <2>. QED  BY <2>2, <2>3, <2>4 DEF SInv, OneCallback, Accounted
<1>2. CASE AcceptDone
  <2> DEFINE s == Head(accepted)
  <2>1. /\ s \in Client /\ Tail(accepted) \in Seq(Client)
        /\ Len(Tail(accepted)) = Len(accepted) - 1
    BY <1>0, <1>2, Numbers, HeadTailProperties DEF AcceptDone
  <2>2. /\ script = "run" /\ script' = "callback"
        /\ st' = [st EXCEPT ![s] = "live"] /\ rd' = [rd EXCEPT ![s] = TRUE]
        /\ cb' = [cb EXCEPT ![s] = "accept"] /\ held' = [held EXCEPT ![s] = TRUE]
        /\ accepted' = Tail(accepted)
        /\ UNCHANGED <<stopped, cbs_, listening, accepts, refused, backlog, gone,
                       started, failed>>
    BY <1>2 DEF AcceptDone, Introduce, countVars
  <2>3. TypeOK'
    <3>1. s \in Peer /\ Names = {"accept", "connect", "read"}
      BY <1>0, <2>1 DEF Names
    <3>2. /\ st' \in [Peer -> {"new", "opening", "failed", "live", "dead"}]
          /\ rd' \in [Peer -> BOOLEAN] /\ held' \in [Peer -> BOOLEAN]
          /\ cb' \in [Peer -> Names \cup {"none"}]
      BY <1>0, <2>2, <3>1 DEF TypeOK
    <3>3. accepted' \in Seq(Client)
      BY <2>1, <2>2
    <3>. QED  BY <1>0, <2>2, <3>2, <3>3 DEF TypeOK
  <2>4. Chains' + 1 = Chains
    BY <1>0, <2>1, <2>2, Numbers DEF Chains
  <2>5. s \in Peer /\ "accept" \in Names
    BY <1>0, <2>1 DEF Names
  <2>. QED  BY <2>2, <2>3, <2>4, <2>5, CallbackBegins
<1>3. CASE AcceptError
  <2>1. /\ refused' = refused - 1 /\ refused > 0 /\ failed' = failed + 1
        /\ UNCHANGED <<script, stopped, cbs_, listening, accepts, accepted, backlog,
                       st, held, cb, rd, gone, started>>
    BY <1>3 DEF AcceptError, scriptVars, sessionVars
  <2>2. refused' \in Nat /\ failed' \in Nat
    BY <1>0, <2>1, Numbers
  <2>3. TypeOK'
    BY <1>0, <2>1, <2>2 DEF TypeOK
  <2>4. Chains' = Chains
    BY <1>0, <2>1, Numbers DEF Chains
  <2>. QED  BY <2>1, <2>3, <2>4 DEF SInv, OneCallback, Accounted
<1>4. ASSUME NEW s \in Remote, ConnectDone(s) PROVE SInv'
  <2>1. /\ script = "run" /\ script' = "callback"
        /\ st' = [st EXCEPT ![s] = "live"] /\ rd' = [rd EXCEPT ![s] = TRUE]
        /\ cb' = [cb EXCEPT ![s] = "connect"] /\ held' = [held EXCEPT ![s] = TRUE]
        /\ UNCHANGED <<stopped, cbs_, listening, accepts, accepted, refused, backlog,
                       gone, started, failed>>
    BY <1>4 DEF ConnectDone, Introduce, socketVars, acceptVars, countVars
  <2>2. TypeOK'
    BY <1>0, <2>1 DEF TypeOK, Names
  <2>3. s \in Peer /\ "connect" \in Names /\ Chains' = Chains
    BY <1>0, <2>1 DEF Names, Chains
  <2>. QED  BY <2>1, <2>2, <2>3, CallbackBegins
<1>5. ASSUME NEW s \in Remote, ConnectError(s) PROVE SInv'
  <2>1. TypeOK'
    BY <1>0, <1>5 DEF ConnectError, TypeOK, scriptVars, socketVars, acceptVars, countVars
  <2>. QED  BY <1>5, <2>1, OtherKeeps DEF ConnectError, scriptVars, socketVars, acceptVars
<1>6. ASSUME NEW s \in Peer, Message(s) PROVE SInv'
  <2>1. /\ script = "run" /\ script' = "callback"
        /\ rd' = [rd EXCEPT ![s] = FALSE]
        /\ cb' = [cb EXCEPT ![s] = "read"] /\ held' = [held EXCEPT ![s] = TRUE]
        /\ UNCHANGED <<stopped, cbs_, listening, accepts, accepted, refused, backlog,
                       st, gone, started, failed>>
    BY <1>6 DEF Message, socketVars, acceptVars, countVars
  <2>2. TypeOK'
    BY <1>0, <2>1 DEF TypeOK, Names
  <2>3. "read" \in Names /\ Chains' = Chains
    BY <2>1 DEF Names, Chains
  <2>. QED  BY <2>1, <2>2, <2>3, CallbackBegins
<1>7. ASSUME NEW s \in Peer, CallbackReturn(s) PROVE SInv'
  <2>1. /\ cb[s] # "none" /\ script' = "run"
        /\ cb' = [cb EXCEPT ![s] = "none"] /\ rd' = [rd EXCEPT ![s] = TRUE]
        /\ AcceptsAgain(s)
        /\ UNCHANGED <<stopped, cbs_, listening, st, held, gone, started, failed>>
    BY <1>7 DEF CallbackReturn, countVars
  <2>2. \A u \in Peer \ {s} : cb[u] = "none"
    BY <2>1 DEF SInv, OneCallback
  <2>3. cb' \in [Peer -> Names \cup {"none"}] /\ \A u \in Peer : cb'[u] = "none"
    BY <1>0, <2>1, <2>2 DEF TypeOK
  <2>4. CASE cb[s] = "accept"
    <3>1. /\ accepts' \in Nat /\ refused' \in Nat
          /\ accepted' \in Seq(Client) /\ backlog' \in Seq(Client)
          /\ accepts' + Len(accepted') + refused' = accepts + Len(accepted) + refused + 1
      BY <1>0, <2>1, <2>4, AcceptEffect DEF AcceptsAgain
    <3>2. Len(accepted') \in Nat
      BY <3>1, LenProperties
    <3>3. Chains' = Chains + 1
      <4>1. PICK n \in Nat, m \in Nat : n = Len(accepted) /\ m = Len(accepted')
        BY <1>0, <3>2, Numbers
      <4>2. PICK a \in Nat, b \in Nat : a = accepts /\ b = accepts'
        BY <1>0, <3>1, Numbers
      <4>3. PICK r \in Nat, q \in Nat, f \in Nat : r = refused /\ q = refused' /\ f = failed
        BY <1>0, <3>1, Numbers
      <4>4. b + m + q = a + n + r + 1
        BY <3>1, <4>1, <4>2, <4>3
      <4>5. b + m + q + f = a + n + r + f + 1
        BY <4>4
      <4>6. Chains = a + n + r + f
        BY <4>1, <4>2, <4>3 DEF Chains
      <4>7. Chains' = b + m + q + f
        BY <2>1, <4>1, <4>2, <4>3 DEF Chains
      <4>. QED  BY <4>5, <4>6, <4>7
    <3>4. TypeOK'
      BY <1>0, <2>1, <2>3, <3>1 DEF TypeOK
    <3>. QED  BY <2>1, <2>3, <2>4, <3>3, <3>4 DEF SInv, OneCallback, Accounted
  <2>5. CASE cb[s] # "accept"
    <3>1. UNCHANGED <<accepts, accepted, refused, backlog>>
      BY <2>1, <2>5 DEF AcceptsAgain, acceptVars
    <3>2. TypeOK'
      BY <1>0, <2>1, <2>3, <3>1 DEF TypeOK
    <3>3. \A u \in Peer : cb[u] # "accept"
      BY <2>2, <2>5
    <3>. QED  BY <2>1, <2>3, <3>1, <3>2, <3>3 DEF SInv, OneCallback, Accounted, Chains
  <2>. QED  BY <2>4, <2>5
<1>8. ASSUME NEW s \in Peer, ReadError(s) PROVE SInv'
  <2>1. TypeOK'
    BY <1>0, <1>8 DEF ReadError, TypeOK, scriptVars, socketVars, acceptVars, countVars
  <2>. QED  BY <1>8, <2>1, OtherKeeps DEF ReadError, scriptVars, socketVars, acceptVars
<1>9. ASSUME NEW name \in Names, Abort(name) PROVE SInv'
  <2>1. TypeOK'
    BY <1>0, <1>9 DEF Abort, TypeOK, socketVars, acceptVars, sessionVars, countVars
  <2>. QED  BY <1>9, <2>1, OtherKeeps DEF Abort, socketVars, acceptVars, sessionVars
<1>. QED  BY <1>1, <1>2, <1>3, <1>4, <1>5, <1>6, <1>7, <1>8, <1>9 DEF HandlerNext

\* Every step keeps the invariant.
LEMMA NextSInv == SInv /\ [Next]_vars => SInv'
<1> SUFFICES ASSUME SInv, [Next]_vars PROVE SInv'
  OBVIOUS
<1>1. CASE Next
  BY <1>1, ScriptKeeps, HandlerKeeps DEF Next
<1>2. CASE UNCHANGED vars
  BY <1>2 DEF SInv, TypeOK, OneCallback, Accounted, Chains, vars, scriptVars,
              socketVars, acceptVars, sessionVars, countVars
<1>. QED  BY <1>1, <1>2

LEMMA Invariant == Spec => []SInv
BY InitSInv, NextSInv, PTL DEF Spec
-----------------------------------------------------------------------------
(***************************************************************************)
(* Type correctness.                                                       *)
(***************************************************************************)
THEOREM TypeCorrect == Spec => []TypeOK
<1>1. SInv => TypeOK
  BY DEF SInv
<1>. QED  BY Invariant, <1>1, PTL

\* Of the accepts, as many are in their callback as Accounted says.
LEMMA RunningAccept ==
    ASSUME SInv
    PROVE  OneAcceptPerCall
<1> DEFINE running == {s \in Peer : cb[s] = "accept"}
<1>1. CASE running = {}
  <2>1. Cardinality(running) = 0
    BY <1>1, FS_EmptySet
  <2>2. Chains = started
    BY <1>1 DEF SInv, Accounted
  <2>. QED  BY <2>1, <2>2, Numbers DEF SInv, OneAcceptPerCall, Chains
<1>2. CASE running # {}
  <2>1. PICK s \in Peer : cb[s] = "accept"
    BY <1>2
  <2>2. running = {s}
    BY <2>1 DEF SInv, OneCallback
  <2>3. Cardinality(running) = 1
    BY <2>2, FS_Singleton
  <2>4. Chains + 1 = started
    BY <2>1 DEF SInv, Accounted
  <2>. QED  BY <2>3, <2>4, Numbers DEF SInv, OneAcceptPerCall, Chains
<1>. QED  BY <1>1, <1>2

(***************************************************************************)
(* Every accept() of the script is one chain: none is lost and none is     *)
(* doubled, whatever callbacks and errors come between.                    *)
(***************************************************************************)
THEOREM ChainsStand == Spec => []OneAcceptPerCall
BY Invariant, RunningAccept, PTL

\* Without work for run() no accept chain is left.
LEMMA NothingLeft == ASSUME SInv, script = "run", ~Work PROVE failed = started
<1>1. /\ \A s \in Peer : cb[s] # "accept"
      /\ accepts = 0 /\ accepted = <<>> /\ refused = 0
  BY Numbers DEF Work, SInv, OneCallback
<1>2. Len(accepted) = 0
  BY <1>1
<1>. QED  BY <1>1, <1>2, Numbers DEF SInv, Accounted, Chains

(***************************************************************************)
(* run() does not return before every accept chain has failed.             *)
(***************************************************************************)
THEOREM ChainsKeepRunning == Spec => RunServes
<1>1. ASSUME SInv, [Next]_vars, stopped', ~stopped PROVE failed = started
  <2>1. RunReturns
    BY <1>1 DEF Next, ScriptNext, HandlerNext, PeerNext, setCallBack, listen, Accept,
                connect, Drop, Raise, PollAcceptor, AcceptDone, AcceptError, ConnectDone,
                ConnectError, Message, CallbackReturn, ReadError, Abort, Arrive, Leave,
                Run, vars, scriptVars
  <2>. QED  BY <1>1, <2>1, NothingLeft DEF RunReturns
<1>2. SInv /\ [Next]_vars => [stopped' /\ ~stopped => failed = started]_vars
  BY <1>1
<1>. QED  BY <1>2, Invariant, PTL DEF Spec, RunServes
-----------------------------------------------------------------------------
(***************************************************************************)
(* Each client is accepted once: the accepted clients and those that wait  *)
(* in the kernel form one line, in which each stands once and has no       *)
(* Session yet.  With who refers to which Session this is inductive.       *)
(***************************************************************************)
Line == accepted \o backlog

InLine ==
    /\ \A i \in 1..Len(Line) : Line[i] \in Client /\ st[Line[i]] = "opening"
    /\ \A i, j \in 1..Len(Line) : Line[i] = Line[j] => i = j

LInv == SInv /\ InLine /\ DescriptorsOwned

\* The elements of a concatenation.
LEMMA ConcatElems ==
    ASSUME NEW S, NEW q \in Seq(S), NEW r \in Seq(S),
           NEW n \in Nat, n = Len(q), NEW m \in Nat, m = Len(r)
    PROVE  /\ q \o r \in Seq(S) /\ Len(q \o r) = n + m
           /\ \A i \in 1..(n + m) : (q \o r)[i] = IF i <= n THEN q[i] ELSE r[i - n]
BY ConcatProperties

\* The head of one queue goes to the end of the queue before it.
LEMMA HeadMovesUp ==
    ASSUME NEW S, NEW q \in Seq(S), NEW r \in Seq(S), r # <<>>
    PROVE  Append(q, Head(r)) \o Tail(r) = q \o r
<1>1. Head(r) \in S /\ Tail(r) \in Seq(S) /\ <<Head(r)>> \in Seq(S)
  BY HeadTailProperties
<1>2. Append(q, Head(r)) = q \o <<Head(r)>>
  BY <1>1, AppendIsConcat
<1>3. (q \o <<Head(r)>>) \o Tail(r) = q \o (<<Head(r)>> \o Tail(r))
  BY <1>1, ConcatAssociative
<1>4. <<Head(r)>> \o Tail(r) = r
  BY <1>1
<1>. QED  BY <1>2, <1>3, <1>4

\* It does not matter how three queues are put together.
Regroups(q, f, t) == (q \o f) \o t = q \o (f \o t)

LEMMA Regrouped ==
    ASSUME NEW S, NEW q \in Seq(S), NEW f \in Seq(S), NEW t \in Seq(S)
    PROVE  Regroups(q, f, t)
BY ConcatAssociative DEF Regroups

\* The first part of a queue goes to the end of the queue before it.
LEMMA FirstMoveUp ==
    ASSUME NEW S, NEW q \in Seq(S), NEW r \in Seq(S), NEW n \in 0..Len(r)
    PROVE  (q \o SubSeq(r, 1, n)) \o SubSeq(r, n + 1, Len(r)) = q \o r
<1>1. SubSeq(r, 1, n) \in Seq(S) /\ SubSeq(r, n + 1, Len(r)) \in Seq(S)
  BY FirstAndRest
<1>2. PICK f : f = SubSeq(r, 1, n)
  OBVIOUS
<1>3. PICK t : t = SubSeq(r, n + 1, Len(r))
  OBVIOUS
<1>4. f \o t = r
  BY <1>2, <1>3, FirstAndRest
<1>5. f \in Seq(S) /\ t \in Seq(S)
  BY <1>1, <1>2, <1>3
<1>6. Regroups(q, f, t)
  BY <1>5, Regrouped
<1>. QED  BY <1>2, <1>3, <1>4, <1>6, Zenon DEF Regroups

\* accept() and the acceptor leave the line as it is.
LEMMA LineStands ==
    ASSUME TypeOK, accept \/ PollAcceptor \/ UNCHANGED <<accepted, backlog>>
    PROVE  Line' = Line
<1>0. accepted \in Seq(Client) /\ backlog \in Seq(Client)
  BY DEF TypeOK
<1>1. CASE UNCHANGED <<accepted, backlog>>
  BY <1>1 DEF Line
<1>2. CASE /\ backlog # <<>>
           /\ accepted' = Append(accepted, Head(backlog))
           /\ backlog' = Tail(backlog)
  BY <1>0, <1>2, HeadMovesUp DEF Line
<1>3. CASE PollAcceptor
  <2>1. PICK n \in 0..Len(backlog) :
           /\ accepted' = accepted \o SubSeq(backlog, 1, n)
           /\ backlog' = SubSeq(backlog, n + 1, Len(backlog))
    BY <1>3, PollEffect
  <2>2. Line' = (accepted \o SubSeq(backlog, 1, n)) \o SubSeq(backlog, n + 1, Len(backlog))
    BY <2>1 DEF Line
  <2>3. accepted \o backlog
           = (accepted \o SubSeq(backlog, 1, n)) \o SubSeq(backlog, n + 1, Len(backlog))
    BY <1>0, FirstMoveUp
  <2>. QED  BY <2>2, <2>3 DEF Line
<1>4. accept => \/ UNCHANGED <<accepted, backlog>>
                \/ /\ backlog # <<>>
                   /\ accepted' = Append(accepted, Head(backlog))
                   /\ backlog' = Tail(backlog)
  BY DEF accept
<1>. QED  BY <1>1, <1>2, <1>3, <1>4

\* The first of the line, when it is accepted.
LEMMA LineHead ==
    ASSUME TypeOK, accepted # <<>>, accepted' = Tail(accepted), backlog' = backlog
    PROVE  /\ Len(Line) \in Nat \ {0} /\ Len(Line') = Len(Line) - 1
           /\ Line[1] = Head(accepted)
           /\ \A i \in 1..Len(Line') : i + 1 \in 1..Len(Line) /\ Line'[i] = Line[i + 1]
<1>0. accepted \in Seq(Client) /\ backlog \in Seq(Client)
  BY DEF TypeOK
<1>1. PICK n \in Nat, m \in Nat : n + 1 = Len(accepted) /\ m = Len(backlog)
  <2>1. Len(accepted) \in Nat \ {0} /\ Len(backlog) \in Nat
    BY <1>0, LenProperties, EmptySeq
  <2>. QED  BY <2>1
<1>2. /\ accepted' \in Seq(Client) /\ Len(accepted') = n
      /\ \A i \in 1..n : accepted'[i] = accepted[i + 1]
      /\ Head(accepted) = accepted[1]
  BY <1>0, <1>1, HeadTailProperties
<1>3. /\ Len(Line) = (n + 1) + m
      /\ \A i \in 1..((n + 1) + m) :
            Line[i] = IF i <= n + 1 THEN accepted[i] ELSE backlog[i - (n + 1)]
  <2>1. n + 1 \in Nat /\ m \in Nat
    BY <1>1
  <2>. QED  BY <1>0, <1>1, <2>1, ConcatElems DEF Line
<1>4. PICK a : a = accepted'
  OBVIOUS
<1>5. Line' = a \o backlog
  BY <1>4 DEF Line
<1>6. /\ Len(Line') = n + m
      /\ \A i \in 1..(n + m) : Line'[i] = IF i <= n THEN a[i] ELSE backlog[i - n]
  <2>1. a \in Seq(Client) /\ n = Len(a)
    BY <1>2, <1>4
  <2>2. /\ Len(a \o backlog) = n + m
        /\ \A i \in 1..(n + m) : (a \o backlog)[i] = IF i <= n THEN a[i] ELSE backlog[i - n]
    BY <1>0, <1>1, <2>1, ConcatElems
  <2>. QED  BY <1>5, <2>2
<1>7. ASSUME NEW i \in 1..(n + m) PROVE Line'[i] = Line[i + 1]
  <2>0. i + 1 \in 1..((n + 1) + m)
    BY <1>1
  <2>1. CASE i <= n
    <3>1. i \in 1..n /\ i + 1 <= n + 1
      BY <1>1, <2>1
    <3>. QED  BY <1>2, <1>3, <1>4, <1>6, <2>0, <2>1, <3>1
  <2>2. CASE i > n
    <3>1. (i + 1) - (n + 1) = i - n /\ ~(i + 1 <= n + 1) /\ ~(i <= n)
      BY <1>1, <2>2
    <3>. QED  BY <1>3, <1>6, <2>0, <3>1
  <2>. QED  BY <1>1, <2>1, <2>2
<1>8. Line[1] = Head(accepted)
  <2>1. 1 \in 1..((n + 1) + m) /\ 1 <= n + 1
    BY <1>1
  <2>. QED  BY <1>2, <1>3, <2>1
<1>9. /\ (n + 1) + m \in Nat \ {0} /\ n + m = (n + 1) + m - 1
      /\ \A i \in 1..(n + m) : i + 1 \in 1..((n + 1) + m)
  BY <1>1
<1>. QED  BY <1>3, <1>6, <1>7, <1>8, <1>9

\* A client that arrives is the last of the line.
LEMMA LineGrows ==
    ASSUME TypeOK, NEW c \in Client, accepted' = accepted, backlog' = Append(backlog, c)
    PROVE  /\ Len(Line) \in Nat /\ Len(Line') = Len(Line) + 1
           /\ Line'[Len(Line) + 1] = c
           /\ \A i \in 1..Len(Line) : Line'[i] = Line[i]
<1>0. accepted \in Seq(Client) /\ backlog \in Seq(Client) /\ <<c>> \in Seq(Client)
  BY DEF TypeOK
<1>1. Line \in Seq(Client)
  BY <1>0, ConcatProperties DEF Line
<1>2. Line' = Append(Line, c)
  <2>1. Append(backlog, c) = backlog \o <<c>> /\ Append(Line, c) = Line \o <<c>>
    BY <1>0, <1>1, AppendIsConcat
  <2>2. (accepted \o backlog) \o <<c>> = accepted \o (backlog \o <<c>>)
    BY <1>0, ConcatAssociative
  <2>. QED  BY <2>1, <2>2 DEF Line
<1>. QED  BY <1>1, <1>2, AppendProperties, LenProperties

\* At first nobody waits.
LEMMA InitLInv == Init => LInv
<1> SUFFICES ASSUME Init PROVE LInv
  OBVIOUS
<1>1. Len(Line) = 0
  <2>1. accepted = <<>> /\ backlog = <<>>
    BY DEF Init
  <2>. QED  BY <2>1 DEF Line
<1>2. InLine
  BY <1>1 DEF InLine
<1>3. DescriptorsOwned
  BY DEF Init, DescriptorsOwned
<1>. QED  BY <1>2, <1>3, InitSInv DEF LInv

\* Steps that leave the line alone, and no client in it without its place.
LEMMA InLineKept ==
    ASSUME InLine, Line' = Line,
           \A c \in Client : st[c] = "opening" => st'[c] = "opening"
    PROVE  InLine'
BY DEF InLine

\* What the steps below leave alone.
LEMMA QueuesStand ==
    ASSUME UNCHANGED <<accepted, backlog>>
    PROVE  Line' = Line
BY DEF Line

\* Steps of the script and of the peers.
LEMMA ScriptKeepsLine ==
    ASSUME LInv, ScriptNext \/ PeerNext \/ Run \/ RunReturns
    PROVE  InLine' /\ DescriptorsOwned'
<1>0. /\ TypeOK /\ InLine /\ DescriptorsOwned /\ Peer = Client \cup Remote
      /\ Client \cap Remote = {}
      /\ st \in [Peer -> {"new", "opening", "failed", "live", "dead"}]
      /\ held \in [Peer -> BOOLEAN] /\ rd \in [Peer -> BOOLEAN]
  BY SocketAssumption DEF LInv, SInv, TypeOK, Peer
<1>1. ASSUME UNCHANGED <<accepted, backlog, sessionVars>> PROVE InLine' /\ DescriptorsOwned'
  BY <1>0, <1>1, InLineKept, QueuesStand DEF DescriptorsOwned, sessionVars
<1>2. ASSUME NEW name \in Names, setCallBack(name) PROVE InLine' /\ DescriptorsOwned'
  BY <1>1, <1>2 DEF setCallBack, socketVars, acceptVars
<1>3. CASE listen \/ Raise \/ Run \/ RunReturns
  BY <1>1, <1>3 DEF listen, Raise, Run, RunReturns, socketVars, acceptVars
<1>4. CASE Accept
  <2>1. Line' = Line
    BY <1>0, <1>4, LineStands DEF Accept
  <2>2. UNCHANGED sessionVars
    BY <1>4 DEF Accept
  <2>. QED  BY <1>0, <2>1, <2>2, InLineKept DEF DescriptorsOwned, sessionVars
<1>5. ASSUME NEW s \in Remote, connect(s) PROVE InLine' /\ DescriptorsOwned'
  <2>1. UNCHANGED <<accepted, backlog, held, cb, rd>>
    BY <1>5 DEF connect, socketVars, acceptVars
  <2>2. /\ st[s] = "new" /\ s \notin Client
        /\ st' = [st EXCEPT ![s] = IF Fds < MaxFds THEN "opening" ELSE "failed"]
    BY <1>0, <1>5 DEF connect
  <2>3. InLine'
    BY <1>0, <2>1, <2>2, InLineKept, QueuesStand
  <2>4. DescriptorsOwned'
    BY <1>0, <2>1, <2>2 DEF DescriptorsOwned
  <2>. QED  BY <2>3, <2>4
<1>6. ASSUME NEW s \in Peer, Drop(s) PROVE InLine' /\ DescriptorsOwned'
  <2>1. /\ UNCHANGED <<accepted, backlog, cb, rd>>
        /\ held[s] /\ cb[s] = "none" /\ held' = [held EXCEPT ![s] = FALSE]
        /\ st' = [st EXCEPT ![s] = IF rd[s] THEN @ ELSE "dead"]
    BY <1>6 DEF Drop, HandlerOwns, socketVars, acceptVars
  <2>2. st[s] # "opening"
    BY <1>0, <2>1 DEF DescriptorsOwned
  <2>3. InLine'
    BY <1>0, <2>1, <2>2, InLineKept, QueuesStand
  <2>4. DescriptorsOwned'
    BY <1>0, <2>1 DEF DescriptorsOwned
  <2>. QED  BY <2>3, <2>4
<1>7. ASSUME NEW c \in Client, Arrive(c) PROVE InLine' /\ DescriptorsOwned'
  <2>1. /\ UNCHANGED <<accepted, held, cb, rd>> /\ backlog' = Append(backlog, c)
        /\ st[c] = "new" /\ st' = [st EXCEPT ![c] = "opening"]
    BY <1>7 DEF Arrive
  <2>2. /\ Len(Line) \in Nat /\ Len(Line') = Len(Line) + 1
        /\ Line'[Len(Line) + 1] = c
        /\ \A i \in 1..Len(Line) : Line'[i] = Line[i]
    BY <1>0, <2>1, LineGrows
  <2>3. PICK n \in Nat : n = Len(Line)
    BY <2>2
  <2>4. \A i \in 1..(n + 1) : i \in 1..n \/ i = n + 1
    BY <2>3
  <2>5. \A i \in 1..n : Line'[i] # c /\ Line'[i] \in Client /\ st'[Line'[i]] = "opening"
    BY <1>0, <2>1, <2>2, <2>3 DEF InLine
  <2>6. InLine'
    BY <1>0, <2>1, <2>2, <2>3, <2>4, <2>5 DEF InLine
  <2>7. DescriptorsOwned'
    BY <1>0, <2>1 DEF DescriptorsOwned
  <2>. QED  BY <2>6, <2>7
<1>8. ASSUME NEW s \in Peer, Leave(s) PROVE InLine' /\ DescriptorsOwned'
  BY <1>1, <1>8 DEF Leave, socketVars, acceptVars
<1>. QED  BY <1>2, <1>3, <1>4, <1>5, <1>6, <1>7, <1>8 DEF ScriptNext, PeerNext

\* Steps of the handlers.
LEMMA HandlerKeepsLine == ASSUME LInv, HandlerNext PROVE InLine' /\ DescriptorsOwned'
<1>0. /\ TypeOK /\ OneCallback /\ InLine /\ DescriptorsOwned /\ Peer = Client \cup Remote
      /\ Client \cap Remote = {}
      /\ st \in [Peer -> {"new", "opening", "failed", "live", "dead"}]
      /\ held \in [Peer -> BOOLEAN] /\ rd \in [Peer -> BOOLEAN]
      /\ cb \in [Peer -> Names \cup {"none"}]
  BY SocketAssumption DEF LInv, SInv, TypeOK, Peer
<1>1. ASSUME UNCHANGED <<accepted, backlog, sessionVars>> PROVE InLine' /\ DescriptorsOwned'
  BY <1>0, <1>1, InLineKept, QueuesStand DEF DescriptorsOwned, sessionVars
<1>2. CASE PollAcceptor
  <2>1. Line' = Line
    BY <1>0, <1>2, LineStands
  <2>2. UNCHANGED sessionVars
    BY <1>2 DEF PollAcceptor
  <2>. QED  BY <1>0, <2>1, <2>2, InLineKept DEF DescriptorsOwned, sessionVars
<1>3. CASE AcceptDone
  <2>1. /\ accepted # <<>> /\ accepted' = Tail(accepted) /\ backlog' = backlog
        /\ st' = [st EXCEPT ![Head(accepted)] = "live"]
        /\ rd' = [rd EXCEPT ![Head(accepted)] = TRUE]
        /\ cb' = [cb EXCEPT ![Head(accepted)] = "accept"]
        /\ held' = [held EXCEPT ![Head(accepted)] = TRUE]
    BY <1>3 DEF AcceptDone, Introduce
  <2>2. PICK s : s = Head(accepted)
    OBVIOUS
  <2>3. /\ Len(Line) \in Nat \ {0} /\ Len(Line') = Len(Line) - 1
        /\ Line[1] = s
        /\ \A i \in 1..Len(Line') : i + 1 \in 1..Len(Line) /\ Line'[i] = Line[i + 1]
    BY <1>0, <2>1, <2>2, LineHead
  <2>4. PICK n \in Nat : n + 1 = Len(Line) /\ n = Len(Line')
    BY <2>3
  <2>5. 1 \in 1..Len(Line) /\ s \in Client
    BY <1>0, <2>3, <2>4 DEF InLine
  <2>6. \A i \in 1..n : /\ i + 1 \in 1..Len(Line) /\ Line'[i] = Line[i + 1]
                        /\ i + 1 # 1
    BY <2>3, <2>4
  <2>7. \A i \in 1..n : Line'[i] # s /\ Line'[i] \in Client /\ st'[Line'[i]] = "opening"
    BY <1>0, <2>1, <2>2, <2>3, <2>5, <2>6 DEF InLine
  <2>8. ASSUME NEW i \in 1..n, NEW j \in 1..n, Line'[i] = Line'[j] PROVE i = j
    <3>1. i + 1 = j + 1
      BY <1>0, <2>6, <2>8 DEF InLine
    <3>. QED  BY <3>1
  <2>9. InLine'
    BY <2>4, <2>7, <2>8 DEF InLine
  <2>10. DescriptorsOwned'
    BY <1>0, <2>1, <2>2, <2>5 DEF DescriptorsOwned
  <2>. QED  BY <2>9, <2>10
<1>4. CASE AcceptError
  BY <1>1, <1>4 DEF AcceptError
<1>5. ASSUME NEW s \in Remote, ConnectDone(s) PROVE InLine' /\ DescriptorsOwned'
  <2>1. /\ UNCHANGED <<accepted, backlog>> /\ s \notin Client
        /\ st' = [st EXCEPT ![s] = "live"] /\ rd' = [rd EXCEPT ![s] = TRUE]
        /\ cb' = [cb EXCEPT ![s] = "connect"] /\ held' = [held EXCEPT ![s] = TRUE]
    BY <1>0, <1>5 DEF ConnectDone, Introduce, socketVars, acceptVars
  <2>2. InLine'
    BY <1>0, <2>1, InLineKept, QueuesStand
  <2>3. DescriptorsOwned'
    BY <1>0, <2>1 DEF DescriptorsOwned
  <2>. QED  BY <2>2, <2>3
<1>6. ASSUME NEW s \in Remote, ConnectError(s) PROVE InLine' /\ DescriptorsOwned'
  <2>1. /\ UNCHANGED <<accepted, backlog, held, cb, rd>> /\ s \notin Client
        /\ st[s] \in {"opening", "failed"} /\ st' = [st EXCEPT ![s] = "dead"]
    BY <1>0, <1>6 DEF ConnectError, socketVars, acceptVars
  <2>2. InLine'
    BY <1>0, <2>1, InLineKept, QueuesStand
  <2>3. DescriptorsOwned'
    BY <1>0, <2>1 DEF DescriptorsOwned
  <2>. QED  BY <2>2, <2>3
<1>7. ASSUME NEW s \in Peer, Message(s) PROVE InLine' /\ DescriptorsOwned'
  <2>1. /\ UNCHANGED <<accepted, backlog, st>> /\ rd[s]
        /\ rd' = [rd EXCEPT ![s] = FALSE]
        /\ cb' = [cb EXCEPT ![s] = "read"] /\ held' = [held EXCEPT ![s] = TRUE]
    BY <1>7 DEF Message, socketVars, acceptVars
  <2>2. InLine'
    BY <1>0, <2>1, InLineKept, QueuesStand
  <2>3. DescriptorsOwned'
    BY <1>0, <2>1 DEF DescriptorsOwned
  <2>. QED  BY <2>2, <2>3
<1>8. ASSUME NEW s \in Peer, CallbackReturn(s) PROVE InLine' /\ DescriptorsOwned'
  <2>1. /\ cb[s] # "none" /\ UNCHANGED <<st, held>> /\ AcceptsAgain(s)
        /\ cb' = [cb EXCEPT ![s] = "none"] /\ rd' = [rd EXCEPT ![s] = TRUE]
    BY <1>8 DEF CallbackReturn
  <2>2. accept \/ UNCHANGED <<accepted, backlog>>
    BY <2>1 DEF AcceptsAgain, acceptVars
  <2>3. Line' = Line
    BY <1>0, <2>2, LineStands
  <2>4. InLine'
    BY <1>0, <2>1, <2>3, InLineKept
  <2>5. DescriptorsOwned'
    BY <1>0, <2>1 DEF DescriptorsOwned
  <2>. QED  BY <2>4, <2>5
<1>9. ASSUME NEW s \in Peer, ReadError(s) PROVE InLine' /\ DescriptorsOwned'
  <2>1. /\ UNCHANGED <<accepted, backlog, held, cb>> /\ script = "run" /\ rd[s]
        /\ rd' = [rd EXCEPT ![s] = FALSE]
        /\ st' = [st EXCEPT ![s] = IF held[s] THEN @ ELSE "dead"]
    BY <1>9 DEF ReadError, socketVars, acceptVars
  <2>2. st[s] = "live" /\ cb[s] = "none"
    BY <1>0, <2>1 DEF DescriptorsOwned, OneCallback
  <2>3. InLine'
    BY <1>0, <2>1, <2>2, InLineKept, QueuesStand
  <2>4. DescriptorsOwned'
    BY <1>0, <2>1, <2>2 DEF DescriptorsOwned
  <2>. QED  BY <2>3, <2>4
<1>10. ASSUME NEW name \in Names, Abort(name) PROVE InLine' /\ DescriptorsOwned'
  BY <1>1, <1>10 DEF Abort, socketVars, acceptVars
<1>. QED  BY <1>2, <1>3, <1>4, <1>5, <1>6, <1>7, <1>8, <1>9, <1>10 DEF HandlerNext

\* Every step keeps the line in order.
LEMMA NextLInv == LInv /\ [Next]_vars => LInv'
<1> SUFFICES ASSUME LInv, [Next]_vars PROVE LInv'
  OBVIOUS
<1>1. SInv'
  BY NextSInv DEF LInv
<1>2. CASE Next
  BY <1>1, <1>2, ScriptKeepsLine, HandlerKeepsLine DEF Next, LInv
<1>3. CASE UNCHANGED vars
  BY <1>1, <1>3 DEF LInv, InLine, DescriptorsOwned, Line, vars, socketVars, acceptVars,
                    sessionVars
<1>. QED  BY <1>2, <1>3
LEMMA LineInvariant == Spec => []LInv
BY InitLInv, NextLInv, PTL DEF Spec

(***************************************************************************)
(* A Session and its descriptor last as long as somebody refers to it, and *)
(* no longer.                                                              *)
(***************************************************************************)
THEOREM NoneLost == Spec => []DescriptorsOwned
<1>1. LInv => DescriptorsOwned
  BY DEF LInv
<1>. QED  BY <1>1, LineInvariant, PTL
-----------------------------------------------------------------------------
phases == [s \in Peer |-> Phase(s)]

\* What the script sees of a Session does not change with its other variables.
LEMMA PhaseKept ==
    ASSUME \A s \in Peer : Phase(s)' = Phase(s)
    PROVE  phases' = phases
BY DEF phases

\* A change of one Session's phase is a change of SessionLife's.
LEMMA PhaseMoves ==
    ASSUME NEW s \in Peer, NEW from, NEW to,
           \A t \in Peer : t # s => Phase(t)' = Phase(t),
           Phase(s) \in from, Phase(s)' = to
    PROVE  Life!Goes(s, from, to)
<1>1. phases' = [phases EXCEPT ![s] = to]
  BY DEF phases
<1>. QED  BY <1>1 DEF Life!Goes, phases

\* Each step is one of SessionLife, or changes nothing there.
LEMMA LifeStep ==
    ASSUME LInv, [Next]_vars
    PROVE  Life!Next \/ phases' = phases
<1>0. /\ OneCallback /\ InLine /\ DescriptorsOwned /\ Peer = Client \cup Remote
      /\ st \in [Peer -> {"new", "opening", "failed", "live", "dead"}]
      /\ held \in [Peer -> BOOLEAN] /\ rd \in [Peer -> BOOLEAN]
      /\ cb \in [Peer -> Names \cup {"none"}]
      /\ Names = {"accept", "connect", "read"}
  BY DEF LInv, SInv, TypeOK, Peer, Names
<1>1. ASSUME UNCHANGED sessionVars PROVE phases' = phases
  BY <1>1 DEF sessionVars, phases, Phase
<1>2. ASSUME NEW s \in Remote, connect(s) PROVE phases' = phases
  BY <1>0, <1>2, PhaseKept DEF connect, Phase
<1>3. ASSUME NEW c \in Client, Arrive(c) PROVE phases' = phases
  BY <1>0, <1>3, PhaseKept DEF Arrive, Phase
<1>4. ASSUME NEW s \in Peer, Drop(s) PROVE phases' = phases
  <2>1. /\ UNCHANGED <<cb, rd>> /\ cb[s] = "none" /\ st[s] \in {"live", "dead"}
        /\ st' = [st EXCEPT ![s] = IF rd[s] THEN @ ELSE "dead"]
    BY <1>0, <1>4 DEF Drop, HandlerOwns, DescriptorsOwned
  <2>. QED  BY <1>0, <2>1, PhaseKept DEF Phase
<1>5. ASSUME NEW s \in Peer, NEW name \in Names, st[s] = "opening", Introduce(s, name)
      PROVE  Life!Introduce(s)
  <2>1. \A t \in Peer : t # s => Phase(t)' = Phase(t)
    BY <1>0, <1>5 DEF Introduce, Phase
  <2>2. Phase(s) \in {"new"} /\ Phase(s)' = "callback"
    BY <1>0, <1>5 DEF Introduce, Phase
  <2>. QED  BY <2>1, <2>2, PhaseMoves DEF Life!Introduce
<1>6. CASE AcceptDone
  <2>1. /\ accepted # <<>> /\ accepted' = Tail(accepted) /\ backlog' = backlog
        /\ Introduce(Head(accepted), "accept")
    BY <1>6 DEF AcceptDone
  <2>2. Len(Line) \in Nat \ {0} /\ Line[1] = Head(accepted)
    BY <2>1, LineHead DEF LInv, SInv
  <2>3. Head(accepted) \in Client /\ st[Head(accepted)] = "opening"
    BY <1>0, <2>2 DEF InLine
  <2>4. Head(accepted) \in Peer /\ Life!Introduce(Head(accepted))
    BY <1>0, <1>5, <2>1, <2>3
  <2>. QED  BY <2>4 DEF Life!Next
<1>7. ASSUME NEW s \in Remote, ConnectDone(s) PROVE s \in Peer /\ Life!Introduce(s)
  BY <1>0, <1>5, <1>7 DEF ConnectDone
<1>8. ASSUME NEW s \in Remote, ConnectError(s) PROVE s \in Peer /\ Life!Finish(s)
  <2>1. /\ UNCHANGED <<cb, rd>> /\ s \in Peer
        /\ st[s] \in {"opening", "failed"} /\ st' = [st EXCEPT ![s] = "dead"]
    BY <1>0, <1>8 DEF ConnectError
  <2>2. \A t \in Peer : t # s => Phase(t)' = Phase(t)
    BY <1>0, <2>1 DEF Phase
  <2>3. cb[s] = "none"
    BY <1>0, <2>1 DEF DescriptorsOwned
  <2>4. Phase(s) \in {"new", "callback", "quiet"} /\ Phase(s)' = "over"
    BY <1>0, <2>1, <2>3 DEF Phase
  <2>. QED  BY <2>1, <2>2, <2>4, PhaseMoves DEF Life!Finish
<1>9. ASSUME NEW s \in Peer, Message(s) PROVE Life!Message(s)
  <2>1. \A t \in Peer : t # s => Phase(t)' = Phase(t)
    BY <1>0, <1>9 DEF Message, Phase
  <2>2. st[s] = "live" /\ cb[s] = "none"
    BY <1>0, <1>9 DEF Message, DescriptorsOwned, OneCallback
  <2>3. Phase(s) \in {"quiet"} /\ Phase(s)' = "callback"
    BY <1>0, <1>9, <2>2 DEF Message, Phase
  <2>. QED  BY <2>1, <2>3, PhaseMoves DEF Life!Message
<1>10. ASSUME NEW s \in Peer, CallbackReturn(s) PROVE Life!Return(s)
  <2>1. \A t \in Peer : t # s => Phase(t)' = Phase(t)
    BY <1>0, <1>10 DEF CallbackReturn, Phase
  <2>2. st[s] = "live" /\ cb[s] # "none"
    BY <1>0, <1>10 DEF CallbackReturn, DescriptorsOwned
  <2>3. Phase(s) \in {"callback"} /\ Phase(s)' = "quiet"
    BY <1>0, <1>10, <2>2 DEF CallbackReturn, Phase
  <2>. QED  BY <2>1, <2>3, PhaseMoves DEF Life!Return
<1>11. ASSUME NEW s \in Peer, ReadError(s) PROVE Life!Finish(s)
  <2>1. /\ UNCHANGED <<held, cb>> /\ script = "run" /\ rd[s]
        /\ rd' = [rd EXCEPT ![s] = FALSE]
        /\ st' = [st EXCEPT ![s] = IF held[s] THEN @ ELSE "dead"]
    BY <1>11 DEF ReadError
  <2>2. \A t \in Peer : t # s => Phase(t)' = Phase(t)
    BY <1>0, <2>1 DEF Phase
  <2>3. st[s] = "live" /\ cb[s] = "none"
    BY <1>0, <2>1 DEF DescriptorsOwned, OneCallback
  <2>4. Phase(s) \in {"new", "callback", "quiet"} /\ Phase(s)' = "over"
    BY <1>0, <2>1, <2>3 DEF Phase
  <2>. QED  BY <2>2, <2>4, PhaseMoves DEF Life!Finish
<1>12. ASSUME \/ \E name \in Names : setCallBack(name) \/ Abort(name)
              \/ listen \/ Accept \/ Raise \/ Run \/ RunReturns \/ PollAcceptor \/ AcceptError
              \/ \E s \in Peer : Leave(s)
              \/ UNCHANGED vars
       PROVE  UNCHANGED sessionVars
  BY <1>12 DEF setCallBack, Abort, listen, Accept, Raise, Run, RunReturns, PollAcceptor,
               AcceptError, Leave, vars
<1>. QED
  BY <1>1, <1>2, <1>3, <1>4, <1>6, <1>7, <1>8, <1>9, <1>10, <1>11, <1>12
     DEF Next, ScriptNext, HandlerNext, PeerNext, Life!Next

(***************************************************************************)
(* listen, accept and connect introduce each Session to the script once,   *)
(* before anything else is said of it, and call back for none that is      *)
(* over: for any number of peers, descriptors and accept chains.           *)
(***************************************************************************)
THEOREM IntroducesAsPromised == Spec => IntroducesSessions
<1>1. Init => Life!Init
  BY DEF Init, Life!Init, Phase
<1>2. LInv /\ [Next]_vars => [Life!Next]_phases
  BY LifeStep
<1>. QED  BY <1>1, <1>2, LineInvariant, PTL DEF Spec, IntroducesSessions, Life!Spec, phases
=============================================================================
