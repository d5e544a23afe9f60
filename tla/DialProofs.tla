----------------------------- MODULE DialProofs -----------------------------
(***************************************************************************)
(* Proofs about Dial, for every set of requests and peers.                 *)
(*                                                                         *)
(* Argument for at-most-once: a second attempt exists only after the first *)
(* failed before its request was wholly handed over (SentOnce), so at most *)
(* one of a request's two streams can ever reach the peer.                 *)
(***************************************************************************)
EXTENDS Dial, TLAPS

\* Where each attempt's stream stands, given where request_async stands.
SentOnce ==
  \A r \in Requests :
    /\ pc[r] \in {"idle", "lookup", "dial", "put", "record", "open"} => wire[r][tries[r]] = "none"
    /\ pc[r] = "idle" => tries[r] = 1
    /\ pc[r] = "write" => wire[r][tries[r]] = "open"
    /\ tries[r] = 1 => wire[r][2] = "none"
    /\ tries[r] = 2 => wire[r][1] \in {"none", "open"}

SafeInv == TypeOK /\ SentOnce

-----------------------------------------------------------------------------
\* What the helpers return stays in type.

LEMMA InvalidatedType ==
  ASSUME TypeOK, NEW p \in Peers
  PROVE  Invalidated(p) \in [Peers -> Conns \cup {NoConn}]
BY DEF TypeOK, Invalidated

LEMMA RecordPeerType ==
  ASSUME TypeOK, NEW p \in Peers, NEW path \in Paths, NEW dir \in {"in", "out"}
  PROVE  RecordPeer(peers, p, path, dir) \in [Peers -> PeerEntry \cup {NoEntry}]
<1>1. ASSUME peers[p] = NoEntry PROVE RecordPeer(peers, p, path, dir) \in [Peers -> PeerEntry \cup {NoEntry}]
  BY <1>1 DEF TypeOK, RecordPeer, PeerEntry
<1>2. ASSUME peers[p] # NoEntry PROVE RecordPeer(peers, p, path, dir) \in [Peers -> PeerEntry \cup {NoEntry}]
  BY <1>2 DEF TypeOK, RecordPeer, PeerEntry
<1> QED BY <1>1, <1>2

LEMMA WireUpdateType ==
  ASSUME TypeOK, NEW r \in Requests, NEW k \in Attempts, NEW s \in WireStates
  PROVE  [wire EXCEPT ![r][k] = s] \in [Requests -> [Attempts -> WireStates]]
BY DEF TypeOK

LEMMA ReleaseType ==
  ASSUME NEW lk \in [Conns -> LinkStates], ReleaseUnheld(lk)
  PROVE  link' \in [Conns -> LinkStates]
BY DEF ReleaseUnheld, LinkStates

LEMMA DialledConn ==
  ASSUME TypeOK, NEW r \in Requests
  PROVE  <<r, tries[r]>> \in Conns
BY DEF TypeOK, Conns

LEMMA Addressed ==
  ASSUME NEW r \in Requests
  PROVE  PeerOf[r] \in Peers
BY PeerOfAssumption

-----------------------------------------------------------------------------
(* Every step preserves the invariant.  One lemma per action that changes  *)
(* what SentOnce speaks of.                                                *)

LEMMA InitSafe == Init => SafeInv
<1> SUFFICES ASSUME Init PROVE SafeInv
  OBVIOUS
<1>1. 1 \in Attempts /\ 2 \in Attempts
  BY DEF Attempts
<1>2. TypeOK
  <2>1. conn \in [Requests -> [Attempts -> Conns \cup {NoConn}]]
    BY DEF Init
  <2>2. wire \in [Requests -> [Attempts -> WireStates]]
    BY DEF Init, WireStates
  <2>3. cache \in [Peers -> Conns \cup {NoConn}] /\ link \in [Conns -> LinkStates]
    BY DEF Init, LinkStates
  <2> QED BY <1>1, <2>1, <2>2, <2>3 DEF Init, TypeOK
<1>3. SentOnce
  <2> SUFFICES ASSUME NEW r \in Requests PROVE SentOnce!(r)
    BY DEF SentOnce
  <2>1. wire[r] = [k \in Attempts |-> "none"] /\ tries[r] = 1 /\ pc[r] = "idle"
    BY DEF Init
  <2> QED BY <1>1, <2>1
<1> QED BY <1>2, <1>3 DEF SafeInv

LEMMA CallSafe ==
  ASSUME SafeInv, NEW r \in Requests, Call(r)
  PROVE  SafeInv'
<1>1. TypeOK'
  BY DEF SafeInv, TypeOK, Call, InFlight
<1>2. SentOnce'
  BY DEF SafeInv, TypeOK, SentOnce, Call
<1> QED BY <1>1, <1>2 DEF SafeInv

LEMMA LookupSafe ==
  ASSUME SafeInv, NEW r \in Requests, Lookup(r)
  PROVE  SafeInv'
<1>1. TypeOK'
  BY Addressed DEF SafeInv, TypeOK, Lookup, InFlight
<1>2. SentOnce'
  BY DEF SafeInv, TypeOK, SentOnce, Lookup
<1> QED BY <1>1, <1>2 DEF SafeInv

LEMMA ConnectSafe ==
  ASSUME SafeInv, NEW r \in Requests, Connect(r)
  PROVE  SafeInv'
<1>1. link' \in [Conns -> LinkStates]
  BY DEF SafeInv, TypeOK, LinkStates, Connect
<1>2. TypeOK'
  BY <1>1, DialledConn DEF SafeInv, TypeOK, Connect, InFlight
<1>3. SentOnce'
  BY DEF SafeInv, TypeOK, SentOnce, Connect
<1> QED BY <1>2, <1>3 DEF SafeInv

LEMMA PutSafe ==
  ASSUME SafeInv, NEW r \in Requests, Put(r)
  PROVE  SafeInv'
<1>1. link' \in [Conns -> LinkStates]
  BY ReleaseType DEF SafeInv, TypeOK, Put
<1>2. cache' \in [Peers -> Conns \cup {NoConn}]
  BY Addressed DEF SafeInv, TypeOK, Put
<1>3. TypeOK'
  BY <1>1, <1>2 DEF SafeInv, TypeOK, Put, InFlight
<1>4. SentOnce'
  BY DEF SafeInv, TypeOK, SentOnce, Put
<1> QED BY <1>3, <1>4 DEF SafeInv

LEMMA RecordSafe ==
  ASSUME SafeInv, NEW r \in Requests, Record(r)
  PROVE  SafeInv'
<1>1. peers' \in [Peers -> PeerEntry \cup {NoEntry}]
  BY Addressed, RecordPeerType, PathsAssumption DEF SafeInv, Record
<1>2. TypeOK'
  BY <1>1 DEF SafeInv, TypeOK, Record, InFlight
<1>3. SentOnce'
  BY DEF SafeInv, TypeOK, SentOnce, Record
<1> QED BY <1>2, <1>3 DEF SafeInv

LEMMA ReturnSafe ==
  ASSUME SafeInv, NEW r \in Requests, pc[r] \in InFlight,
         NEW res \in {"ok", "err", "timeout"}, Return(r, res),
         UNCHANGED <<cache, conn, tries>>, ReleaseUnheld(link),
         peers' \in [Peers -> PeerEntry \cup {NoEntry}],
         UNCHANGED <<reused, wire, stable, calm, freed>>
  PROVE  SafeInv'
<1>1. link' \in [Conns -> LinkStates]
  BY ReleaseType DEF SafeInv, TypeOK
<1>2. TypeOK'
  BY <1>1 DEF SafeInv, TypeOK, Return, InFlight
<1>3. SentOnce'
  BY DEF SafeInv, TypeOK, SentOnce, Return, InFlight
<1> QED BY <1>2, <1>3 DEF SafeInv

LEMMA FailSafe ==
  ASSUME SafeInv, NEW r \in Requests, NEW how \in {"BeforeSend", "AfterSend"},
         pc[r] \in InFlight, how = "BeforeSend" => pc[r] \in {"open", "write"}, Fail(r, how)
  PROVE  SafeInv'
<1>1. link' \in [Conns -> LinkStates]
  BY ReleaseType DEF SafeInv, TypeOK, Fail
<1>2. cache' \in [Peers -> Conns \cup {NoConn}]
  BY Addressed, InvalidatedType DEF SafeInv, TypeOK, Fail
<1>3. CASE RedialLeft(tries[r]) /\ MayRetry(how, reused[r])
  <2>1. tries' = [tries EXCEPT ![r] = 2] /\ tries[r] = 1
    BY <1>3 DEF SafeInv, TypeOK, Attempts, Fail, RedialLeft
  <2>2. TypeOK'
    BY <1>1, <1>2, <1>3, <2>1 DEF SafeInv, TypeOK, Fail, InFlight, Attempts
  <2>3. wire[r][1] \in {"none", "open"}
    BY <1>3, <2>1 DEF SafeInv, SentOnce, MayRetry
  <2>4. SentOnce'
    BY <1>3, <2>1, <2>3 DEF SafeInv, TypeOK, SentOnce, Fail
  <2> QED BY <2>2, <2>4 DEF SafeInv
<1>4. CASE ~(RedialLeft(tries[r]) /\ MayRetry(how, reused[r]))
  <2>1. TypeOK'
    BY <1>1, <1>2, <1>4 DEF SafeInv, TypeOK, Fail, Return, InFlight
  <2>2. SentOnce'
    BY <1>4 DEF SafeInv, TypeOK, SentOnce, Fail, Return, InFlight
  <2> QED BY <2>1, <2>2 DEF SafeInv
<1> QED BY <1>3, <1>4

LEMMA StreamSafe ==
  ASSUME SafeInv, NEW r \in Requests, OpenStream(r) \/ WriteRequest(r)
  PROVE  SafeInv'
<1>1. tries[r] \in Attempts /\ tries[r] \in {1, 2}
  BY DEF SafeInv, TypeOK, Attempts
<1>2. PICK s \in {"open", "sent"} : wire' = [wire EXCEPT ![r][tries[r]] = s]
  BY DEF OpenStream, WriteRequest
<1>3. wire' \in [Requests -> [Attempts -> WireStates]]
  BY <1>1, <1>2, WireUpdateType DEF SafeInv, WireStates
<1>4. TypeOK'
  BY <1>3 DEF SafeInv, TypeOK, OpenStream, WriteRequest, InFlight
<1>5. SentOnce'
  BY <1>1, SMTT(30) DEF SafeInv, TypeOK, SentOnce, OpenStream, WriteRequest, Attempts
<1> QED BY <1>4, <1>5 DEF SafeInv

LEMMA WireSafe ==
  ASSUME SafeInv, NEW r \in Requests, NEW k \in Attempts, Deliver(r, k) \/ Apply(r, k)
  PROVE  SafeInv'
<1>1. PICK s \in {"delivered", "applied"} : wire' = [wire EXCEPT ![r][k] = s]
  BY DEF Deliver, Apply
<1>2. wire' \in [Requests -> [Attempts -> WireStates]]
  BY <1>1, WireUpdateType DEF SafeInv, WireStates
<1>3. wire[r][k] \in {"sent", "delivered"}
  BY DEF Deliver, Apply
<1>4. TypeOK'
  BY <1>2 DEF SafeInv, TypeOK, Deliver, Apply
<1>5. UNCHANGED <<pc, tries>>
  BY DEF Deliver, Apply
<1>6. SentOnce'
  <2> SUFFICES ASSUME NEW q \in Requests PROVE SentOnce!(q)'
    BY DEF SentOnce
  <2>1. tries[q] \in Attempts /\ 1 \in Attempts /\ 2 \in Attempts
    BY DEF SafeInv, TypeOK, Attempts
  <2>2. \A j \in Attempts : wire'[q][j] = wire[q][j] \/ wire[q][j] \in {"sent", "delivered"}
    BY <1>1, <1>3 DEF SafeInv, TypeOK
  <2> QED BY <1>5, <2>1, <2>2 DEF SafeInv, SentOnce
<1> QED BY <1>4, <1>6 DEF SafeInv

LEMMA RestartSafe ==
  ASSUME SafeInv, NEW p \in Peers, PeerRestarts(p)
  PROVE  SafeInv'
<1>1. wire' = [r \in Requests |-> [k \in Attempts |->
                IF PeerOf[r] = p /\ wire[r][k] = "delivered" THEN "gone" ELSE wire[r][k]]]
  BY DEF PeerRestarts
<1>2. wire' \in [Requests -> [Attempts -> WireStates]]
  <2>1. ASSUME NEW r \in Requests, NEW k \in Attempts PROVE wire[r][k] \in WireStates
    BY DEF SafeInv, TypeOK
  <2> QED BY <1>1, <2>1 DEF WireStates
<1>3. link' \in [Conns -> LinkStates]
  BY DEF SafeInv, TypeOK, PeerRestarts, LinkStates
<1>4. TypeOK'
  BY <1>2, <1>3 DEF SafeInv, TypeOK, PeerRestarts
<1>5. SentOnce'
  <2> SUFFICES ASSUME NEW r \in Requests PROVE SentOnce!(r)'
    BY DEF SentOnce
  <2>1. \A k \in Attempts : wire'[r][k] = wire[r][k] \/ wire[r][k] = "delivered"
    BY <1>1
  <2>2. tries[r] \in Attempts /\ 1 \in Attempts /\ 2 \in Attempts
    BY DEF SafeInv, TypeOK, Attempts
  <2> QED BY <2>1, <2>2 DEF SafeInv, SentOnce, PeerRestarts
<1> QED BY <1>4, <1>5 DEF SafeInv

LEMMA EnvironmentSafe ==
  ASSUME SafeInv,
         \/ \E c \in Conns : PeerCloses(c) \/ IdleTimeout(c)
         \/ \E p \in Peers : PeerDialsIn(p)
         \/ CloseAll
         \/ Stabilise
  PROVE  SafeInv'
<1>1. CASE \E c \in Conns : PeerCloses(c) \/ IdleTimeout(c)
  BY <1>1 DEF SafeInv, TypeOK, SentOnce, PeerCloses, IdleTimeout, LinkStates
<1>2. CASE \E p \in Peers : PeerDialsIn(p)
  <2>1. peers' \in [Peers -> PeerEntry \cup {NoEntry}]
    BY <1>2, RecordPeerType DEF SafeInv, PeerDialsIn
  <2> QED BY <1>2, <2>1 DEF SafeInv, TypeOK, SentOnce, PeerDialsIn
<1>3. CASE CloseAll
  BY <1>3 DEF SafeInv, TypeOK, SentOnce, CloseAll, LinkStates
<1>4. CASE Stabilise
  BY <1>4 DEF SafeInv, TypeOK, SentOnce, Stabilise
<1> QED BY <1>1, <1>2, <1>3, <1>4

LEMMA NextSafe == SafeInv /\ [Next]_vars => SafeInv'
<1> SUFFICES ASSUME SafeInv, [Next]_vars PROVE SafeInv'
  OBVIOUS
<1>1. ASSUME NEW r \in Requests, Call(r) PROVE SafeInv'
  BY <1>1, CallSafe
<1>2. ASSUME NEW r \in Requests, Progress(r) PROVE SafeInv'
  <2>1. CASE Lookup(r)
    BY <2>1, LookupSafe
  <2>2. CASE Connect(r) \/ Put(r) \/ Record(r)
    BY <2>2, ConnectSafe, PutSafe, RecordSafe
  <2>3. CASE OpenStream(r) \/ WriteRequest(r)
    BY <2>3, StreamSafe
  <2>4. CASE SendFails(r)
    <3>1. pc[r] \in {"open", "write"} /\ pc[r] \in InFlight /\ Fail(r, "BeforeSend")
      BY <2>4 DEF SendFails, InFlight
    <3> QED BY <3>1, FailSafe
  <2>5. CASE Reply(r)
    <3>1. peers' \in [Peers -> PeerEntry \cup {NoEntry}]
      BY <2>5, Addressed, RecordPeerType DEF Reply, SafeInv
    <3> QED BY <2>5, <3>1, ReturnSafe DEF Reply, InFlight
  <2> QED BY <1>2, <2>1, <2>2, <2>3, <2>4, <2>5 DEF Progress
<1>3. ASSUME NEW r \in Requests, ConnectFails(r) \/ TimesOut(r) PROVE SafeInv'
  <2>1. peers' \in [Peers -> PeerEntry \cup {NoEntry}]
    BY <1>3 DEF ConnectFails, TimesOut, SafeInv, TypeOK
  <2>2. CASE ConnectFails(r)
    BY <2>1, <2>2, ReturnSafe DEF ConnectFails, InFlight
  <2>3. CASE TimesOut(r)
    BY <2>1, <2>3, ReturnSafe DEF TimesOut, Awaits, InFlight
  <2> QED BY <1>3, <2>2, <2>3
<1>4. ASSUME NEW r \in Requests, ReadFails(r) PROVE SafeInv'
  <2>1. pc[r] \in InFlight /\ Fail(r, "AfterSend")
    BY <1>4 DEF ReadFails, InFlight
  <2> QED BY <2>1, FailSafe
<1>5. ASSUME NEW r \in Requests, UselessReply(r) PROVE SafeInv'
  <2>1. peers' \in [Peers -> PeerEntry \cup {NoEntry}]
    BY <1>5, Addressed, RecordPeerType DEF UselessReply, SafeInv
  <2> QED BY <1>5, <2>1, ReturnSafe DEF UselessReply, InFlight
<1>6. ASSUME NEW r \in Requests, NEW k \in Attempts, Deliver(r, k) \/ Apply(r, k) PROVE SafeInv'
  BY <1>6, WireSafe
<1>7. ASSUME NEW p \in Peers, PeerRestarts(p) PROVE SafeInv'
  BY <1>7, RestartSafe
<1>8. CASE UNCHANGED vars
  BY <1>8 DEF SafeInv, TypeOK, SentOnce, vars
<1> QED
  BY <1>1, <1>2, <1>3, <1>4, <1>5, <1>6, <1>7, <1>8, EnvironmentSafe DEF Next, Work

-----------------------------------------------------------------------------
\* The state of every reachable core is well typed.
THEOREM TypeCorrect == Spec => []TypeOK
<1>1. SafeInv => TypeOK
  BY DEF SafeInv
<1> QED BY <1>1, InitSafe, NextSafe, PTL DEF Spec

\* The invariant that carries both theorems below.
LEMMA SafeInvHolds == Spec => []SafeInv
BY InitSafe, NextSafe, PTL DEF Spec

LEMMA SafeInvAtMostOnce == SafeInv => AppliedAtMostOnce
<1> SUFFICES ASSUME SafeInv, NEW r \in Requests PROVE Effects(r) <= 1
  BY DEF AppliedAtMostOnce
<1>1. tries[r] = 1 \/ tries[r] = 2
  BY DEF SafeInv, TypeOK, Attempts
<1>2. wire[r][1] # "applied" \/ wire[r][2] # "applied"
  BY <1>1 DEF SafeInv, SentOnce
<1> QED BY <1>2 DEF Effects

(* may_retry's promise: no request is ever applied twice by the peer, with *)
(* any number of threads, peers, failures and timeouts.                    *)
THEOREM AtMostOnceHolds == Spec => []AppliedAtMostOnce
BY SafeInvHolds, SafeInvAtMostOnce, PTL

-----------------------------------------------------------------------------
(* Dial implements AtMostOnce.  Call is Submit, Apply is TakeEffect, Reply *)
(* is Answer, every other return is GiveUp, and the rest stutters.         *)

LEMMA EffectsOfWire ==
  ASSUME NEW r \in Requests,
         \A k \in Attempts : wire'[r][k] = "applied" <=> wire[r][k] = "applied"
  PROVE  Effects(r)' = Effects(r)
BY DEF Effects, Attempts

LEMMA StutterRefines ==
  ASSUME \A r \in Requests : PhaseOf(r)' = PhaseOf(r) /\ Effects(r)' = Effects(r)
  PROVE  UNCHANGED Abstract!vars
BY DEF Abstract!vars

LEMMA InitRefines == Init => Abstract!Init
<1> SUFFICES ASSUME Init, NEW r \in Requests PROVE PhaseOf(r) = "idle" /\ Effects(r) = 0
  BY DEF Abstract!Init
<1>1. pc[r] = "idle" /\ wire[r] = [k \in Attempts |-> "none"]
  BY DEF Init
<1>2. PhaseOf(r) = "idle"
  BY <1>1 DEF PhaseOf, InFlight
<1>3. Effects(r) = 0
  BY <1>1 DEF Effects, Attempts
<1> QED BY <1>2, <1>3

LEMMA CallRefines ==
  ASSUME SafeInv, NEW r \in Requests, Call(r)
  PROVE  Abstract!Submit(r)
<1>1. \A q \in Requests : Effects(q)' = Effects(q)
  BY DEF Call, Effects
<1>2. PhaseOf(r) = "idle" /\ PhaseOf(r)' = "pending"
  BY DEF SafeInv, TypeOK, Call, PhaseOf, InFlight
<1>3. \A q \in Requests \ {r} : PhaseOf(q)' = PhaseOf(q)
  BY DEF SafeInv, TypeOK, Call, PhaseOf
<1> QED BY <1>1, <1>2, <1>3 DEF Abstract!Submit

LEMMA ReturnRefines ==
  ASSUME SafeInv, NEW r \in Requests, pc[r] \in InFlight,
         NEW res \in {"ok", "err", "timeout"}, Return(r, res), UNCHANGED wire,
         res = "ok" => Effects(r) = 1
  PROVE  Abstract!Answer(r) \/ Abstract!GiveUp(r)
<1>1. \A q \in Requests : Effects(q)' = Effects(q)
  BY DEF Effects
<1>2. PhaseOf(r) = "pending"
  BY DEF PhaseOf, InFlight
<1>3. pc'[r] = "done" /\ result'[r] = res
  BY DEF SafeInv, TypeOK, Return
<1>4. PhaseOf(r)' = IF res = "ok" THEN "answered" ELSE "failed"
  BY <1>3 DEF PhaseOf, InFlight
<1>5. \A q \in Requests \ {r} : PhaseOf(q)' = PhaseOf(q)
  BY DEF SafeInv, TypeOK, Return, PhaseOf
<1> QED BY <1>1, <1>2, <1>4, <1>5 DEF Abstract!Answer, Abstract!GiveUp

LEMMA InFlightRefines ==
  ASSUME SafeInv, NEW r \in Requests, pc[r] \in InFlight,
         NEW here \in InFlight, pc' = [pc EXCEPT ![r] = here], UNCHANGED result,
         \A q \in Requests : Effects(q)' = Effects(q)
  PROVE  UNCHANGED Abstract!vars
<1>1. \A q \in Requests : PhaseOf(q)' = PhaseOf(q)
  <2> SUFFICES ASSUME NEW q \in Requests PROVE PhaseOf(q)' = PhaseOf(q)
    OBVIOUS
  <2>1. CASE q = r
    BY <2>1 DEF SafeInv, TypeOK, PhaseOf, InFlight
  <2>2. CASE q # r
    BY <2>2 DEF SafeInv, TypeOK, PhaseOf
  <2> QED BY <2>1, <2>2
<1> QED BY <1>1, StutterRefines

LEMMA FailRefines ==
  ASSUME SafeInv, NEW r \in Requests, pc[r] \in InFlight, NEW how, Fail(r, how)
  PROVE  Abstract!GiveUp(r) \/ Abstract!Answer(r) \/ UNCHANGED Abstract!vars
<1>1. CASE RedialLeft(tries[r]) /\ MayRetry(how, reused[r])
  <2>1. \A q \in Requests : Effects(q)' = Effects(q)
    BY DEF Fail, Effects
  <2>2. "lookup" \in InFlight /\ pc' = [pc EXCEPT ![r] = "lookup"] /\ UNCHANGED result
    BY <1>1 DEF Fail, InFlight
  <2> QED BY <2>1, <2>2, InFlightRefines
<1>2. CASE ~(RedialLeft(tries[r]) /\ MayRetry(how, reused[r]))
  BY <1>2, ReturnRefines DEF Fail
<1> QED BY <1>1, <1>2

LEMMA ReplyRefines ==
  ASSUME SafeInv, NEW r \in Requests, Reply(r)
  PROVE  Abstract!GiveUp(r) \/ Abstract!Answer(r)
<1>1. tries[r] \in {1, 2} /\ wire[r][tries[r]] = "applied"
  BY DEF SafeInv, TypeOK, Attempts, Reply
<1>2. Effects(r) = 1
  BY <1>1 DEF SafeInv, SentOnce, Effects
<1> QED BY <1>2, ReturnRefines DEF Reply, InFlight

LEMMA ApplyRefines ==
  ASSUME SafeInv, NEW r \in Requests, NEW k \in Attempts, Apply(r, k)
  PROVE  Abstract!TakeEffect(r)
<1>1. \A q \in Requests : PhaseOf(q)' = PhaseOf(q)
  BY DEF Apply, PhaseOf
<1>2. k \in {1, 2} /\ tries[r] \in {1, 2}
  BY DEF SafeInv, TypeOK, Attempts
<1>3. wire[r][k] = "delivered" /\ wire' = [wire EXCEPT ![r][k] = "applied"]
  BY DEF Apply
<1>4. k = tries[r]
  BY <1>2, <1>3 DEF SafeInv, SentOnce
<1>5. PhaseOf(r) # "idle"
  <2>1. pc[r] # "idle"
    BY <1>3, <1>4 DEF SafeInv, SentOnce
  <2> QED BY <2>1 DEF SafeInv, TypeOK, PhaseOf
<1>6. wire[r][1] # "applied" /\ wire[r][2] # "applied"
  BY <1>2, <1>3, <1>4 DEF SafeInv, SentOnce
<1>7. wire'[r][k] = "applied" /\ \A j \in Attempts \ {k} : wire'[r][j] = wire[r][j]
  BY <1>3 DEF SafeInv, TypeOK
<1>8. Effects(r) = 0 /\ Effects(r)' = 1
  BY <1>2, <1>6, <1>7 DEF Effects, Attempts
<1>9. \A q \in Requests \ {r} : Effects(q)' = Effects(q)
  BY <1>3 DEF SafeInv, TypeOK, Effects
<1> QED BY <1>1, <1>5, <1>8, <1>9 DEF Abstract!TakeEffect

LEMMA WireRefines ==
  ASSUME SafeInv, UNCHANGED <<pc, result>>,
         \A r \in Requests, k \in Attempts :
           wire'[r][k] = "applied" <=> wire[r][k] = "applied"
  PROVE  UNCHANGED Abstract!vars
<1>1. \A r \in Requests : Effects(r)' = Effects(r)
  BY EffectsOfWire
<1>2. \A r \in Requests : PhaseOf(r)' = PhaseOf(r)
  BY DEF PhaseOf
<1> QED BY <1>1, <1>2, StutterRefines

LEMMA NextRefines == SafeInv /\ [Next]_vars => [Abstract!Next]_(Abstract!vars)
<1> SUFFICES ASSUME SafeInv, [Next]_vars PROVE Abstract!Next \/ UNCHANGED Abstract!vars
  OBVIOUS
<1>1. ASSUME NEW r \in Requests, Call(r) PROVE Abstract!Next
  BY <1>1, CallRefines DEF Abstract!Next
<1>2. ASSUME NEW r \in Requests,
             \/ Lookup(r) \/ Connect(r) \/ Put(r) \/ Record(r)
             \/ OpenStream(r) \/ WriteRequest(r)
      PROVE UNCHANGED Abstract!vars
  <2>1. \A q \in Requests : Effects(q)' = Effects(q)
    <3>1. ASSUME NEW q \in Requests, NEW k \in Attempts
          PROVE  wire'[q][k] = "applied" <=> wire[q][k] = "applied"
      <4>1. CASE Lookup(r) \/ Connect(r) \/ Put(r) \/ Record(r)
        BY <4>1 DEF Lookup, Connect, Put, Record
      <4>2. CASE OpenStream(r) \/ WriteRequest(r)
        <5>1. PICK s \in {"open", "sent"} : wire' = [wire EXCEPT ![r][tries[r]] = s]
          BY <4>2 DEF OpenStream, WriteRequest
        <5>2. wire[r][tries[r]] \in {"none", "open"}
          BY <4>2 DEF SafeInv, SentOnce, OpenStream, WriteRequest
        <5> QED BY <5>1, <5>2 DEF SafeInv, TypeOK
      <4> QED BY <1>2, <4>1, <4>2
    <3> QED BY <3>1, EffectsOfWire
  <2>2. pc[r] \in InFlight /\ UNCHANGED result
    BY <1>2 DEF Lookup, Connect, Put, Record, OpenStream, WriteRequest, InFlight
  <2>3. PICK here \in InFlight : pc' = [pc EXCEPT ![r] = here]
    BY <1>2 DEF Lookup, Connect, Put, Record, OpenStream, WriteRequest, InFlight
  <2> QED BY <2>1, <2>2, <2>3, InFlightRefines
<1>3. ASSUME NEW r \in Requests, SendFails(r) \/ ReadFails(r)
      PROVE Abstract!Next \/ UNCHANGED Abstract!vars
  <2>1. pc[r] \in InFlight
    BY <1>3 DEF SendFails, ReadFails, InFlight
  <2>2. Fail(r, "BeforeSend") \/ Fail(r, "AfterSend")
    BY <1>3 DEF SendFails, ReadFails
  <2> QED BY <2>1, <2>2, FailRefines DEF Abstract!Next
<1>4. ASSUME NEW r \in Requests, Reply(r) PROVE Abstract!Next
  BY <1>4, ReplyRefines DEF Abstract!Next
<1>5. ASSUME NEW r \in Requests, ConnectFails(r) \/ UselessReply(r) \/ TimesOut(r)
      PROVE Abstract!Next
  <2>1. /\ pc[r] \in InFlight
        /\ UNCHANGED wire
        /\ Return(r, "err") \/ Return(r, "timeout")
    BY <1>5 DEF ConnectFails, UselessReply, TimesOut, Awaits, InFlight
  <2>2. Abstract!Answer(r) \/ Abstract!GiveUp(r)
    BY <2>1, ReturnRefines
  <2> QED BY <2>2 DEF Abstract!Next
<1>6. ASSUME NEW r \in Requests, NEW k \in Attempts, Apply(r, k) PROVE Abstract!Next
  BY <1>6, ApplyRefines DEF Abstract!Next
<1>7. ASSUME NEW r \in Requests, NEW k \in Attempts, Deliver(r, k)
      PROVE UNCHANGED Abstract!vars
  BY <1>7, WireRefines DEF Deliver, SafeInv, TypeOK
<1>8. ASSUME NEW p \in Peers, PeerRestarts(p) PROVE UNCHANGED Abstract!vars
  BY <1>8, WireRefines DEF PeerRestarts
<1>9. CASE \/ \E p \in Peers : PeerDialsIn(p)
           \/ \E c \in Conns : PeerCloses(c) \/ IdleTimeout(c)
           \/ CloseAll
           \/ Stabilise
           \/ UNCHANGED vars
  <2>1. UNCHANGED <<pc, result, wire>>
    BY <1>9 DEF PeerDialsIn, PeerCloses, IdleTimeout, CloseAll, Stabilise, vars
  <2> QED BY <2>1, WireRefines
<1> QED
  BY <1>1, <1>2, <1>3, <1>4, <1>5, <1>6, <1>7, <1>8, <1>9 DEF Next, Work, Progress

(* Every behaviour of Dial is one of AtMostOnce: what a caller sees of the *)
(* core never shows a request applied twice, answered without having been  *)
(* applied, or applied without having been submitted.                      *)
THEOREM DialImplementsAtMostOnce == Spec => ImplementsAtMostOnce
BY InitRefines, NextRefines, SafeInvHolds, PTL DEF Spec, ImplementsAtMostOnce, Abstract!Spec
=============================================================================
