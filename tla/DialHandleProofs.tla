-------------------------- MODULE DialHandleProofs --------------------------
(***************************************************************************)
(* Theorems about Dial's connections and about the peer table.             *)
(*                                                                         *)
(* HandleInv says who holds which connection: what is open is held, what   *)
(* we closed is not, and after close_all nothing is left to hold one.      *)
(* CalmInv follows a request submitted to a reachable peer: its connection *)
(* is open, or it is a dead one that its redial still covers.  PutInv says *)
(* that no thread puts a dead one under it.                                *)
(***************************************************************************)
EXTENDS DialProofs

\* A request that has not yet got a connection for this attempt holds none.
NoEarlyHandle ==
  \A r \in Requests :
    /\ pc[r] \in {"idle", "lookup", "dial"} => conn[r][tries[r]] = NoConn
    /\ tries[r] = 1 => conn[r][2] = NoConn

DroppedIsUnheld == \A c \in Conns : link[c] = "dropped" => ~Held(c)

OpenIsHeld == \A c \in Conns : link[c] \in {"open", "lost"} => Held(c)

FreedIsEmpty ==
  freed => /\ \A p \in Peers : cache[p] = NoConn
           /\ \A r \in Requests : pc[r] \notin InFlight

HandleInv == NoEarlyHandle /\ DroppedIsUnheld /\ OpenIsHeld /\ FreedIsEmpty

-----------------------------------------------------------------------------
(* Every step preserves HandleInv.  Most steps only let handles go; the    *)
(* rest change one request's own.                                          *)

LEMMA InitHandles == Init => HandleInv
<1> SUFFICES ASSUME Init PROVE HandleInv
  OBVIOUS
<1>1. ASSUME NEW r \in Requests
      PROVE  tries[r] = 1 /\ conn[r][1] = NoConn /\ conn[r][2] = NoConn
  <2>1. tries[r] = 1 /\ conn[r] = [k \in Attempts |-> NoConn]
    BY DEF Init
  <2> QED BY <2>1 DEF Attempts
<1>2. NoEarlyHandle
  BY <1>1 DEF NoEarlyHandle
<1>3. DroppedIsUnheld /\ OpenIsHeld /\ FreedIsEmpty
  BY DEF Init, DroppedIsUnheld, OpenIsHeld, FreedIsEmpty
<1> QED BY <1>2, <1>3 DEF HandleInv

\* ReleaseUnheld drops what nobody holds any more, and only that.
LEMMA ReleaseHandles ==
  ASSUME DroppedIsUnheld, NEW lk, ReleaseUnheld(lk),
         \A c \in Conns : Held(c)' => Held(c) \/ lk[c] = "open",
         \A c \in Conns : lk[c] = link[c] \/ lk[c] = "open"
  PROVE  DroppedIsUnheld' /\ OpenIsHeld'
<1>1. ASSUME NEW c \in Conns, link'[c] = "dropped" PROVE ~Held(c)'
  <2>1. CASE lk[c] \in {"open", "lost"}
    BY <1>1, <2>1 DEF ReleaseUnheld
  <2>2. CASE lk[c] \notin {"open", "lost"}
    BY <1>1, <2>2 DEF ReleaseUnheld, DroppedIsUnheld
  <2> QED BY <2>1, <2>2
<1>2. ASSUME NEW c \in Conns, link'[c] \in {"open", "lost"} PROVE Held(c)'
  BY <1>2 DEF ReleaseUnheld
<1> QED BY <1>1, <1>2 DEF DroppedIsUnheld, OpenIsHeld

\* A request in flight that moves on, or returns, takes no new handle.
LEMMA FewerHandles ==
  ASSUME SafeInv, NEW r \in Requests, pc[r] \in InFlight, NEW here,
         pc' = [pc EXCEPT ![r] = here], UNCHANGED conn,
         cache' = cache \/ cache' = Invalidated(PeerOf[r]),
         NEW c \in Conns, Held(c)'
  PROVE  Held(c)
<1>1. CASE Cached(c)'
  <2>1. PICK p \in Peers : cache'[p] = c
    BY <1>1 DEF Cached
  <2>2. cache[p] = c
    BY <2>1, NoConnAssumption, Addressed DEF SafeInv, TypeOK, Invalidated
  <2> QED BY <2>2 DEF Held, Cached
<1>2. CASE InUse(c)'
  <2>1. PICK q \in Requests : pc'[q] \in InFlight /\ \E k \in Attempts : conn[q][k] = c
    BY <1>2 DEF InUse
  <2>2. pc[q] \in InFlight
    BY <2>1 DEF SafeInv, TypeOK
  <2> QED BY <2>1, <2>2 DEF Held, InUse
<1> QED BY <1>1, <1>2 DEF Held

LEMMA ReturnHandles ==
  ASSUME SafeInv, HandleInv, NEW r \in Requests, pc[r] \in InFlight, NEW res,
         Return(r, res), UNCHANGED <<conn, tries, freed>>, ReleaseUnheld(link),
         cache' = cache \/ cache' = Invalidated(PeerOf[r])
  PROVE  HandleInv'
<1>1. \A c \in Conns : Held(c)' => Held(c)
  BY FewerHandles DEF Return
<1>2. DroppedIsUnheld' /\ OpenIsHeld'
  BY <1>1, ReleaseHandles DEF HandleInv
<1>3. NoEarlyHandle'
  BY DEF SafeInv, TypeOK, HandleInv, NoEarlyHandle, Return
<1>4. FreedIsEmpty'
  BY DEF HandleInv, FreedIsEmpty
<1> QED BY <1>2, <1>3, <1>4 DEF HandleInv

LEMMA FailHandles ==
  ASSUME SafeInv, HandleInv, NEW r \in Requests, pc[r] \in InFlight, NEW how, Fail(r, how)
  PROVE  HandleInv'
<1>1. cache' = cache \/ cache' = Invalidated(PeerOf[r])
  BY DEF Fail
<1>2. CASE RedialLeft(tries[r]) /\ MayRetry(how, reused[r])
  <2>1. /\ pc' = [pc EXCEPT ![r] = "lookup"]
        /\ tries[r] = 1
        /\ tries' = [tries EXCEPT ![r] = 2]
        /\ UNCHANGED <<conn, freed>>
        /\ ReleaseUnheld(link)
    BY <1>2 DEF Fail, RedialLeft
  <2>2. \A c \in Conns : Held(c)' => Held(c)
    BY <1>1, <2>1, FewerHandles
  <2>3. DroppedIsUnheld' /\ OpenIsHeld'
    BY <2>1, <2>2, ReleaseHandles DEF HandleInv
  <2>4. NoEarlyHandle'
    BY <2>1 DEF SafeInv, TypeOK, HandleInv, NoEarlyHandle
  <2>5. FreedIsEmpty'
    BY <2>1 DEF HandleInv, FreedIsEmpty
  <2> QED BY <2>3, <2>4, <2>5 DEF HandleInv
<1>3. CASE ~(RedialLeft(tries[r]) /\ MayRetry(how, reused[r]))
  BY <1>1, <1>3, ReturnHandles DEF Fail
<1> QED BY <1>2, <1>3

LEMMA CallHandles ==
  ASSUME SafeInv, HandleInv, NEW r \in Requests, Call(r)
  PROVE  HandleInv'
<1>1. tries[r] = 1 /\ conn[r][1] = NoConn /\ conn[r][2] = NoConn
  BY DEF SafeInv, SentOnce, HandleInv, NoEarlyHandle, Call
<1>2. ASSUME NEW c \in Conns PROVE Held(c)' <=> Held(c)
  <2>1. \A k \in Attempts : conn[r][k] # c
    BY <1>1, NoConnAssumption DEF Attempts
  <2>2. \A q \in Requests \ {r} : pc'[q] = pc[q]
    BY DEF SafeInv, TypeOK, Call
  <2>3. InUse(c)' <=> InUse(c)
    BY <2>1, <2>2 DEF InUse, Call
  <2> QED BY <2>3 DEF Held, Cached, Call
<1>3. DroppedIsUnheld' /\ OpenIsHeld'
  BY <1>2 DEF HandleInv, DroppedIsUnheld, OpenIsHeld, Call
<1>4. NoEarlyHandle'
  BY <1>1 DEF SafeInv, TypeOK, HandleInv, NoEarlyHandle, Call
<1>5. FreedIsEmpty'
  BY DEF HandleInv, FreedIsEmpty, Call
<1> QED BY <1>3, <1>4, <1>5 DEF HandleInv

\* A clone of what the cache holds is a further handle of it.
LEMMA LookupHandles ==
  ASSUME SafeInv, HandleInv, NEW r \in Requests, Lookup(r)
  PROVE  HandleInv'
<1> DEFINE found == cache[PeerOf[r]]
<1>1. tries[r] \in Attempts /\ conn[r][tries[r]] = NoConn /\ PeerOf[r] \in Peers
  BY Addressed DEF SafeInv, TypeOK, HandleInv, NoEarlyHandle, Lookup
<1>2. /\ \A q \in Requests \ {r} : conn'[q] = conn[q] /\ pc'[q] = pc[q]
      /\ \A k \in Attempts \ {tries[r]} : conn'[r][k] = conn[r][k]
      /\ conn'[r][tries[r]] = found
      /\ pc[r] \in InFlight /\ pc'[r] \in InFlight
      /\ UNCHANGED <<cache, link, tries, freed>>
  BY <1>1 DEF SafeInv, TypeOK, Lookup, InFlight
<1>3. ASSUME NEW c \in Conns PROVE Held(c)' <=> Held(c)
  <2>1. CASE c = found
    BY <1>1, <1>2, <2>1 DEF Held, Cached
  <2>2. CASE c # found
    <3>1. conn[r][tries[r]] # c
      BY <1>1, NoConnAssumption
    <3>2. \A q \in Requests, k \in Attempts : conn'[q][k] = c <=> conn[q][k] = c
      BY <1>2, <2>2, <3>1
    <3>3. \A q \in Requests : pc'[q] \in InFlight <=> pc[q] \in InFlight
      BY <1>2
    <3>4. InUse(c)' <=> InUse(c)
      BY <3>2, <3>3 DEF InUse
    <3> QED BY <1>2, <3>4 DEF Held, Cached
  <2> QED BY <2>1, <2>2
<1>4. DroppedIsUnheld' /\ OpenIsHeld'
  BY <1>2, <1>3 DEF HandleInv, DroppedIsUnheld, OpenIsHeld
<1>5. NoEarlyHandle'
  <2>1. pc' = [pc EXCEPT ![r] = IF found = NoConn THEN "dial" ELSE "open"]
    BY DEF Lookup
  <2>2. tries[r] = 1 => conn'[r][2] = NoConn
    BY <1>2 DEF HandleInv, NoEarlyHandle, Attempts
  <2>3. pc'[r] \in {"idle", "lookup", "dial"} => conn'[r][tries[r]] = NoConn
    BY <1>2, <2>1 DEF SafeInv, TypeOK
  <2> QED BY <1>2, <2>2, <2>3 DEF HandleInv, NoEarlyHandle
<1>6. FreedIsEmpty'
  BY <1>2 DEF HandleInv, FreedIsEmpty
<1> QED BY <1>4, <1>5, <1>6 DEF HandleInv

\* The connection just dialled is open, and its dialler holds it.
LEMMA ConnectHandles ==
  ASSUME SafeInv, HandleInv, NEW r \in Requests, Connect(r)
  PROVE  HandleInv'
<1> DEFINE new == <<r, tries[r]>>
<1>1. tries[r] \in Attempts /\ new \in Conns /\ conn[r][tries[r]] = NoConn
  BY DialledConn DEF SafeInv, TypeOK, HandleInv, NoEarlyHandle, Connect
<1>2. /\ \A q \in Requests \ {r} : conn'[q] = conn[q] /\ pc'[q] = pc[q]
      /\ \A k \in Attempts \ {tries[r]} : conn'[r][k] = conn[r][k]
      /\ conn'[r][tries[r]] = new
      /\ pc[r] \in InFlight /\ pc'[r] = "put" /\ pc'[r] \in InFlight
      /\ link'[new] = "open" /\ \A c \in Conns \ {new} : link'[c] = link[c]
      /\ UNCHANGED <<cache, tries, freed>>
  BY <1>1 DEF SafeInv, TypeOK, Connect, InFlight
<1> HIDE DEF new
<1>3. ASSUME NEW c \in Conns, c = new PROVE Held(c)'
  BY <1>1, <1>2, <1>3 DEF Held, InUse
<1>4. ASSUME NEW c \in Conns \ {new} PROVE Held(c)' <=> Held(c)
  <2>1. conn[r][tries[r]] # c
    BY <1>1, NoConnAssumption
  <2>2. \A q \in Requests, k \in Attempts : conn'[q][k] = c <=> conn[q][k] = c
    BY <1>2, <2>1
  <2>3. \A q \in Requests : pc'[q] \in InFlight <=> pc[q] \in InFlight
    BY <1>2
  <2>4. InUse(c)' <=> InUse(c)
    BY <2>2, <2>3 DEF InUse
  <2> QED BY <1>2, <2>4 DEF Held, Cached
<1>5. DroppedIsUnheld' /\ OpenIsHeld'
  BY <1>2, <1>3, <1>4 DEF HandleInv, DroppedIsUnheld, OpenIsHeld
<1>6. NoEarlyHandle'
  <2>1. tries[r] = 1 => conn'[r][2] = NoConn
    BY <1>2 DEF HandleInv, NoEarlyHandle, Attempts
  <2> QED BY <1>2, <2>1 DEF HandleInv, NoEarlyHandle
<1>7. FreedIsEmpty'
  BY <1>2 DEF HandleInv, FreedIsEmpty
<1> QED BY <1>5, <1>6, <1>7 DEF HandleInv

\* put hands the cache a clone of what its caller holds.
LEMMA PutHandles ==
  ASSUME SafeInv, HandleInv, NEW r \in Requests, Put(r)
  PROVE  HandleInv'
<1>1. tries[r] \in Attempts /\ PeerOf[r] \in Peers
  BY Addressed DEF SafeInv, TypeOK
<1>2. /\ pc[r] = "put" /\ pc'[r] = "record"
      /\ \A q \in Requests \ {r} : pc'[q] = pc[q]
      /\ \A p \in Peers : cache'[p] = cache[p] \/ cache'[p] = conn[r][tries[r]]
      /\ UNCHANGED <<conn, tries, freed>>
      /\ ReleaseUnheld(link)
  BY <1>1 DEF SafeInv, TypeOK, Put
<1>3. \A q \in Requests : pc'[q] \in InFlight <=> pc[q] \in InFlight
  BY <1>2 DEF InFlight
<1>4. ASSUME NEW c \in Conns, Held(c)' PROVE Held(c)
  <2>1. InUse(c)' => InUse(c)
    BY <1>2, <1>3 DEF InUse
  <2>2. ASSUME NEW p \in Peers, cache'[p] = c PROVE Held(c)
    <3>1. CASE cache[p] = c
      BY <3>1 DEF Held, Cached
    <3>2. CASE conn[r][tries[r]] = c
      BY <1>1, <1>2, <3>2 DEF Held, InUse, InFlight
    <3> QED BY <1>2, <2>2, <3>1, <3>2
  <2> QED BY <1>4, <2>1, <2>2 DEF Held, Cached
<1>5. DroppedIsUnheld' /\ OpenIsHeld'
  BY <1>2, <1>4, ReleaseHandles DEF HandleInv
<1>6. NoEarlyHandle'
  BY <1>2 DEF HandleInv, NoEarlyHandle
<1>7. FreedIsEmpty'
  BY <1>2 DEF HandleInv, FreedIsEmpty, InFlight
<1> QED BY <1>5, <1>6, <1>7 DEF HandleInv

\* Steps that leave the handles alone, and at most end a connection.
LEMMA SameHandles ==
  ASSUME HandleInv, UNCHANGED <<cache, conn, tries, freed>>,
         \A r \in Requests :
           \/ pc'[r] = pc[r]
           \/ pc[r] \in {"record", "open", "write"} /\ pc'[r] \in {"open", "write", "read"},
         \A c \in Conns : link'[c] = "dropped" => link[c] = "dropped",
         \A c \in Conns : link'[c] \in {"open", "lost"} => link[c] \in {"open", "lost"}
  PROVE  HandleInv'
<1>1. \A r \in Requests : pc'[r] \in InFlight <=> pc[r] \in InFlight
  BY DEF InFlight
<1>2. ASSUME NEW c \in Conns PROVE Held(c)' <=> Held(c)
  BY <1>1 DEF Held, Cached, InUse
<1>3. DroppedIsUnheld' /\ OpenIsHeld'
  BY <1>2 DEF HandleInv, DroppedIsUnheld, OpenIsHeld
<1>4. NoEarlyHandle'
  BY DEF HandleInv, NoEarlyHandle
<1>5. FreedIsEmpty'
  BY <1>1 DEF HandleInv, FreedIsEmpty
<1> QED BY <1>3, <1>4, <1>5 DEF HandleInv

LEMMA CloseAllHandles ==
  ASSUME SafeInv, HandleInv, CloseAll
  PROVE  HandleInv'
<1>1. \A c \in Conns : ~Held(c)'
  BY NoConnAssumption DEF CloseAll, Held, Cached, InUse
<1>2. \A c \in Conns : link[c] \in {"open", "lost"} => link'[c] = "dropped"
  BY DEF CloseAll, HandleInv, OpenIsHeld, Held, InUse
<1>3. \A c \in Conns : link'[c] \notin {"open", "lost"}
  BY <1>2 DEF CloseAll
<1>4. NoEarlyHandle' /\ FreedIsEmpty'
  BY DEF HandleInv, NoEarlyHandle, FreedIsEmpty, CloseAll
<1> QED BY <1>1, <1>3, <1>4 DEF HandleInv, DroppedIsUnheld, OpenIsHeld

LEMMA NextHandles == SafeInv /\ HandleInv /\ [Next]_vars => HandleInv'
<1> SUFFICES ASSUME SafeInv, HandleInv, [Next]_vars PROVE HandleInv'
  OBVIOUS
<1>1. ASSUME NEW r \in Requests, Call(r) \/ Lookup(r) \/ Connect(r) \/ Put(r) PROVE HandleInv'
  BY <1>1, CallHandles, LookupHandles, ConnectHandles, PutHandles
<1>2. ASSUME NEW r \in Requests, Record(r) \/ OpenStream(r) \/ WriteRequest(r) PROVE HandleInv'
  BY <1>2, SameHandles DEF Record, OpenStream, WriteRequest, SafeInv, TypeOK
<1>3. ASSUME NEW r \in Requests, SendFails(r) \/ ReadFails(r) PROVE HandleInv'
  <2>1. pc[r] \in InFlight
    BY <1>3 DEF SendFails, ReadFails, InFlight
  <2> QED BY <1>3, <2>1, FailHandles DEF SendFails, ReadFails
<1>4. ASSUME NEW r \in Requests, Reply(r) \/ UselessReply(r) \/ ConnectFails(r) \/ TimesOut(r)
      PROVE  HandleInv'
  <2>1. pc[r] \in InFlight
    BY <1>4 DEF Reply, UselessReply, ConnectFails, TimesOut, Awaits, InFlight
  <2>2. /\ UNCHANGED <<cache, conn, tries, freed>>
        /\ ReleaseUnheld(link)
        /\ Return(r, "ok") \/ Return(r, "err") \/ Return(r, "timeout")
    BY <1>4 DEF Reply, UselessReply, ConnectFails, TimesOut
  <2> QED BY <2>1, <2>2, ReturnHandles
<1>5. ASSUME NEW r \in Requests, NEW k \in Attempts, Deliver(r, k) \/ Apply(r, k) PROVE HandleInv'
  BY <1>5, SameHandles DEF Deliver, Apply
<1>6. ASSUME NEW p \in Peers, PeerRestarts(p) PROVE HandleInv'
  BY <1>6, SameHandles DEF PeerRestarts
<1>7. ASSUME NEW c \in Conns, PeerCloses(c) \/ IdleTimeout(c) PROVE HandleInv'
  BY <1>7, SameHandles DEF PeerCloses, IdleTimeout, SafeInv, TypeOK
<1>8. CASE Stabilise \/ (\E p \in Peers : PeerDialsIn(p)) \/ UNCHANGED vars
  BY <1>8, SameHandles DEF Stabilise, PeerDialsIn, vars
<1>9. CASE CloseAll
  BY <1>9, CloseAllHandles
<1> QED
  BY <1>1, <1>2, <1>3, <1>4, <1>5, <1>6, <1>7, <1>8, <1>9 DEF Next, Work, Progress

LEMMA HandleInvHolds == Spec => [](SafeInv /\ HandleInv)
BY InitSafe, NextSafe, InitHandles, NextHandles, PTL DEF Spec

LEMMA HandlesClosed == HandleInv => OnlyUnheldIsClosed
BY NoConnAssumption DEF HandleInv, DroppedIsUnheld, OpenIsHeld, FreedIsEmpty,
  OnlyUnheldIsClosed, Held, Cached, InUse

(* Whatever order the requests, their failures and the peer's come in, a   *)
(* connection closed by invalidate, put or close_all is in nobody's hands, *)
(* and qh_core_free leaves none open.                                      *)
THEOREM OnlyUnheldIsClosedHolds == Spec => []OnlyUnheldIsClosed
BY HandleInvHolds, HandlesClosed, PTL

-----------------------------------------------------------------------------
\* A handle is of a connection that was dialled, to the peer it is used for.
HandleOfPeer ==
  /\ \A p \in Peers : cache[p] # NoConn =>
       PeerOf[cache[p][1]] = p /\ link[cache[p]] # "none"
  /\ \A r \in Requests, k \in Attempts : conn[r][k] # NoConn =>
       PeerOf[conn[r][k][1]] = PeerOf[r] /\ link[conn[r][k]] # "none"

\* A request that holds a connection has one.
HasHandle ==
  \A r \in Requests :
    pc[r] \in {"put", "record", "open", "write", "read"} => conn[r][tries[r]] # NoConn

NoResultYet == \A r \in Requests : pc[r] # "done" => result[r] = "none"

(* A dead connection that a calm request may still meet is covered by its  *)
(* redial: it came from the cache, in a first attempt, nothing yet sent.   *)
Covered(r) == tries[r] = 1 /\ reused[r]

CalmReachable(r) ==
  /\ stable
  /\ pc[r] # "idle"
  /\ \A c \in Conns : PeerOf[c[1]] = PeerOf[r] => link[c] # "lost"

CalmConnection(r) ==
  /\ pc[r] = "lookup" /\ ~Covered(r) /\ cache[PeerOf[r]] # NoConn => link[cache[PeerOf[r]]] = "open"
  /\ pc[r] = "open" /\ ~Covered(r) => link[conn[r][tries[r]]] = "open"
  /\ pc[r] \in {"put", "record", "write", "read"} => link[conn[r][tries[r]]] = "open"

CalmDone(r) == pc[r] = "done" => result[r] = "ok"

CalmInv ==
  \A r \in Requests : calm[r] => CalmReachable(r) /\ CalmConnection(r) /\ CalmDone(r)

StaleInv == HandleOfPeer /\ HasHandle /\ NoResultYet /\ CalmInv

\* What is about to be cached for the peer of a calm request is alive.
PutInv == \A r \in Requests : calm[r] => ~DiedUnput(PeerOf[r])

-----------------------------------------------------------------------------
\* HandleOfPeer, HasHandle and NoResultYet, which hold of every request.

HandlesSound == HandleOfPeer /\ HasHandle /\ NoResultYet

LEMMA InitStale == Init => StaleInv
<1> SUFFICES ASSUME Init PROVE StaleInv
  OBVIOUS
<1>1. HandleOfPeer
  <2>1. \A r \in Requests, k \in Attempts : conn[r][k] = NoConn
    BY DEF Init
  <2>2. \A p \in Peers : cache[p] = NoConn
    BY DEF Init
  <2> QED BY <2>1, <2>2 DEF HandleOfPeer
<1>2. HasHandle /\ NoResultYet /\ CalmInv
  BY DEF Init, HasHandle, NoResultYet, CalmInv
<1> QED BY <1>1, <1>2 DEF StaleInv

\* No step takes a connection back to before it was dialled.
LEMMA ReleaseFacts ==
  ASSUME NEW lk, ReleaseUnheld(lk)
  PROVE  /\ \A c \in Conns : link'[c] = "none" => lk[c] = "none"
         /\ \A c \in Conns : link'[c] = "lost" => lk[c] = "lost"
         /\ \A c \in Conns : Held(c)' => link'[c] = lk[c]
<1>1. \A c \in Conns : link'[c] = IF lk[c] \in {"open", "lost"} /\ ~Held(c)' THEN "dropped" ELSE lk[c]
  BY DEF ReleaseUnheld
<1> QED BY <1>1

\* Steps that leave every handle where it is, or only empty the cache.
LEMMA KeptSound ==
  ASSUME SafeInv, HandlesSound, UNCHANGED conn,
         \A p \in Peers : cache'[p] \in {cache[p], NoConn},
         \A c \in Conns : link'[c] = "none" => link[c] = "none"
  PROVE  HandleOfPeer'
<1>1. ASSUME NEW p \in Peers, cache'[p] # NoConn
      PROVE  PeerOf[cache'[p][1]] = p /\ link'[cache'[p]] # "none"
  BY <1>1 DEF SafeInv, TypeOK, HandlesSound, HandleOfPeer
<1>2. ASSUME NEW r \in Requests, NEW k \in Attempts, conn'[r][k] # NoConn
      PROVE  PeerOf[conn'[r][k][1]] = PeerOf[r] /\ link'[conn'[r][k]] # "none"
  <2>1. conn[r][k] \in Conns
    BY <1>2 DEF SafeInv, TypeOK
  <2> QED BY <1>2, <2>1 DEF HandlesSound, HandleOfPeer
<1> QED BY <1>1, <1>2 DEF HandleOfPeer

LEMMA ReturnSound ==
  ASSUME SafeInv, HandlesSound, NEW r \in Requests, NEW res, Return(r, res),
         UNCHANGED <<conn, tries>>, ReleaseUnheld(link),
         \A p \in Peers : cache'[p] \in {cache[p], NoConn}
  PROVE  HandlesSound'
<1>1. HandleOfPeer'
  BY KeptSound, ReleaseFacts
<1>2. HasHandle' /\ NoResultYet'
  BY DEF SafeInv, TypeOK, HandlesSound, HasHandle, NoResultYet, Return
<1> QED BY <1>1, <1>2 DEF HandlesSound

\* What a failing attempt does to the cache.
LEMMA FailCache ==
  ASSUME SafeInv, NEW r \in Requests, NEW how, Fail(r, how)
  PROVE  \A p \in Peers : cache'[p] \in {cache[p], NoConn}
BY DEF SafeInv, TypeOK, Fail, Invalidated

LEMMA FailSound ==
  ASSUME SafeInv, HandlesSound, NEW r \in Requests, pc[r] \in InFlight, NEW how, Fail(r, how)
  PROVE  HandlesSound'
<1>1. HandleOfPeer'
  BY KeptSound, ReleaseFacts, FailCache DEF Fail
<1>2. CASE RedialLeft(tries[r]) /\ MayRetry(how, reused[r])
  BY <1>1, <1>2 DEF SafeInv, TypeOK, HandlesSound, HasHandle, NoResultYet, Fail, InFlight
<1>3. CASE ~(RedialLeft(tries[r]) /\ MayRetry(how, reused[r]))
  BY <1>3, ReturnSound, FailCache DEF Fail
<1> QED BY <1>2, <1>3

LEMMA LookupSound ==
  ASSUME SafeInv, HandlesSound, NEW r \in Requests, Lookup(r)
  PROVE  HandlesSound'
<1> DEFINE found == cache[PeerOf[r]]
<1>1. tries[r] \in Attempts /\ PeerOf[r] \in Peers
  BY Addressed DEF SafeInv, TypeOK
<1>2. /\ \A q \in Requests \ {r} : conn'[q] = conn[q] /\ pc'[q] = pc[q]
      /\ \A k \in Attempts \ {tries[r]} : conn'[r][k] = conn[r][k]
      /\ conn'[r][tries[r]] = found
      /\ pc[r] = "lookup" /\ pc'[r] = IF found = NoConn THEN "dial" ELSE "open"
      /\ UNCHANGED <<cache, link, tries, result>>
  BY <1>1 DEF SafeInv, TypeOK, Lookup
<1>3. ASSUME NEW q \in Requests, NEW k \in Attempts, conn'[q][k] # NoConn
      PROVE  PeerOf[conn'[q][k][1]] = PeerOf[q] /\ link[conn'[q][k]] # "none"
  <2>1. CASE q = r /\ k = tries[r]
    BY <1>1, <1>2, <1>3, <2>1 DEF HandlesSound, HandleOfPeer
  <2>2. CASE ~(q = r /\ k = tries[r])
    BY <1>2, <1>3, <2>2 DEF HandlesSound, HandleOfPeer
  <2> QED BY <2>1, <2>2
<1>4. HandleOfPeer'
  BY <1>2, <1>3 DEF HandlesSound, HandleOfPeer
<1>5. HasHandle' /\ NoResultYet'
  BY <1>2 DEF HandlesSound, HasHandle, NoResultYet
<1> QED BY <1>4, <1>5 DEF HandlesSound

LEMMA ConnectSound ==
  ASSUME SafeInv, HandlesSound, NEW r \in Requests, Connect(r)
  PROVE  HandlesSound'
<1> DEFINE new == <<r, tries[r]>>
<1>1. tries[r] \in Attempts /\ new \in Conns /\ new # NoConn
  BY DialledConn, NoConnAssumption DEF SafeInv, TypeOK
<1>2. /\ \A q \in Requests \ {r} : conn'[q] = conn[q] /\ pc'[q] = pc[q]
      /\ \A k \in Attempts \ {tries[r]} : conn'[r][k] = conn[r][k]
      /\ conn'[r][tries[r]] = new
      /\ pc[r] = "dial" /\ pc'[r] = "put"
      /\ UNCHANGED <<cache, tries, result>>
  BY <1>1 DEF SafeInv, TypeOK, Connect
<1>3. /\ link'[new] # "none"
      /\ \A c \in Conns : link'[c] = "none" => link[c] = "none"
  BY <1>1 DEF SafeInv, TypeOK, Connect
<1>4. PeerOf[new[1]] = PeerOf[r]
  OBVIOUS
<1> HIDE DEF new
<1>5. ASSUME NEW q \in Requests, NEW k \in Attempts, conn'[q][k] # NoConn
      PROVE  PeerOf[conn'[q][k][1]] = PeerOf[q] /\ link'[conn'[q][k]] # "none"
  <2>1. CASE q = r /\ k = tries[r]
    BY <1>2, <1>3, <1>4, <2>1
  <2>2. CASE ~(q = r /\ k = tries[r])
    <3>1. conn'[q][k] = conn[q][k] /\ conn[q][k] \in Conns
      BY <1>2, <1>5, <2>2 DEF SafeInv, TypeOK
    <3> QED BY <1>3, <1>5, <3>1 DEF HandlesSound, HandleOfPeer
  <2> QED BY <2>1, <2>2
<1>6. ASSUME NEW p \in Peers, cache'[p] # NoConn
      PROVE  PeerOf[cache'[p][1]] = p /\ link'[cache'[p]] # "none"
  <2>1. cache'[p] = cache[p] /\ cache[p] \in Conns
    BY <1>2, <1>6 DEF SafeInv, TypeOK
  <2> QED BY <1>3, <1>6, <2>1 DEF HandlesSound, HandleOfPeer
<1>7. HandleOfPeer'
  BY <1>5, <1>6 DEF HandleOfPeer
<1>8. HasHandle' /\ NoResultYet'
  BY <1>1, <1>2 DEF HandlesSound, HasHandle, NoResultYet
<1> QED BY <1>7, <1>8 DEF HandlesSound

\* What a put does, and what it hands the cache.
LEMMA PutFacts ==
  ASSUME SafeInv, HandlesSound, NEW r \in Requests, Put(r)
  PROVE  /\ tries[r] \in Attempts
         /\ conn[r][tries[r]] \in Conns
         /\ PeerOf[conn[r][tries[r]][1]] = PeerOf[r]
         /\ link[conn[r][tries[r]]] # "none"
         /\ \A p \in Peers :
              cache'[p] = IF p = PeerOf[r] THEN conn[r][tries[r]] ELSE cache[p]
         /\ pc[r] = "put" /\ pc'[r] = "record"
         /\ \A q \in Requests \ {r} : pc'[q] = pc[q]
         /\ UNCHANGED <<conn, tries, reused, calm, result, stable>>
         /\ ReleaseUnheld(link)
<1>1. tries[r] \in Attempts /\ conn[r][tries[r]] # NoConn
  BY DEF SafeInv, TypeOK, HandlesSound, HasHandle, Put
<1>2. conn[r][tries[r]] \in Conns
  BY <1>1 DEF SafeInv, TypeOK
<1>3. PeerOf[conn[r][tries[r]][1]] = PeerOf[r] /\ link[conn[r][tries[r]]] # "none"
  BY <1>1 DEF HandlesSound, HandleOfPeer
<1>4. UNCHANGED <<conn, tries, reused, calm, result, stable>> /\ ReleaseUnheld(link)
  BY DEF Put
<1>5. /\ \A p \in Peers :
           cache'[p] = IF p = PeerOf[r] THEN conn[r][tries[r]] ELSE cache[p]
      /\ pc[r] = "put" /\ pc'[r] = "record"
      /\ \A q \in Requests \ {r} : pc'[q] = pc[q]
  BY DEF SafeInv, TypeOK, Put
<1> QED BY <1>1, <1>2, <1>3, <1>4, <1>5

LEMMA PutSound ==
  ASSUME SafeInv, HandlesSound, NEW r \in Requests, Put(r)
  PROVE  HandlesSound'
<1>1. \A c \in Conns : link'[c] = "none" => link[c] = "none"
  BY PutFacts, ReleaseFacts
<1>2. ASSUME NEW p \in Peers, cache'[p] # NoConn
      PROVE  PeerOf[cache'[p][1]] = p /\ link'[cache'[p]] # "none"
  <2>1. CASE p = PeerOf[r]
    BY <1>1, <2>1, PutFacts
  <2>2. CASE p # PeerOf[r]
    <3>1. cache'[p] = cache[p] /\ cache[p] \in Conns
      BY <1>2, <2>2, PutFacts DEF SafeInv, TypeOK
    <3> QED BY <1>1, <1>2, <3>1 DEF HandlesSound, HandleOfPeer
  <2> QED BY <2>1, <2>2
<1>3. ASSUME NEW q \in Requests, NEW k \in Attempts, conn'[q][k] # NoConn
      PROVE  PeerOf[conn'[q][k][1]] = PeerOf[q] /\ link'[conn'[q][k]] # "none"
  <2>1. conn'[q][k] = conn[q][k] /\ conn[q][k] \in Conns
    BY <1>3, PutFacts DEF SafeInv, TypeOK
  <2> QED BY <1>1, <1>3, <2>1 DEF HandlesSound, HandleOfPeer
<1>4. HandleOfPeer'
  BY <1>2, <1>3 DEF HandleOfPeer
<1>5. HasHandle' /\ NoResultYet'
  BY PutFacts DEF HandlesSound, HasHandle, NoResultYet
<1> QED BY <1>4, <1>5 DEF HandlesSound

LEMMA NextSound == SafeInv /\ HandlesSound /\ [Next]_vars => HandlesSound'
<1> SUFFICES ASSUME SafeInv, HandlesSound, [Next]_vars PROVE HandlesSound'
  OBVIOUS
<1>1. ASSUME NEW r \in Requests, Call(r) PROVE HandlesSound'
  <2>1. HandleOfPeer'
    BY <1>1, KeptSound DEF Call
  <2> QED BY <1>1, <2>1 DEF SafeInv, TypeOK, HandlesSound, HasHandle, NoResultYet, Call
<1>2. ASSUME NEW r \in Requests, Lookup(r) \/ Connect(r) \/ Put(r) PROVE HandlesSound'
  BY <1>2, LookupSound, ConnectSound, PutSound
<1>3. ASSUME NEW r \in Requests, Record(r) \/ OpenStream(r) \/ WriteRequest(r) PROVE HandlesSound'
  <2>1. HandleOfPeer'
    BY <1>3, KeptSound DEF Record, OpenStream, WriteRequest
  <2> QED
    BY <1>3, <2>1 DEF SafeInv, TypeOK, HandlesSound, HasHandle, NoResultYet, Record, OpenStream,
      WriteRequest
<1>4. ASSUME NEW r \in Requests, SendFails(r) \/ ReadFails(r) PROVE HandlesSound'
  <2>1. pc[r] \in InFlight
    BY <1>4 DEF SendFails, ReadFails, InFlight
  <2> QED BY <1>4, <2>1, FailSound DEF SendFails, ReadFails
<1>5. ASSUME NEW r \in Requests, Reply(r) \/ UselessReply(r) \/ ConnectFails(r) \/ TimesOut(r)
      PROVE  HandlesSound'
  <2>1. /\ UNCHANGED <<cache, conn, tries>>
        /\ ReleaseUnheld(link)
        /\ Return(r, "ok") \/ Return(r, "err") \/ Return(r, "timeout")
    BY <1>5 DEF Reply, UselessReply, ConnectFails, TimesOut
  <2> QED BY <2>1, ReturnSound
<1>6. CASE \/ \E r \in Requests, k \in Attempts : Deliver(r, k) \/ Apply(r, k)
           \/ \E p \in Peers : PeerRestarts(p) \/ PeerDialsIn(p)
           \/ \E c \in Conns : PeerCloses(c) \/ IdleTimeout(c)
           \/ CloseAll
           \/ Stabilise
           \/ UNCHANGED vars
  <2>1. /\ UNCHANGED <<conn, pc, tries, result>>
        /\ \A p \in Peers : cache'[p] \in {cache[p], NoConn}
    BY <1>6 DEF Deliver, Apply, PeerRestarts, PeerDialsIn, PeerCloses, IdleTimeout, CloseAll, Stabilise, vars
  <2>2. \A c \in Conns : link'[c] = "none" => link[c] = "none"
    BY <1>6 DEF Deliver, Apply, PeerRestarts, PeerDialsIn, PeerCloses, IdleTimeout, CloseAll,
      Stabilise, vars, SafeInv, TypeOK
  <2> QED BY <2>1, <2>2, KeptSound DEF HandlesSound, HasHandle, NoResultYet
<1> QED
  BY <1>1, <1>2, <1>3, <1>4, <1>5, <1>6 DEF Next, Work, Progress

-----------------------------------------------------------------------------
(* CalmInv.  A step disturbs a calm request by losing, breaking or         *)
(* dropping its connection, or by changing what it will find in the cache. *)

CalmHere(r) == calm[r] => CalmReachable(r) /\ CalmConnection(r) /\ CalmDone(r)

LEMMA CalmHereAll == CalmInv <=> \A r \in Requests : CalmHere(r)
BY DEF CalmInv, CalmHere

(* The connections a step leaves intact: none is silently lost, and a      *)
(* held one that is open stays open.                                       *)
Undisturbed ==
  /\ \A c \in Conns : link'[c] = "lost" => link[c] = "lost"
  /\ \A c \in Conns : Held(c)' /\ link[c] = "open" => link'[c] = "open"

\* The step of another request, or of the environment.
LEMMA OthersStayCalm ==
  ASSUME SafeInv, HandlesSound, NEW q \in Requests, CalmHere(q), Undisturbed,
         calm'[q] = calm[q], pc'[q] = pc[q], tries'[q] = tries[q], conn'[q] = conn[q],
         result'[q] = result[q], reused'[q] = reused[q], UNCHANGED stable,
         LET found == cache'[PeerOf[q]] IN
           found # NoConn => found = cache[PeerOf[q]] \/ link'[found] = "open"
  PROVE  CalmHere(q)'
<1> SUFFICES ASSUME calm[q] PROVE (CalmReachable(q) /\ CalmConnection(q) /\ CalmDone(q))'
  BY DEF CalmHere
<1>1. CalmReachable(q) /\ CalmConnection(q) /\ CalmDone(q)
  BY DEF CalmHere
<1>2. CalmReachable(q)' /\ CalmDone(q)'
  BY <1>1 DEF CalmReachable, CalmDone, Undisturbed
<1>3. tries[q] \in Attempts /\ PeerOf[q] \in Peers
  BY Addressed DEF SafeInv, TypeOK
<1>4. ASSUME pc[q] \in {"put", "record", "open", "write", "read"}, link[conn[q][tries[q]]] = "open"
      PROVE  link'[conn[q][tries[q]]] = "open"
  <2>1. conn[q][tries[q]] \in Conns
    BY <1>3, <1>4 DEF SafeInv, TypeOK, HandlesSound, HasHandle
  <2>2. Held(conn[q][tries[q]])'
    BY <1>3, <1>4 DEF Held, InUse, InFlight
  <2> QED BY <1>4, <2>1, <2>2 DEF Undisturbed
<1>5. ASSUME NEW c \in Conns, cache'[PeerOf[q]] = c, cache[PeerOf[q]] = c, link[c] = "open"
      PROVE  link'[c] = "open"
  <2>1. Held(c)'
    BY <1>3, <1>5 DEF Held, Cached
  <2> QED BY <1>5, <2>1 DEF Undisturbed
<1>6. pc[q] = "lookup" /\ ~Covered(q) /\ cache'[PeerOf[q]] # NoConn
        => link'[cache'[PeerOf[q]]] = "open"
  BY <1>1, <1>3, <1>5 DEF SafeInv, TypeOK, CalmConnection
<1>7. CalmConnection(q)'
  BY <1>1, <1>4, <1>6 DEF CalmConnection, Covered
<1> QED BY <1>2, <1>7

\* Letting handles go disturbs nobody who has one.
LEMMA ReleaseUndisturbed ==
  ASSUME NEW lk, ReleaseUnheld(lk),
         \A c \in Conns : lk[c] = link[c] \/ lk[c] = "open"
  PROVE  Undisturbed
<1>1. \A c \in Conns : link'[c] = "lost" => lk[c] = "lost"
  BY ReleaseFacts
<1>2. \A c \in Conns : Held(c)' => link'[c] = lk[c]
  BY ReleaseFacts
<1> QED BY <1>1, <1>2 DEF Undisturbed

LEMMA CallCalm ==
  ASSUME SafeInv, StaleInv, NEW r \in Requests, Call(r)
  PROVE  CalmInv'
<1>1. ASSUME NEW q \in Requests, q # r PROVE CalmHere(q)'
  <2>1. Undisturbed
    BY DEF Undisturbed, Call
  <2>2. CalmHere(q)
    BY CalmHereAll DEF StaleInv
  <2>3. /\ calm'[q] = calm[q] /\ pc'[q] = pc[q] /\ reused'[q] = reused[q]
        /\ UNCHANGED <<cache, tries, conn, result, stable>>
    BY <1>1 DEF SafeInv, TypeOK, Call
  <2> QED BY <2>1, <2>2, <2>3, OthersStayCalm DEF StaleInv, HandlesSound
<1>2. CalmHere(r)'
  <2>1. /\ tries'[r] = 1 /\ pc'[r] = "lookup"
        /\ reused'[r] = (cache[PeerOf[r]] # NoConn)
        /\ calm'[r] => stable /\ \A c \in Conns : PeerOf[c[1]] = PeerOf[r] => link[c] # "lost"
        /\ UNCHANGED <<cache, link, stable>>
    BY DEF SafeInv, TypeOK, SentOnce, Call
  <2>2. calm'[r] => CalmReachable(r)' /\ CalmDone(r)'
    BY <2>1 DEF CalmReachable, CalmDone
  <2>3. CalmConnection(r)'
    BY <2>1 DEF CalmConnection, Covered
  <2> QED BY <2>2, <2>3 DEF CalmHere
<1> QED BY <1>1, <1>2 DEF CalmInv, CalmHere

\* What the cache hands a calm request is open, or covered by the redial.
LEMMA LookupCalm ==
  ASSUME SafeInv, StaleInv, NEW r \in Requests, Lookup(r)
  PROVE  CalmInv'
<1> DEFINE found == cache[PeerOf[r]]
<1>1. tries[r] \in Attempts
  BY DEF SafeInv, TypeOK
<1>2. /\ \A q \in Requests \ {r} : conn'[q] = conn[q] /\ pc'[q] = pc[q]
      /\ conn'[r][tries[r]] = found
      /\ pc[r] = "lookup" /\ pc'[r] = IF found = NoConn THEN "dial" ELSE "open"
      /\ UNCHANGED <<cache, link, tries, reused, calm, result, stable>>
  BY <1>1 DEF SafeInv, TypeOK, Lookup
<1>3. ASSUME NEW q \in Requests PROVE CalmHere(q)
  BY CalmHereAll DEF StaleInv
<1>4. ASSUME NEW q \in Requests, q # r PROVE CalmHere(q)'
  <2>1. Undisturbed
    BY <1>2 DEF Undisturbed
  <2> QED BY <1>2, <1>3, <1>4, <2>1, OthersStayCalm DEF StaleInv, HandlesSound
<1>5. CalmHere(r)'
  <2> SUFFICES ASSUME calm[r] PROVE (CalmReachable(r) /\ CalmConnection(r) /\ CalmDone(r))'
    BY <1>2 DEF CalmHere
  <2>1. CalmReachable(r) /\ CalmConnection(r)
    BY <1>3 DEF CalmHere
  <2>2. CalmReachable(r)' /\ CalmDone(r)'
    BY <1>2, <2>1 DEF CalmReachable, CalmDone
  <2>3. CalmConnection(r)'
    BY <1>2, <2>1 DEF CalmConnection, Covered
  <2> QED BY <2>2, <2>3
<1> QED BY <1>4, <1>5 DEF CalmInv, CalmHere

LEMMA ConnectCalm ==
  ASSUME SafeInv, StaleInv, NEW r \in Requests, Connect(r)
  PROVE  CalmInv'
<1> DEFINE new == <<r, tries[r]>>
<1>1. tries[r] \in Attempts /\ new \in Conns
  BY DialledConn DEF SafeInv, TypeOK
<1>2. /\ \A q \in Requests \ {r} : conn'[q] = conn[q] /\ pc'[q] = pc[q]
      /\ conn'[r][tries[r]] = new
      /\ pc[r] = "dial" /\ pc'[r] = "put"
      /\ UNCHANGED <<cache, tries, reused, calm, result, stable>>
  BY <1>1 DEF SafeInv, TypeOK, Connect
<1>3. Undisturbed /\ link'[new] = "open"
  BY <1>1 DEF SafeInv, TypeOK, Connect, Undisturbed
<1>4. ASSUME NEW q \in Requests PROVE CalmHere(q)
  BY CalmHereAll DEF StaleInv
<1>5. ASSUME NEW q \in Requests, q # r PROVE CalmHere(q)'
  BY <1>2, <1>3, <1>4, <1>5, OthersStayCalm DEF StaleInv, HandlesSound
<1>6. CalmHere(r)'
  <2> SUFFICES ASSUME calm[r] PROVE (CalmReachable(r) /\ CalmConnection(r) /\ CalmDone(r))'
    BY <1>2 DEF CalmHere
  <2>1. CalmReachable(r)
    BY <1>4 DEF CalmHere
  <2>2. CalmReachable(r)' /\ CalmDone(r)'
    BY <1>2, <1>3, <2>1 DEF CalmReachable, CalmDone, Undisturbed
  <2>3. CalmConnection(r)'
    BY <1>2, <1>3 DEF CalmConnection
  <2> QED BY <2>2, <2>3
<1> QED BY <1>5, <1>6 DEF CalmInv, CalmHere

\* The connection put hands to those who look next: open, if one is calm.
LEMMA PutCalm ==
  ASSUME SafeInv, StaleInv, PutInv, NEW r \in Requests, Put(r)
  PROVE  CalmInv'
<1> DEFINE mine == conn[r][tries[r]]
<1>1. HandlesSound /\ tries[r] \in Attempts /\ mine \in Conns
  BY PutFacts DEF StaleInv, HandlesSound
<1>2. Undisturbed
  BY <1>1, PutFacts, ReleaseUndisturbed
<1>3. ASSUME NEW c \in Conns, c = mine PROVE Held(c)'
  <2>1. pc'[r] \in InFlight /\ conn'[r][tries[r]] = c
    BY <1>1, <1>3, PutFacts DEF InFlight
  <2> QED BY <1>1, <2>1 DEF Held, InUse
<1>4. ASSUME NEW q \in Requests PROVE CalmHere(q)
  BY CalmHereAll DEF StaleInv
<1>5. ASSUME NEW q \in Requests, calm[q], PeerOf[q] = PeerOf[r] PROVE link'[mine] = "open"
  <2>1. link[mine] = "open"
    BY <1>1, <1>5, PutFacts DEF PutInv, DiedUnput
  <2> QED BY <1>1, <1>2, <1>3, <2>1 DEF Undisturbed
<1>6. ASSUME NEW q \in Requests, q # r, calm[q] PROVE CalmHere(q)'
  <2>1. LET found == cache'[PeerOf[q]] IN
          found # NoConn => found = cache[PeerOf[q]] \/ link'[found] = "open"
    BY <1>1, <1>5, <1>6, Addressed, PutFacts
  <2>2. /\ calm'[q] = calm[q] /\ pc'[q] = pc[q] /\ tries'[q] = tries[q] /\ conn'[q] = conn[q]
        /\ result'[q] = result[q] /\ reused'[q] = reused[q] /\ UNCHANGED stable
    BY <1>6 DEF SafeInv, TypeOK, Put
  <2>3. CalmHere(q) /\ HandlesSound
    BY <1>1, <1>4
  <2> QED BY <1>2, <2>1, <2>2, <2>3, OthersStayCalm
<1>7. ASSUME calm[r] PROVE (CalmReachable(r) /\ CalmConnection(r) /\ CalmDone(r))'
  <2>1. CalmReachable(r)
    BY <1>4, <1>7 DEF CalmHere
  <2>2. pc'[r] = "record" /\ UNCHANGED stable
    BY <1>1, PutFacts
  <2>3. CalmReachable(r)' /\ CalmDone(r)'
    BY <1>2, <2>1, <2>2 DEF CalmReachable, CalmDone, Undisturbed
  <2>4. CalmConnection(r)'
    BY <1>1, <1>5, <1>7, <2>2, PutFacts DEF CalmConnection
  <2> QED BY <2>3, <2>4
<1>8. UNCHANGED calm
  BY DEF Put
<1> QED BY <1>6, <1>7, <1>8 DEF CalmInv, CalmHere

\* While it is recorded, a calm request's own connection stays open.
LEMMA RecordCalm ==
  ASSUME SafeInv, StaleInv, NEW r \in Requests, Record(r)
  PROVE  CalmInv'
<1>1. /\ \A q \in Requests \ {r} : pc'[q] = pc[q]
      /\ pc[r] = "record" /\ pc'[r] = "open"
      /\ UNCHANGED <<cache, link, conn, tries, reused, calm, result, stable>>
  BY DEF SafeInv, TypeOK, Record
<1>2. ASSUME NEW q \in Requests PROVE CalmHere(q)
  BY CalmHereAll DEF StaleInv
<1>3. ASSUME NEW q \in Requests, q # r PROVE CalmHere(q)'
  <2>1. Undisturbed
    BY <1>1 DEF Undisturbed
  <2> QED BY <1>1, <1>2, <1>3, <2>1, OthersStayCalm DEF StaleInv, HandlesSound
<1>4. CalmHere(r)'
  <2> SUFFICES ASSUME calm[r] PROVE (CalmReachable(r) /\ CalmConnection(r) /\ CalmDone(r))'
    BY <1>1 DEF CalmHere
  <2>1. CalmReachable(r) /\ CalmConnection(r)
    BY <1>2 DEF CalmHere
  <2>2. link[conn[r][tries[r]]] = "open"
    BY <1>1, <2>1 DEF CalmConnection
  <2>3. CalmReachable(r)' /\ CalmDone(r)'
    BY <1>1, <2>1 DEF CalmReachable, CalmDone
  <2>4. CalmConnection(r)'
    BY <1>1, <2>2 DEF CalmConnection
  <2> QED BY <2>3, <2>4
<1> QED BY <1>3, <1>4 DEF CalmInv, CalmHere

\* The connection a calm request writes to is not lost, so it is open.
LEMMA StreamCalm ==
  ASSUME SafeInv, StaleInv, NEW r \in Requests, OpenStream(r) \/ WriteRequest(r)
  PROVE  CalmInv'
<1>1. /\ \A q \in Requests \ {r} : pc'[q] = pc[q]
      /\ pc[r] \in {"open", "write"} /\ pc'[r] \in {"write", "read"}
      /\ link[conn[r][tries[r]]] \in {"open", "lost"}
      /\ UNCHANGED <<cache, link, conn, tries, reused, calm, result, stable>>
  BY DEF SafeInv, TypeOK, OpenStream, WriteRequest
<1>2. ASSUME NEW q \in Requests PROVE CalmHere(q)
  BY CalmHereAll DEF StaleInv
<1>3. ASSUME NEW q \in Requests, q # r PROVE CalmHere(q)'
  <2>1. Undisturbed
    BY <1>1 DEF Undisturbed
  <2> QED BY <1>1, <1>2, <1>3, <2>1, OthersStayCalm DEF StaleInv, HandlesSound
<1>4. CalmHere(r)'
  <2> SUFFICES ASSUME calm[r] PROVE (CalmReachable(r) /\ CalmConnection(r) /\ CalmDone(r))'
    BY <1>1 DEF CalmHere
  <2>1. CalmReachable(r)
    BY <1>2 DEF CalmHere
  <2>2. tries[r] \in Attempts /\ conn[r][tries[r]] \in Conns
    BY <1>1 DEF SafeInv, TypeOK, StaleInv, HasHandle
  <2>3. PeerOf[conn[r][tries[r]][1]] = PeerOf[r]
    BY <2>2, NoConnAssumption DEF StaleInv, HandleOfPeer
  <2>4. link[conn[r][tries[r]]] = "open"
    BY <1>1, <2>1, <2>2, <2>3 DEF CalmReachable
  <2>5. CalmReachable(r)' /\ CalmDone(r)'
    BY <1>1, <2>1 DEF CalmReachable, CalmDone
  <2>6. CalmConnection(r)'
    BY <1>1, <2>4 DEF CalmConnection
  <2> QED BY <2>5, <2>6
<1> QED BY <1>3, <1>4 DEF CalmInv, CalmHere

(* The end of r's attempt, or of r, disturbs no other calm request; that   *)
(* it leaves r calm is the caller's to show.                               *)
LEMMA EndsCalm ==
  ASSUME SafeInv, StaleInv, NEW r \in Requests, CalmHere(r)',
         \A q \in Requests \ {r} :
           pc'[q] = pc[q] /\ tries'[q] = tries[q] /\ result'[q] = result[q],
         UNCHANGED <<conn, reused, calm, stable>>, ReleaseUnheld(link),
         \A p \in Peers : cache'[p] \in {cache[p], NoConn}
  PROVE  CalmInv'
<1>1. Undisturbed
  BY ReleaseUndisturbed
<1>2. ASSUME NEW q \in Requests, q # r PROVE CalmHere(q)'
  <2>1. CalmHere(q)
    BY CalmHereAll DEF StaleInv
  <2> QED BY <1>1, <1>2, <2>1, Addressed, OthersStayCalm DEF StaleInv, HandlesSound
<1> QED BY <1>2 DEF CalmInv, CalmHere

\* A calm request is failed only by a dead connection its redial covers.
LEMMA FailCalm ==
  ASSUME SafeInv, StaleInv, NEW r \in Requests, SendFails(r) \/ ReadFails(r)
  PROVE  CalmInv'
<1>1. PICK how \in {"BeforeSend", "AfterSend"} :
        /\ Fail(r, how)
        /\ SendFails(r) => how = "BeforeSend"
  BY DEF SendFails, ReadFails
<1>2. /\ \A q \in Requests \ {r} :
           pc'[q] = pc[q] /\ tries'[q] = tries[q] /\ result'[q] = result[q]
      /\ UNCHANGED <<conn, reused, calm, stable>>
      /\ ReleaseUnheld(link)
  BY <1>1 DEF SafeInv, TypeOK, Fail, Return
<1>3. CalmHere(r)'
  <2> SUFFICES ASSUME calm[r] PROVE (CalmReachable(r) /\ CalmConnection(r) /\ CalmDone(r))'
    BY <1>2 DEF CalmHere
  <2>1. CalmReachable(r) /\ CalmConnection(r)
    BY DEF StaleInv, CalmInv
  <2>2. pc[r] = "open" /\ Covered(r) /\ how = "BeforeSend"
    BY <1>1, <2>1 DEF CalmReachable, CalmConnection, SendFails, ReadFails
  <2>3. pc'[r] = "lookup" /\ cache'[PeerOf[r]] = NoConn
    <3>1. RedialLeft(tries[r]) /\ MayRetry(how, reused[r])
      BY <2>2 DEF Covered, RedialLeft, MayRetry
    <3> QED BY <1>1, <3>1, Addressed DEF SafeInv, TypeOK, Fail, Invalidated
  <2>4. Undisturbed
    BY <1>2, ReleaseUndisturbed
  <2>5. CalmReachable(r)' /\ CalmDone(r)'
    BY <1>2, <2>1, <2>3, <2>4 DEF CalmReachable, CalmDone, Undisturbed
  <2>6. CalmConnection(r)'
    BY <2>3 DEF CalmConnection
  <2> QED BY <2>5, <2>6
<1> QED BY <1>1, <1>2, <1>3, FailCache, EndsCalm

\* A calm request returns by its reply: nothing else can end it.
LEMMA ReturnCalm ==
  ASSUME SafeInv, StaleInv, NEW r \in Requests,
         Reply(r) \/ UselessReply(r) \/ ConnectFails(r) \/ TimesOut(r)
  PROVE  CalmInv'
<1>1. PICK res \in {"ok", "err", "timeout"} :
        /\ Return(r, res)
        /\ res = "ok" \/ ~stable \/ ~calm[r]
  BY DEF Reply, UselessReply, ConnectFails, TimesOut
<1>2. UNCHANGED <<cache, conn, tries, reused, calm, stable>> /\ ReleaseUnheld(link)
  BY DEF Reply, UselessReply, ConnectFails, TimesOut
<1>3. CalmHere(r)'
  <2> SUFFICES ASSUME calm[r] PROVE (CalmReachable(r) /\ CalmConnection(r) /\ CalmDone(r))'
    BY <1>2 DEF CalmHere
  <2>1. CalmReachable(r)
    BY DEF StaleInv, CalmInv
  <2>2. pc'[r] = "done" /\ result'[r] = "ok"
    BY <1>1, <2>1 DEF SafeInv, TypeOK, Return, CalmReachable
  <2>3. Undisturbed
    BY <1>2, ReleaseUndisturbed
  <2>4. CalmReachable(r)' /\ CalmDone(r)'
    BY <1>2, <2>1, <2>2, <2>3 DEF CalmReachable, CalmDone, Undisturbed
  <2>5. CalmConnection(r)'
    BY <2>2 DEF CalmConnection
  <2> QED BY <2>4, <2>5
<1>4. \A q \in Requests \ {r} : pc'[q] = pc[q] /\ result'[q] = result[q]
  BY <1>1 DEF SafeInv, TypeOK, Return
<1> QED BY <1>2, <1>3, <1>4, EndsCalm

LEMMA EnvironmentCalm ==
  ASSUME SafeInv, HandleInv, StaleInv,
         \/ \E r \in Requests, k \in Attempts : Deliver(r, k) \/ Apply(r, k)
         \/ \E p \in Peers : PeerRestarts(p) \/ PeerDialsIn(p)
         \/ \E c \in Conns : PeerCloses(c) \/ IdleTimeout(c)
         \/ CloseAll
         \/ Stabilise
         \/ UNCHANGED vars
  PROVE  CalmInv'
<1>1. /\ UNCHANGED <<pc, tries, reused, conn, result, calm>>
      /\ \A p \in Peers : cache'[p] \in {cache[p], NoConn}
  BY DEF Deliver, Apply, PeerRestarts, PeerDialsIn, PeerCloses, IdleTimeout, CloseAll, Stabilise, vars
<1>2. ASSUME NEW q \in Requests, calm[q] PROVE CalmHere(q)'
  <2>1. CalmHere(q) /\ stable
    BY <1>2 DEF StaleInv, CalmInv, CalmHere, CalmReachable
  <2>2. UNCHANGED stable
    BY <2>1 DEF Deliver, Apply, PeerRestarts, PeerDialsIn, PeerCloses, IdleTimeout, CloseAll, Stabilise, vars
  <2>3. Undisturbed
    <3>1. CASE CloseAll
      <4>1. \A c \in Conns : ~Held(c)'
        BY <3>1, NoConnAssumption DEF CloseAll, Held, Cached, InUse
      <4> QED BY <3>1, <4>1 DEF CloseAll, Undisturbed
    <3>2. CASE \E c \in Conns : IdleTimeout(c)
      BY <3>2 DEF SafeInv, TypeOK, IdleTimeout, Undisturbed
    <3>3. CASE UNCHANGED link
      BY <3>3 DEF Undisturbed
    <3> QED BY <2>1, <3>1, <3>2, <3>3 DEF Deliver, Apply, PeerRestarts, PeerDialsIn, PeerCloses, Stabilise, vars
  <2> QED BY <1>1, <2>1, <2>2, <2>3, Addressed, OthersStayCalm DEF StaleInv, HandlesSound
<1> QED BY <1>1, <1>2 DEF CalmInv, CalmHere

LEMMA NextStale == SafeInv /\ HandleInv /\ StaleInv /\ PutInv /\ [Next]_vars => StaleInv'
<1> SUFFICES ASSUME SafeInv, HandleInv, StaleInv, PutInv, [Next]_vars PROVE StaleInv'
  OBVIOUS
<1>1. HandlesSound'
  BY NextSound DEF StaleInv, HandlesSound
<1>2. ASSUME NEW r \in Requests, Call(r) PROVE CalmInv'
  BY <1>2, CallCalm
<1>3. ASSUME NEW r \in Requests, Progress(r) PROVE CalmInv'
  BY <1>3, LookupCalm, ConnectCalm, PutCalm, RecordCalm, StreamCalm, FailCalm, ReturnCalm
  DEF Progress
<1>4. ASSUME NEW r \in Requests,
             ConnectFails(r) \/ ReadFails(r) \/ UselessReply(r) \/ TimesOut(r)
      PROVE  CalmInv'
  BY <1>4, FailCalm, ReturnCalm
<1>5. CalmInv'
  BY <1>2, <1>3, <1>4, EnvironmentCalm DEF Next, Work
<1> QED BY <1>1, <1>5 DEF StaleInv, HandlesSound

-----------------------------------------------------------------------------
(* PutInv.  A peer that fails no more disturbs no connection that somebody *)
(* holds, and a handshake that completes now is open.                      *)

LEMMA NextUndisturbed ==
  ASSUME SafeInv, stable, [Next]_vars
  PROVE  Undisturbed
<1>1. CASE UNCHANGED link
  BY <1>1 DEF Undisturbed
<1>2. ASSUME NEW r \in Requests, Connect(r) PROVE Undisturbed
  BY <1>2, DialledConn DEF SafeInv, TypeOK, Connect, Undisturbed
<1>3. CASE ReleaseUnheld(link)
  BY <1>3, ReleaseUndisturbed
<1>4. ASSUME NEW c \in Conns, IdleTimeout(c) PROVE Undisturbed
  BY <1>4 DEF SafeInv, TypeOK, IdleTimeout, Undisturbed
<1>5. CASE CloseAll
  <2>1. \A c \in Conns : ~Held(c)'
    BY <1>5, NoConnAssumption DEF CloseAll, Held, Cached, InUse
  <2> QED BY <1>5, <2>1 DEF CloseAll, Undisturbed
<1>6. ASSUME NEW r \in Requests,
             Call(r) \/ Lookup(r) \/ Record(r) \/ OpenStream(r) \/ WriteRequest(r)
      PROVE  Undisturbed
  BY <1>1, <1>6 DEF Call, Lookup, Record, OpenStream, WriteRequest
<1>7. ASSUME NEW r \in Requests,
             \/ Put(r) \/ SendFails(r) \/ ReadFails(r) \/ Reply(r)
             \/ UselessReply(r) \/ ConnectFails(r) \/ TimesOut(r)
      PROVE  Undisturbed
  BY <1>3, <1>7 DEF Put, SendFails, ReadFails, Fail, Reply, UselessReply, ConnectFails, TimesOut
<1>8. CASE \/ \E r \in Requests, k \in Attempts : Deliver(r, k) \/ Apply(r, k)
           \/ \E p \in Peers : PeerRestarts(p) \/ PeerDialsIn(p)
           \/ \E c \in Conns : PeerCloses(c)
           \/ Stabilise
           \/ UNCHANGED vars
  BY <1>1, <1>8 DEF Deliver, Apply, PeerRestarts, PeerDialsIn, PeerCloses, Stabilise, vars
<1> QED
  BY <1>2, <1>4, <1>5, <1>6, <1>7, <1>8 DEF Next, Work, Progress

\* Who is at put after a step: the dialler that has just connected, or as before.
LEMMA AtPut ==
  ASSUME SafeInv, [Next]_vars, NEW x \in Requests, pc'[x] = "put"
  PROVE  Connect(x) \/ (pc[x] = "put" /\ conn'[x] = conn[x] /\ tries'[x] = tries[x])
<1>1. ASSUME NEW r \in Requests, Call(r) PROVE pc[x] = "put" /\ conn'[x] = conn[x] /\ tries'[x] = tries[x]
  BY <1>1 DEF SafeInv, TypeOK, Call
<1>2. ASSUME NEW r \in Requests, Lookup(r) PROVE pc[x] = "put" /\ conn'[x] = conn[x] /\ tries'[x] = tries[x]
  BY <1>2 DEF SafeInv, TypeOK, Lookup
<1>3. ASSUME NEW r \in Requests, Connect(r), r # x
      PROVE  pc[x] = "put" /\ conn'[x] = conn[x] /\ tries'[x] = tries[x]
  BY <1>3 DEF SafeInv, TypeOK, Connect
<1>4. ASSUME NEW r \in Requests, Put(r) \/ Record(r) \/ OpenStream(r) \/ WriteRequest(r)
      PROVE  pc[x] = "put" /\ conn'[x] = conn[x] /\ tries'[x] = tries[x]
  BY <1>4 DEF SafeInv, TypeOK, Put, Record, OpenStream, WriteRequest
<1>5. ASSUME NEW r \in Requests, NEW how, Fail(r, how)
      PROVE  pc[x] = "put" /\ conn'[x] = conn[x] /\ tries'[x] = tries[x]
  <2>1. UNCHANGED conn
    BY <1>5 DEF Fail
  <2>2. pc' = [pc EXCEPT ![r] = "lookup"] \/ pc' = [pc EXCEPT ![r] = "done"]
    BY <1>5 DEF Fail, Return
  <2>3. tries' = tries \/ tries' = [tries EXCEPT ![r] = @ + 1]
    BY <1>5 DEF Fail
  <2>4. x # r
    BY <2>2 DEF SafeInv, TypeOK
  <2> QED BY <2>1, <2>2, <2>3, <2>4 DEF SafeInv, TypeOK
<1>6. ASSUME NEW r \in Requests, Reply(r) \/ UselessReply(r) \/ ConnectFails(r) \/ TimesOut(r)
      PROVE  pc[x] = "put" /\ conn'[x] = conn[x] /\ tries'[x] = tries[x]
  BY <1>6 DEF SafeInv, TypeOK, Return, Reply, UselessReply, ConnectFails, TimesOut
<1>7. CASE \/ \E r \in Requests, k \in Attempts : Deliver(r, k) \/ Apply(r, k)
           \/ \E p \in Peers : PeerRestarts(p) \/ PeerDialsIn(p)
           \/ \E c \in Conns : PeerCloses(c) \/ IdleTimeout(c)
           \/ CloseAll
           \/ Stabilise
           \/ UNCHANGED vars
  BY <1>7 DEF Deliver, Apply, PeerRestarts, PeerDialsIn, PeerCloses, IdleTimeout, CloseAll, Stabilise, vars
<1>8. ASSUME NEW r \in Requests, SendFails(r) \/ ReadFails(r)
      PROVE  pc[x] = "put" /\ conn'[x] = conn[x] /\ tries'[x] = tries[x]
  BY <1>5, <1>8 DEF SendFails, ReadFails
<1> QED
  BY <1>1, <1>2, <1>3, <1>4, <1>6, <1>7, <1>8 DEF Next, Work, Progress

LEMMA NextPut == SafeInv /\ StaleInv /\ PutInv /\ [Next]_vars => PutInv'
<1> SUFFICES ASSUME SafeInv, StaleInv, PutInv, [Next]_vars, NEW q \in Requests, calm'[q],
                    NEW x \in Requests, PeerOf[x] = PeerOf[q], pc'[x] = "put"
             PROVE  link'[conn'[x][tries'[x]]] = "open"
  BY DEF PutInv, DiedUnput
<1>1. CASE Connect(x)
  BY <1>1, DialledConn DEF SafeInv, TypeOK, Connect
<1>2. CASE ~Connect(x)
  <2>1. pc[x] = "put" /\ conn'[x] = conn[x] /\ tries'[x] = tries[x]
    BY <1>2, AtPut
  <2>2. tries[x] \in Attempts /\ conn[x][tries[x]] \in Conns
    BY <2>1 DEF SafeInv, TypeOK, StaleInv, HasHandle
  <2>3. CASE calm[q]
    <3>1. stable /\ link[conn[x][tries[x]]] = "open"
      BY <2>1, <2>3 DEF StaleInv, CalmInv, CalmReachable, PutInv, DiedUnput
    <3>2. ASSUME NEW c \in Conns, c = conn[x][tries[x]] PROVE Held(c)'
      BY <2>1, <2>2, <3>2 DEF Held, InUse, InFlight
    <3> QED BY <2>1, <2>2, <3>1, <3>2, NextUndisturbed DEF Undisturbed
  <2>4. CASE ~calm[q]
    <3>1. Call(q)
      <4>1. ASSUME NEW r \in Requests, Call(r) PROVE r = q
        BY <2>4, <4>1 DEF SafeInv, TypeOK, Call
      <4>2. CASE \A r \in Requests : ~Call(r)
        <5>1. UNCHANGED calm
          BY <4>2 DEF Next, Work, Progress, Lookup, Connect, Put, Record, OpenStream, WriteRequest,
            SendFails, ReadFails, Fail, Reply, UselessReply, ConnectFails, TimesOut, Deliver, Apply,
            PeerRestarts, PeerDialsIn, PeerCloses, IdleTimeout, CloseAll, Stabilise, vars
        <5> QED BY <2>4, <5>1
      <4> QED BY <4>1, <4>2
    <3>2. ~DiedUnput(PeerOf[q]) /\ UNCHANGED link
      BY <3>1 DEF SafeInv, TypeOK, Call
    <3> QED BY <2>1, <3>2 DEF DiedUnput
  <2> QED BY <2>3, <2>4
<1> QED BY <1>1, <1>2

LEMMA CalmAnswered == SafeInv /\ StaleInv => StaleCacheIsInvisible
BY DEF StaleInv, CalmInv, CalmDone, NoResultYet, StaleCacheIsInvisible

(* The case the redial exists for, with any number of threads sharing the  *)
(* cache: once a peer is reachable again, a dead connection that earlier   *)
(* failures left in the cache costs no request its answer, unless one that *)
(* is dead is still on its way from a finished handshake into the cache.   *)
THEOREM StaleCacheIsInvisibleHolds == Spec => []StaleCacheIsInvisible
<1>1. Init => SafeInv /\ HandleInv /\ StaleInv /\ PutInv
  BY InitSafe, InitHandles, InitStale DEF Init, PutInv
<1>2. /\ SafeInv /\ HandleInv /\ StaleInv /\ PutInv
      /\ [Next]_vars
      => (SafeInv /\ HandleInv /\ StaleInv /\ PutInv)'
  BY NextSafe, NextHandles, NextStale, NextPut
<1> QED BY <1>1, <1>2, CalmAnswered, PTL DEF Spec

-----------------------------------------------------------------------------
\* The peer table.

LEMMA RecordPeerKeeps ==
  ASSUME TypeOK, NEW p \in Peers, NEW path \in Paths, NEW dir \in {"in", "out"},
         peers' = RecordPeer(peers, p, path, dir), NEW q \in Peers, peers[q] # NoEntry
  PROVE  /\ peers'[q] # NoEntry
         /\ peers'[q].direction = peers[q].direction
         /\ peers[q].path # "unknown" => peers'[q].path # "unknown"
<1>1. peers[q] \in PeerEntry
  BY DEF TypeOK
<1>2. CASE q # p
  BY <1>2 DEF TypeOK, RecordPeer
<1>3. CASE q = p /\ path = "unknown"
  BY <1>3 DEF TypeOK, RecordPeer
<1>4. CASE q = p /\ path # "unknown"
  <2>1. peers'[q] = [peers[q] EXCEPT !.path = path]
    BY <1>4 DEF TypeOK, RecordPeer
  <2>2. peers'[q] \in PeerEntry /\ peers'[q].direction = peers[q].direction /\ peers'[q].path = path
    BY <1>1, <2>1 DEF PeerEntry
  <2> QED BY <1>4, <2>2, NoEntryAssumption
<1> QED BY <1>2, <1>3, <1>4

(* record_peer, called by the diallers and by the accept side in any       *)
(* order: quackhole_status() never forgets a peer, the direction it was    *)
(* first seen in, or that its path was known.                              *)
THEOREM KnownPathsStayKnownHolds == Spec => KnownPathsStayKnown
<1> DEFINE Kept == \A p \in Peers : peers[p] # NoEntry =>
                     /\ peers'[p] # NoEntry
                     /\ peers'[p].direction = peers[p].direction
                     /\ peers[p].path # "unknown" => peers'[p].path # "unknown"
<1>1. SafeInv /\ [Next]_vars => Kept
  <2> SUFFICES ASSUME SafeInv, [Next]_vars PROVE Kept
    OBVIOUS
  <2>1. \/ UNCHANGED peers
        \/ \E p \in Peers, path \in Paths, dir \in {"in", "out"} :
             peers' = RecordPeer(peers, p, path, dir)
    BY Addressed, PathsAssumption DEF Next, Work, Progress, Call, Lookup, Connect, Put, Record, ConnectFails,
      OpenStream, WriteRequest, Fail, SendFails, ReadFails, Reply, UselessReply, TimesOut,
      CloseAll, Deliver, Apply, PeerRestarts, PeerCloses, IdleTimeout, PeerDialsIn, Stabilise, vars
  <2>2. CASE UNCHANGED peers
    BY <2>2
  <2>3. CASE \E p \in Peers, path \in Paths, dir \in {"in", "out"} :
              peers' = RecordPeer(peers, p, path, dir)
    BY <2>3, RecordPeerKeeps DEF SafeInv
  <2> QED BY <2>1, <2>2, <2>3
<1>2. SafeInv /\ [Next]_vars => [Kept]_peers
  BY <1>1
<1>3. KnownPathsStayKnown <=> [][Kept]_peers
  BY DEF KnownPathsStayKnown
<1> HIDE DEF Kept
<1> QED BY <1>2, <1>3, SafeInvHolds, PTL DEF Spec
=============================================================================
