-------------------------------- MODULE Dial --------------------------------
(***************************************************************************)
(* The outbound side of the core (crates/quackhole-core/src/dial.rs): one  *)
(* cached QUIC connection per peer, one bi-stream per request, and the     *)
(* redial-once policy of request_async, driven by several threads at once  *)
(* (every DuckDB worker blocks in Core::request on its own).               *)
(*                                                                         *)
(* A connection is named after the request and the attempt that dialled    *)
(* it.  Each access to the cache is one step (it is one critical section   *)
(* of ConnCache's mutex), so another thread may run between any two.  The  *)
(* peer, the network and the idle timeout are the environment; the flag    *)
(* `stable` says that the environment has stopped failing.                 *)
(***************************************************************************)
EXTENDS Integers

CONSTANTS
  Requests,   \* the requests made of the core
  Peers,      \* the endpoint ids they are addressed to
  PeerOf,     \* PeerOf[r]: the endpoint id request r is addressed to
  Paths,      \* the paths a connection may be observed on
  NoConn,     \* the cache holds no connection
  NoEntry     \* the peer table holds no entry

Attempts == 1 .. 2
Conns == Requests \X Attempts
PeerEntry == [path : Paths, direction : {"in", "out"}]

ASSUME PeerOfAssumption == PeerOf \in [Requests -> Peers]
ASSUME PathsAssumption == Paths \subseteq {"unknown", "direct", "relay"} /\ "unknown" \in Paths
ASSUME NoConnAssumption == NoConn \notin Conns
ASSUME NoEntryAssumption == NoEntry \notin PeerEntry

VARIABLES
  cache,    \* cache[p]: the connection ConnCache holds for peer p
  link,     \* link[c]: the state of connection c
  pc,       \* pc[r]: where request_async stands for r
  tries,    \* tries[r]: the attempt r is at
  reused,   \* reused[r]: request_async's flag of that name
  conn,     \* conn[r][k]: the handle attempt k of r holds
  wire,     \* wire[r][k]: how far the bytes of attempt k of r have come
  result,   \* result[r]: what Core::request returned
  peers,    \* peers[p]: the PeerMap entry of p
  stable,   \* the environment has stopped failing
  calm,     \* calm[r]: r was submitted to a peer that was stable and reachable
  freed     \* close_all has run (qh_core_free)

vars == <<cache, link, pc, tries, reused, conn, wire, result, peers,
          stable, calm, freed>>

\* Where a request stands between the call and its return.
InFlight == {"lookup", "dial", "put", "record", "open", "write", "read"}

\* Where it waits: a future is dropped at an await and nowhere else.
Awaits == {"dial", "open", "write", "read"}

(* "open" is a live connection; "lost" is one whose peer is gone without   *)
(* our side knowing; "broken" is one we know closed, by the peer or by the *)
(* idle timeout; "dropped" is one we closed ourselves.                     *)
LinkStates == {"none", "open", "lost", "broken", "dropped"}

(* "open": the stream exists, the request is not wholly in it; "sent":     *)
(* write_all returned Ok; "delivered": the peer's Quack has every byte;    *)
(* "applied": Quack acted on it; "gone": Quack died first.                 *)
WireStates == {"none", "open", "sent", "delivered", "applied", "gone"}

TypeOK ==
  /\ cache \in [Peers -> Conns \cup {NoConn}]
  /\ link \in [Conns -> LinkStates]
  /\ pc \in [Requests -> InFlight \cup {"idle", "done"}]
  /\ tries \in [Requests -> Attempts]
  /\ reused \in [Requests -> BOOLEAN]
  /\ conn \in [Requests -> [Attempts -> Conns \cup {NoConn}]]
  /\ wire \in [Requests -> [Attempts -> WireStates]]
  /\ result \in [Requests -> {"none", "ok", "err", "timeout"}]
  /\ peers \in [Peers -> PeerEntry \cup {NoEntry}]
  /\ stable \in BOOLEAN
  /\ calm \in [Requests -> BOOLEAN]
  /\ freed \in BOOLEAN

Init ==
  /\ cache = [p \in Peers |-> NoConn]
  /\ link = [c \in Conns |-> "none"]
  /\ pc = [r \in Requests |-> "idle"]
  /\ tries = [r \in Requests |-> 1]
  /\ reused = [r \in Requests |-> FALSE]
  /\ conn = [r \in Requests |-> [k \in Attempts |-> NoConn]]
  /\ wire = [r \in Requests |-> [k \in Attempts |-> "none"]]
  /\ result = [r \in Requests |-> "none"]
  /\ peers = [p \in Peers |-> NoEntry]
  /\ stable = FALSE
  /\ calm = [r \in Requests |-> FALSE]
  /\ freed = FALSE

-----------------------------------------------------------------------------
(* Helpers of the handlers.                                                *)

Cached(c) == \E p \in Peers : cache[p] = c
InUse(c) == \E r \in Requests : pc[r] \in InFlight /\ \E k \in Attempts : conn[r][k] = c

\* Mutant: a request borrows the cache's handle instead of cloning it.
HeldByTheCacheAlone(c) == Cached(c)

\* Somebody holds a handle: the cache, or a request in flight on its clone.
Held(c) == Cached(c) \/ InUse(c)

(* A connection that died after its handshake, before the thread that      *)
(* dialled it has put it into the cache.                                   *)
DiedUnput(p) ==
  \E r \in Requests : PeerOf[r] = p /\ pc[r] = "put" /\ link[conn[r][tries[r]]] # "open"

(* A connection closes when its last handle is dropped.  Stated over the   *)
(* next state, so an action uses it after it has said what changes.        *)
ReleaseUnheld(lk) ==
  link' = [c \in Conns |->
             IF lk[c] \in {"open", "lost"} /\ ~Held(c)' THEN "dropped" ELSE lk[c]]

\* Mutant: the last observation overwrites the entry, "unknown" included.
RecordPeerLast(table, p, path, direction) ==
  [table EXCEPT ![p] = [path |-> path, direction |-> direction]]

(* record_peer: the first direction stays, a known path is never replaced  *)
(* by "unknown".                                                           *)
RecordPeer(table, p, path, direction) ==
  LET entry == IF table[p] = NoEntry THEN [path |-> path, direction |-> direction]
               ELSE table[p]
  IN [table EXCEPT ![p] = IF path = "unknown" THEN entry ELSE [entry EXCEPT !.path = path]]

\* Mutant: any failure on a reused connection is redialled.
MayRetryAnything(how, wasReused) == wasReused

MayRetry(how, wasReused) == wasReused /\ how = "BeforeSend"

\* Mutant: the redial is a loop.
RedialsForever(k) == TRUE

\* The redial is straight-line code: there is no third attempt.
RedialLeft(k) == k = 1

\* Mutant: invalidate leaves the entry in place.
InvalidatedNot(p) == cache

Invalidated(p) == [cache EXCEPT ![p] = NoConn]

Return(r, res) ==
  /\ pc' = [pc EXCEPT ![r] = "done"]
  /\ result' = [result EXCEPT ![r] = res]

-----------------------------------------------------------------------------
(* request_async, one step per access to shared state or await point.      *)

(* Core::request is entered.  `reused` is sampled here, under a lock of    *)
(* its own, before get_or_connect looks again.  The history variable calm  *)
(* says that the peer is reachable, and that no other thread is about to   *)
(* cache a connection that is already dead.                                *)
Call(r) ==
  /\ pc[r] = "idle"
  /\ ~freed
  /\ pc' = [pc EXCEPT ![r] = "lookup"]
  /\ reused' = [reused EXCEPT ![r] = cache[PeerOf[r]] # NoConn]
  /\ calm' = [calm EXCEPT ![r] =
       /\ stable
       /\ \A c \in Conns : PeerOf[c[1]] = PeerOf[r] => link[c] # "lost"
       /\ ~DiedUnput(PeerOf[r])]
  /\ UNCHANGED <<cache, link, tries, conn, wire, result, peers, stable, freed>>

\* get_or_connect's lookup: a hit hands out a clone, a miss goes to dial.
Lookup(r) ==
  LET c == cache[PeerOf[r]] IN
  /\ pc[r] = "lookup"
  /\ conn' = [conn EXCEPT ![r][tries[r]] = c]
  /\ pc' = [pc EXCEPT ![r] = IF c = NoConn THEN "dial" ELSE "open"]
  /\ UNCHANGED <<cache, link, tries, reused, wire, result, peers, stable, calm, freed>>

\* The handshake completes, and the dialler alone holds the connection.
Connect(r) ==
  LET c == <<r, tries[r]>> IN
  /\ pc[r] = "dial"
  /\ link' = [link EXCEPT ![c] = "open"]
  /\ conn' = [conn EXCEPT ![r][tries[r]] = c]
  /\ pc' = [pc EXCEPT ![r] = "put"]
  /\ UNCHANGED <<cache, tries, reused, wire, result, peers, stable, calm, freed>>

(* put: whatever became of the connection meanwhile, it overwrites what a  *)
(* concurrent dial put there.                                              *)
Put(r) ==
  /\ pc[r] = "put"
  /\ cache' = [cache EXCEPT ![PeerOf[r]] = conn[r][tries[r]]]
  /\ pc' = [pc EXCEPT ![r] = "record"]
  /\ UNCHANGED <<conn, tries>>
  /\ ReleaseUnheld(link)
  /\ UNCHANGED <<reused, wire, result, peers, stable, calm, freed>>

\* The dialled peer is recorded, its path not yet known.
Record(r) ==
  /\ pc[r] = "record"
  /\ peers' = RecordPeer(peers, PeerOf[r], "unknown", "out")
  /\ pc' = [pc EXCEPT ![r] = "open"]
  /\ UNCHANGED <<cache, link, tries, reused, conn, wire, result, stable, calm, freed>>

\* The dial fails: `?` returns, and the cache is left as it is.
ConnectFails(r) ==
  /\ pc[r] = "dial"
  /\ ~stable
  /\ Return(r, "err")
  /\ UNCHANGED <<cache, conn, tries>>
  /\ ReleaseUnheld(link)
  /\ UNCHANGED <<reused, wire, peers, stable, calm, freed>>

\* open_bi succeeds on any connection not known to be closed.
OpenStream(r) ==
  /\ pc[r] = "open"
  /\ link[conn[r][tries[r]]] \in {"open", "lost"}
  /\ wire' = [wire EXCEPT ![r][tries[r]] = "open"]
  /\ pc' = [pc EXCEPT ![r] = "write"]
  /\ UNCHANGED <<cache, link, tries, reused, conn, result, peers, stable, calm, freed>>

\* write_all accepts the last byte; the send side is not finished.
WriteRequest(r) ==
  /\ pc[r] = "write"
  /\ link[conn[r][tries[r]]] \in {"open", "lost"}
  /\ wire' = [wire EXCEPT ![r][tries[r]] = "sent"]
  /\ pc' = [pc EXCEPT ![r] = "read"]
  /\ UNCHANGED <<cache, link, tries, reused, conn, result, peers, stable, calm, freed>>

(* request_async's two failing arms.  On the first attempt either arm      *)
(* invalidates the peer's entry, whatever connection it now holds; on the  *)
(* second nothing is invalidated.                                          *)
Fail(r, how) ==
  /\ cache' = IF RedialLeft(tries[r]) THEN Invalidated(PeerOf[r]) ELSE cache
  /\ IF RedialLeft(tries[r]) /\ MayRetry(how, reused[r])
     THEN /\ tries' = [tries EXCEPT ![r] = @ + 1]
          /\ pc' = [pc EXCEPT ![r] = "lookup"]
          /\ UNCHANGED result
     ELSE /\ Return(r, "err")
          /\ UNCHANGED tries
  /\ UNCHANGED conn
  /\ ReleaseUnheld(link)
  /\ UNCHANGED <<reused, wire, peers, stable, calm, freed>>

(* open_bi or write_all fails: the connection is closed, or the peer       *)
(* stopped this one stream while the write was still going on.             *)
SendFails(r) ==
  /\ \/ pc[r] \in {"open", "write"} /\ link[conn[r][tries[r]]] = "broken"
     \/ pc[r] = "write" /\ ~stable
  /\ Fail(r, "BeforeSend")

(* read_to_end fails: the connection is closed, the stream was reset, or   *)
(* the reply is longer than MAX_RESPONSE_BYTES (on a healthy connection).  *)
ReadFails(r) ==
  /\ pc[r] = "read"
  /\ link[conn[r][tries[r]]] = "broken" \/ ~stable
  /\ Fail(r, "AfterSend")

(* The reply was read to the end of the stream; the path is sampled.       *)
Reply(r) ==
  /\ pc[r] = "read"
  /\ wire[r][tries[r]] = "applied"
  /\ link[conn[r][tries[r]]] = "open"
  /\ \E path \in Paths : peers' = RecordPeer(peers, PeerOf[r], path, "out")
  /\ Return(r, "ok")
  /\ UNCHANGED <<cache, conn, tries>>
  /\ ReleaseUnheld(link)
  /\ UNCHANGED <<reused, wire, stable, calm, freed>>

(* The peer's bridge gave up and its stream ended early: round_trip sees a *)
(* response, decode or parse_response refuses it, the connection is kept.  *)
UselessReply(r) ==
  /\ pc[r] = "read"
  /\ ~stable
  /\ link[conn[r][tries[r]]] = "open"
  /\ \E path \in Paths : peers' = RecordPeer(peers, PeerOf[r], path, "out")
  /\ Return(r, "err")
  /\ UNCHANGED <<cache, conn, tries>>
  /\ ReleaseUnheld(link)
  /\ UNCHANGED <<reused, wire, stable, calm, freed>>

\* Mutant: request_async is awaited without a timeout around it.
NeverTimesOut(r) == FALSE /\ UNCHANGED vars

(* tokio::time::timeout drops the future at the await it stands at: its    *)
(* handles and streams go, the cache keeps its entry, what was written may *)
(* still arrive.  A request to a peer that answers is assumed to beat it.  *)
TimesOut(r) ==
  /\ pc[r] \in Awaits
  /\ ~calm[r]
  /\ Return(r, "timeout")
  /\ UNCHANGED <<cache, conn, tries>>
  /\ ReleaseUnheld(link)
  /\ UNCHANGED <<reused, wire, peers, stable, calm, freed>>

\* ConnCache::close_all, from qh_core_free, once no call is left in the core.
CloseAll ==
  /\ ~freed
  /\ \A r \in Requests : pc[r] \notin InFlight
  /\ freed' = TRUE
  /\ cache' = [p \in Peers |-> NoConn]
  /\ link' = [c \in Conns |-> IF Cached(c) THEN "dropped" ELSE link[c]]
  /\ UNCHANGED <<pc, tries, reused, conn, wire, result, peers, stable, calm>>

-----------------------------------------------------------------------------
(* The environment: the network, the peer and its Quack, the idle timer.   *)

Deliver(r, k) ==
  /\ wire[r][k] = "sent"
  /\ link[conn[r][k]] = "open"
  /\ wire' = [wire EXCEPT ![r][k] = "delivered"]
  /\ UNCHANGED <<cache, link, pc, tries, reused, conn, result, peers, stable, calm, freed>>

\* Quack acts on what it has received, whatever became of the connection.
Apply(r, k) ==
  /\ wire[r][k] = "delivered"
  /\ wire' = [wire EXCEPT ![r][k] = "applied"]
  /\ UNCHANGED <<cache, link, pc, tries, reused, conn, result, peers, stable, calm, freed>>

\* The peer process dies and comes back; our side is told nothing.
PeerRestarts(p) ==
  /\ ~stable
  /\ link' = [c \in Conns |-> IF PeerOf[c[1]] = p /\ link[c] = "open" THEN "lost" ELSE link[c]]
  /\ wire' = [r \in Requests |-> [k \in Attempts |->
                IF PeerOf[r] = p /\ wire[r][k] = "delivered" THEN "gone" ELSE wire[r][k]]]
  /\ UNCHANGED <<cache, pc, tries, reused, conn, result, peers, stable, calm, freed>>

\* The peer closes a connection (quackhole_stop, shutdown), or it idles out.
PeerCloses(c) ==
  /\ ~stable
  /\ link[c] = "open"
  /\ link' = [link EXCEPT ![c] = "broken"]
  /\ UNCHANGED <<cache, pc, tries, reused, conn, wire, result, peers, stable, calm, freed>>

\* The idle timeout notices a connection whose peer is gone.
IdleTimeout(c) ==
  /\ link[c] = "lost"
  /\ link' = [link EXCEPT ![c] = "broken"]
  /\ UNCHANGED <<cache, pc, tries, reused, conn, wire, result, peers, stable, calm, freed>>

(* The serving side of the same core admits a connection of p's, as often  *)
(* as p dials us, and records the path it came in on.                      *)
PeerDialsIn(p) ==
  /\ ~freed
  /\ \E path \in Paths \ {"unknown"} : peers' = RecordPeer(peers, p, path, "in")
  /\ UNCHANGED <<cache, link, pc, tries, reused, conn, wire, result, stable, calm, freed>>

Stabilise ==
  /\ ~stable
  /\ stable' = TRUE
  /\ UNCHANGED <<cache, link, pc, tries, reused, conn, wire, result, peers, calm, freed>>

-----------------------------------------------------------------------------
\* What the thread and the runtime driving r do by themselves.
Progress(r) ==
  \/ Lookup(r) \/ Connect(r) \/ Put(r) \/ Record(r)
  \/ OpenStream(r) \/ WriteRequest(r) \/ SendFails(r) \/ Reply(r)

\* Everything but a new request.
Work ==
  \/ \E r \in Requests :
       \/ Progress(r) \/ ConnectFails(r) \/ ReadFails(r) \/ UselessReply(r) \/ TimesOut(r)
  \/ \E r \in Requests, k \in Attempts : Deliver(r, k) \/ Apply(r, k)
  \/ \E p \in Peers : PeerRestarts(p) \/ PeerDialsIn(p)
  \/ \E c \in Conns : PeerCloses(c) \/ IdleTimeout(c)
  \/ CloseAll
  \/ Stabilise

Next == Work \/ \E r \in Requests : Call(r)

Spec == Init /\ [][Next]_vars

(* The runtime polls every future, the timer fires, and a healthy peer     *)
(* receives and answers what it is sent.  No failure is fair.              *)
FairSpec ==
  /\ Spec
  /\ \A r \in Requests : WF_vars(Progress(r)) /\ WF_vars(TimesOut(r))
  /\ \A r \in Requests, k \in Attempts : WF_vars(Deliver(r, k)) /\ WF_vars(Apply(r, k))

-----------------------------------------------------------------------------
(* What the outbound side promises.                                        *)

\* How many times the peer has acted on r.
Effects(r) ==
  (IF wire[r][1] = "applied" THEN 1 ELSE 0) + (IF wire[r][2] = "applied" THEN 1 ELSE 0)

(* dial.rs, may_retry: a request is never applied twice, whatever the      *)
(* threads, the network and the peer do, retries and timeouts included.    *)
AppliedAtMostOnce == \A r \in Requests : Effects(r) <= 1

(* The case the redial exists for (test a_stale_cached_connection_is_      *)
(* retried): once a peer is reachable, a dead connection left in the cache *)
(* by any earlier failure never costs a request its answer.  One that is   *)
(* dead already and not yet in the cache (DiedUnput) may: the request that *)
(* finds it there has sampled `reused` as false.                           *)
StaleCacheIsInvisible ==
  \A r \in Requests : calm[r] => result[r] \in {"none", "ok"}

(* Invalidating, overwriting and draining drop the cache's handle and no   *)
(* other: a connection we closed is in nobody's hands, so one request's    *)
(* failure never closes the connection another is using; and after         *)
(* qh_core_free none of the connections ever dialled is left open.         *)
OnlyUnheldIsClosed ==
  /\ \A c \in Conns : link[c] = "dropped" => ~Cached(c) /\ ~InUse(c)
  /\ freed => \A c \in Conns : link[c] # "open"

(* quackhole_status(): a peer once listed stays listed, in the direction   *)
(* first seen, and a path once known is never unknown again, whichever of  *)
(* the dialling threads and the accept side recorded it.                   *)
KnownPathsStayKnown ==
  [][\A p \in Peers : peers[p] # NoEntry =>
       /\ peers'[p] # NoEntry
       /\ peers'[p].direction = peers[p].direction
       /\ peers[p].path # "unknown" => peers'[p].path # "unknown"]_peers

(* No caller waits for ever: every request returns, by its timeout if the  *)
(* peer is gone, and with no timeout to help it if the peer is reachable.  *)
EveryCallReturns ==
  \A r \in Requests : pc[r] = "lookup" ~> pc[r] = "done"

\* The abstract specification, under the obvious refinement mapping.
PhaseOf(r) ==
  CASE pc[r] = "idle" -> "idle"
    [] pc[r] \in InFlight -> "pending"
    [] OTHER -> IF result[r] = "ok" THEN "answered" ELSE "failed"

Abstract == INSTANCE AtMostOnce WITH
  phase <- [r \in Requests |-> PhaseOf(r)],
  effects <- [r \in Requests |-> Effects(r)]

(* Dial implements AtMostOnce: besides AppliedAtMostOnce, a request is     *)
(* never reported as answered unless it was applied, and never applied     *)
(* before it was submitted.                                                *)
ImplementsAtMostOnce == Abstract!Spec
=============================================================================
