----------------------------- MODULE ShimBridge -----------------------------
(***************************************************************************)
(* The browser client's blocking bridge: web/shim.js, in the DuckDB worker *)
(* that must not return before it has an answer, and                       *)
(* web/bridge-worker.js, the asynchronous worker that has an endpoint.     *)
(*                                                                         *)
(* Requests and `peer` frames go one way, by postMessage; the answer comes *)
(* back chunk by chunk through one SharedArrayBuffer, handed over by the   *)
(* STATE word (web/protocol.js).  Nothing in a chunk says which request it *)
(* answers: the two sides agree on that only by taking turns.  Here every  *)
(* chunk carries the request it was written for, so that a property can    *)
(* tell; no action reads it.                                               *)
(*                                                                         *)
(* protocol.js's comment on GRACE_MS assumes that a live bridge is always  *)
(* done before the shim's deadline; late records that one was not.         *)
(***************************************************************************)
EXTENDS Integers, Sequences

CONSTANTS
  MaxRequests,    \* how many requests the page's queries make
  Capacity,       \* how much of a body one chunk takes
  MaxBody,        \* the longest body
  MaxPeerFrames,  \* how many `peer` frames the page sends
  Peers,          \* the endpoint ids a page may attach
  Relays,         \* the relays a ticket may name
  DefaultRelay,   \* the relay of the worker's configuration
  NoRelay         \* a `peer` frame without a relay

Requests == 1 .. MaxRequests

ASSUME BoundsAssumption ==
  MaxRequests \in Nat /\ Capacity \in Nat \ {0} /\ MaxBody \in Nat /\ MaxPeerFrames \in Nat
ASSUME NoRelayAssumption == NoRelay \notin Relays

(* An answer is a META chunk and then its body, cut into pieces of         *)
(* Capacity, or an ERROR.                                                  *)
Chunk(n, part, flags, st) == [req |-> n, part |-> part, flags |-> flags, state |-> st]

ErrorAnswer(n) == << Chunk(n, 0, {}, "ERROR") >>

\* Mutant: the loop that cuts the body runs to `at <= length`.
CutOneTooMany(length, pieces) ==
  IF length = 0 THEN pieces = 1
  ELSE (pieces - 1) * Capacity <= length /\ length < pieces * Capacity

\* A body is cut at every multiple of Capacity below its length; an empty one
\* is one empty piece.
Cut(length, pieces) ==
  IF length = 0 THEN pieces = 1
  ELSE (pieces - 1) * Capacity < length /\ length <= pieces * Capacity

\* MORE on the pieces that end before the body does.
OkAnswer(n, length, pieces) ==
  << Chunk(n, 0, {"META"}, "CHUNK") >> \o
  [i \in 1 .. pieces |-> Chunk(n, i, IF i * Capacity < length THEN {"MORE"} ELSE {}, "CHUNK")]

MaxPieces == MaxBody + 1

Answers(n) ==
  {ErrorAnswer(n)} \cup
  {OkAnswer(n, cut[1], cut[2]) :
     cut \in {c \in (0 .. MaxBody) \X (1 .. MaxPieces) : Cut(c[1], c[2])}}

NoChunk == Chunk(0, 0, {}, "IDLE")
Chunks == {NoChunk} \cup UNION {{Chunk(n, i, f, s) : i \in 0 .. MaxPieces,
             f \in SUBSET {"META", "MORE"}, s \in {"CHUNK", "ERROR"}} : n \in Requests}

PeerFrames == [frame : {"peer"}, peer : Peers, relay : Relays \cup {NoRelay}]
RequestFrames == [frame : {"request"}, n : Requests, peer : Peers]

VARIABLES
  \* the page
  page,         \* the page's messages the DuckDB worker has not handled yet
  asked,        \* how many requests the page has asked for
  frames,       \* how many `peer` frames the page has sent
  told,         \* told[p]: the relay of the page's last `peer` frame for p
  wanted,       \* wanted[n]: told[p] when the page asked for request n to p
  \* shared memory
  ready,        \* ctl[READY]
  state,        \* ctl[STATE]
  flags,        \* ctl[FLAGS]
  data,         \* the data area (with ctl[LEN])
  \* the shim
  spc,          \* where roundTrip stands
  cur,          \* the request roundTrip is for, 0 when none
  seen,         \* the STATE and FLAGS roundTrip has read
  payload,      \* the chunk it has copied out
  meta,         \* the META chunk it has
  body,         \* the body chunks it has
  answer,       \* answer[n]: what XHR.send gave back for request n
  \* the bridge
  alive,        \* it is running
  inbox,        \* messages posted to it
  peerRelays,   \* its map of that name
  pending,      \* requests it has started and not settled
  dialled,      \* dialled[n]: the relay it used
  sent,         \* sent[n]: the answer it settled on
  bpc,          \* where writeChunk stands, "loop" when the event loop is free
  out,          \* the chunks it still has to write
  \* the rest
  errored,      \* bridgeError: the shim has had an `error` event of the bridge
  late          \* the shim has given up on a live bridge that was still at work

pageVars == <<page, asked, frames, told, wanted>>
shimVars == <<spc, cur, seen, payload, meta, body, answer>>
memory == <<ready, state, flags, data>>
bridgeVars == <<alive, inbox, peerRelays, pending, dialled, sent, bpc, out>>
fate == <<errored, late>>
vars == <<pageVars, shimVars, memory, bridgeVars, fate>>

None == [kind |-> "none"]

TypeOK ==
  /\ page \in Seq(PeerFrames \cup RequestFrames)
  /\ asked \in 0 .. MaxRequests
  /\ frames \in 0 .. MaxPeerFrames
  /\ told \in [Peers -> Relays \cup {NoRelay}]
  /\ wanted \in [Requests -> Relays \cup {NoRelay, DefaultRelay}]
  /\ ready \in {"NOT_READY", "READY_OK", "READY_FAILED"}
  /\ state \in {"IDLE", "CHUNK", "ERROR"}
  /\ flags \in SUBSET {"META", "MORE"}
  /\ data \in Chunks
  /\ spc \in {"loop", "ready", "wait", "copy", "release"}
  /\ cur \in 0 .. MaxRequests
  /\ seen \in [state : {"IDLE", "CHUNK", "ERROR"}, flags : SUBSET {"META", "MORE"}]
  /\ payload \in Chunks
  /\ meta \in Chunks
  /\ body \in Seq(Chunks)
  /\ answer \in [Requests -> [kind : {"none", "timeout", "no bridge"}]
                     \cup [kind : {"error"}, text : Chunks]
                     \cup [kind : {"ok"}, meta : Chunks, body : Seq(Chunks)]]
  /\ alive \in BOOLEAN
  /\ inbox \in Seq(PeerFrames \cup RequestFrames)
  /\ peerRelays \in [Peers -> Relays \cup {NoRelay}]
  /\ pending \in SUBSET Requests
  /\ dialled \in [Requests -> Relays \cup {NoRelay, DefaultRelay}]
  /\ sent \in [Requests -> Seq(Chunks)]
  /\ bpc \in {"loop", "wait", "fill", "flag", "publish"}
  /\ out \in Seq(Chunks)
  /\ errored \in BOOLEAN
  /\ late \in BOOLEAN

Init ==
  /\ page = <<>>
  /\ asked = 0
  /\ frames = 0
  /\ told = [p \in Peers |-> NoRelay]
  /\ wanted = [n \in Requests |-> NoRelay]
  /\ ready = "NOT_READY"
  /\ state = "IDLE"
  /\ flags = {}
  /\ data = NoChunk
  /\ spc = "loop"
  /\ cur = 0
  /\ seen = [state |-> "IDLE", flags |-> {}]
  /\ payload = NoChunk
  /\ meta = NoChunk
  /\ body = <<>>
  /\ answer = [n \in Requests |-> None]
  /\ alive = TRUE
  /\ inbox = <<>>
  /\ peerRelays = [p \in Peers |-> NoRelay]
  /\ pending = {}
  /\ dialled = [n \in Requests |-> NoRelay]
  /\ sent = [n \in Requests |-> <<>>]
  /\ bpc = "loop"
  /\ out = <<>>
  /\ errored = FALSE
  /\ late = FALSE

\* peerRelays.get(peer) ?? defaultRelay.
RelayFor(map, p) == IF map[p] = NoRelay THEN DefaultRelay ELSE map[p]

-----------------------------------------------------------------------------
(* The page: it registers a peer's relay and then runs SQL, both by        *)
(* postMessage to the DuckDB worker.                                       *)

PageRegisters(p, relay) ==
  /\ frames < MaxPeerFrames
  /\ frames' = frames + 1
  /\ told' = [told EXCEPT ![p] = relay]
  /\ page' = Append(page, [frame |-> "peer", peer |-> p, relay |-> relay])
  /\ UNCHANGED <<asked, wanted, shimVars, memory, bridgeVars, fate>>

PageAsks(p) ==
  /\ asked < MaxRequests
  /\ asked' = asked + 1
  /\ wanted' = [wanted EXCEPT ![asked + 1] = RelayFor(told, p)]
  /\ page' = Append(page, [frame |-> "request", n |-> asked + 1, peer |-> p])
  /\ UNCHANGED <<frames, told, shimVars, memory, bridgeVars, fate>>

-----------------------------------------------------------------------------
\* The shim, on the DuckDB worker's thread.

\* The message listener passes a `peer` frame on; duckdb never sees it.
ShimForwards ==
  /\ spc = "loop"
  /\ page # <<>>
  /\ Head(page).frame = "peer"
  /\ inbox' = Append(inbox, Head(page))
  /\ page' = Tail(page)
  /\ UNCHANGED <<asked, frames, told, wanted, shimVars, memory,
                 alive, peerRelays, pending, dialled, sent, bpc, out, fate>>

\* duckdb runs a query, which sends: XHR.send calls roundTrip.
ShimSends ==
  /\ spc = "loop"
  /\ page # <<>>
  /\ Head(page).frame = "request"
  /\ cur' = Head(page).n
  /\ spc' = "ready"
  /\ UNCHANGED <<pageVars, memory, bridgeVars, seen, payload, meta, body, answer, fate>>

(* An uncaught error of the bridge, at its start or later (it may go on    *)
(* running): the listener runs when the thread is at its event loop.       *)
ShimHearsError ==
  /\ spc = "loop"
  /\ ~errored
  /\ errored' = TRUE
  /\ ready' = "READY_FAILED"
  /\ UNCHANGED <<pageVars, shimVars, state, flags, data, bridgeVars, late>>

\* XHR.send has its outcome: a response, or a 502 made of the error.
Finish(outcome) ==
  /\ answer' = [answer EXCEPT ![cur] = outcome]
  /\ spc' = "loop"
  /\ cur' = 0
  /\ page' = Tail(page)
  /\ meta' = NoChunk
  /\ body' = <<>>

\* waitForBridge throws: an `error` event came, the bridge failed to start, or
\* 30 seconds went by.
ShimFindsNoBridge ==
  /\ spc = "ready"
  /\ errored \/ ready # "READY_OK"
  /\ Finish([kind |-> "no bridge"])
  /\ UNCHANGED <<asked, frames, told, wanted, memory, bridgeVars, seen, payload, fate>>

\* waitForBridge returns: STATE is reset (and not notified), the request posted.
ShimPosts ==
  /\ spc = "ready"
  /\ ~errored
  /\ ready = "READY_OK"
  /\ state' = "IDLE"
  /\ inbox' = Append(inbox, Head(page))
  /\ spc' = "wait"
  /\ UNCHANGED <<pageVars, cur, seen, payload, meta, body, answer, ready, flags, data,
                 alive, peerRelays, pending, dialled, sent, bpc, out, fate>>

ShimObserves ==
  /\ spc = "wait"
  /\ state # "IDLE"
  /\ seen' = [state |-> state, flags |-> flags]
  /\ spc' = "copy"
  /\ UNCHANGED <<pageVars, cur, payload, meta, body, answer, memory, bridgeVars, fate>>

ShimCopies ==
  /\ spc = "copy"
  /\ payload' = data
  /\ spc' = "release"
  /\ UNCHANGED <<pageVars, cur, seen, meta, body, answer, memory, bridgeVars, fate>>

\* Mutant: the metadata chunk is acted on before the buffer is handed back.
ReleasedUnlessMeta == IF "META" \in seen.flags THEN state ELSE "IDLE"

Released == "IDLE"

\* roundTrip acts on a chunk, its buffer already handed back.
ShimReleases ==
  /\ spc = "release"
  /\ state' = Released
  /\ \/ /\ seen.state = "ERROR"
        /\ Finish([kind |-> "error", text |-> payload])
     \/ /\ seen.state # "ERROR"
        /\ "META" \in seen.flags
        /\ meta' = payload
        /\ spc' = "wait"
        /\ UNCHANGED <<cur, body, answer, page>>
     \/ /\ seen.state # "ERROR"
        /\ "META" \notin seen.flags
        /\ "MORE" \in seen.flags
        /\ body' = Append(body, payload)
        /\ spc' = "wait"
        /\ UNCHANGED <<cur, meta, answer, page>>
     \/ /\ seen.state # "ERROR"
        /\ seen.flags = {}
        /\ Finish(IF meta = NoChunk
                  THEN [kind |-> "error", text |-> NoChunk]
                  ELSE [kind |-> "ok", meta |-> meta, body |-> Append(body, payload)])
  /\ UNCHANGED <<asked, frames, told, wanted, seen, payload, ready, flags, data, bridgeVars, fate>>

\* Mutant: a bridge that has died is waited for without a deadline.
ShimWaitsForEver == FALSE /\ UNCHANGED vars

\* The bridge has the request to read, to perform or to write out.
AtWork ==
  \/ bpc # "loop"
  \/ pending # {}
  \/ \E i \in 1 .. Len(inbox) : inbox[i].frame = "request"

(* The deadline passes while STATE is IDLE, before the first chunk or      *)
(* between two.                                                            *)
ShimGivesUp ==
  /\ spc = "wait"
  /\ state = "IDLE"
  /\ Finish([kind |-> "timeout"])
  /\ late' = (late \/ (alive /\ AtWork))
  /\ UNCHANGED <<asked, frames, told, wanted, memory, bridgeVars, seen, payload, errored>>

-----------------------------------------------------------------------------
(* The bridge.  Its event loop runs one handler at a time; a handler gives *)
(* way only at `await`, so performIroh reads peerRelays in the same turn   *)
(* as the message arrives, and an answer is written in one turn, blocking. *)

\* What init stores in READY after an `error` event is not looked at.
BridgeStarts ==
  /\ alive
  /\ ready = "NOT_READY"
  /\ ready' \in {"READY_OK", "READY_FAILED"}
  /\ UNCHANGED <<pageVars, shimVars, state, flags, data, bridgeVars, fate>>

\* Mutant: the frame is stored where its relay should be.
RegisteredWhole(m) == [peerRelays EXCEPT ![m.peer] = m]

\* Mutant: a frame without a relay registers nothing.
RegisteredIfAny(m) ==
  IF m.relay = NoRelay THEN peerRelays ELSE [peerRelays EXCEPT ![m.peer] = m.relay]

\* A frame without a relay stores null, and so forgets an earlier one.
Registered(m) == [peerRelays EXCEPT ![m.peer] = m.relay]

BridgeReceives ==
  /\ alive
  /\ bpc = "loop"
  /\ inbox # <<>>
  /\ inbox' = Tail(inbox)
  /\ LET m == Head(inbox) IN
       \/ /\ m.frame = "peer"
          /\ peerRelays' = Registered(m)
          /\ UNCHANGED <<pending, dialled>>
       \/ /\ m.frame = "request"
          /\ pending' = pending \cup {m.n}
          /\ dialled' = [dialled EXCEPT ![m.n] = RelayFor(peerRelays, m.peer)]
          /\ UNCHANGED peerRelays
  /\ UNCHANGED <<pageVars, shimVars, memory, alive, sent, bpc, out, fate>>

\* The request resolves or rejects (by its own timeout at the latest).
BridgeSettles(n) ==
  /\ alive
  /\ bpc = "loop"
  /\ n \in pending
  /\ pending' = pending \ {n}
  /\ \E a \in Answers(n) :
       /\ sent' = [sent EXCEPT ![n] = a]
       /\ out' = a
  /\ bpc' = "wait"
  /\ UNCHANGED <<pageVars, shimVars, memory, alive, inbox, peerRelays, dialled, fate>>

\* writeChunk: wait for IDLE, then data and LEN, then FLAGS, then STATE.
BridgeSeesIdle ==
  /\ alive
  /\ bpc = "wait"
  /\ state = "IDLE"
  /\ bpc' = "fill"
  /\ UNCHANGED <<pageVars, shimVars, memory, alive, inbox, peerRelays, pending, dialled, sent, out, fate>>

BridgeFills ==
  /\ alive
  /\ bpc = "fill"
  /\ data' = Head(out)
  /\ bpc' = "flag"
  /\ UNCHANGED <<pageVars, shimVars, ready, state, flags,
                 alive, inbox, peerRelays, pending, dialled, sent, out, fate>>

\* Mutant: STATE is stored before FLAGS.
BridgeFlagsPublished ==
  /\ alive
  /\ bpc = "flag"
  /\ state' = Head(out).state
  /\ bpc' = "publish"
  /\ UNCHANGED <<pageVars, shimVars, ready, flags, data,
                 alive, inbox, peerRelays, pending, dialled, sent, out, fate>>

BridgeFlags ==
  /\ alive
  /\ bpc = "flag"
  /\ flags' = Head(out).flags
  /\ bpc' = "publish"
  /\ UNCHANGED <<pageVars, shimVars, ready, state, data,
                 alive, inbox, peerRelays, pending, dialled, sent, out, fate>>

BridgePublishes ==
  /\ alive
  /\ bpc = "publish"
  /\ state' = Head(out).state
  /\ out' = Tail(out)
  /\ bpc' = IF Tail(out) = <<>> THEN "loop" ELSE "wait"
  /\ UNCHANGED <<pageVars, shimVars, ready, flags, data,
                 alive, inbox, peerRelays, pending, dialled, sent, fate>>

\* The bridge dies wherever it stands (or has fault = 'blackhole').
BridgeDies ==
  /\ alive
  /\ alive' = FALSE
  /\ UNCHANGED <<pageVars, shimVars, memory, inbox, peerRelays, pending, dialled, sent, bpc, out, fate>>

-----------------------------------------------------------------------------
ShimStep ==
  \/ ShimForwards \/ ShimSends \/ ShimFindsNoBridge \/ ShimPosts
  \/ ShimObserves \/ ShimCopies \/ ShimReleases \/ ShimGivesUp

BridgeWrites == BridgeSeesIdle \/ BridgeFills \/ BridgeFlags \/ BridgePublishes
BridgeStep == BridgeReceives \/ BridgeWrites \/ \E n \in Requests : BridgeSettles(n)

Next ==
  \/ \E p \in Peers : PageAsks(p) \/ \E relay \in Relays \cup {NoRelay} : PageRegisters(p, relay)
  \/ ShimStep
  \/ BridgeStep
  \/ BridgeStarts
  \/ BridgeDies
  \/ ShimHearsError

(* The shim's thread runs (its waits are capped, so it looks again even    *)
(* when nobody notifies); a live bridge's event loop runs and every        *)
(* request it starts settles, being bounded by timeoutMs.                  *)
Spec == Init /\ [][Next]_vars /\ WF_vars(ShimStep) /\ WF_vars(BridgeStep)

-----------------------------------------------------------------------------
(* The answer XHR.send gives for a request is the one the bridge settled   *)
(* on for that request: whole, in order, and nobody else's (shim.js:       *)
(* "Blocks until the bridge has delivered every chunk of the response").   *)
AnswersMatch ==
  \A n \in Requests :
    /\ answer[n].kind = "ok" => <<answer[n].meta>> \o answer[n].body = sent[n]
    /\ answer[n].kind = "error" => <<answer[n].text>> = sent[n]

(* bridge-worker.js, writeChunk: STATE "publishes the whole chunk", so the *)
(* STATE, FLAGS and bytes roundTrip acts on belong to one chunk.           *)
NoTornChunk ==
  spc = "release" => seen = [state |-> payload.state, flags |-> payload.flags]

(* protocol.js: a `peer` frame and the requests after it travel one path,  *)
(* so a dial neither overtakes its registration nor sees a later one.      *)
DialledThroughRegisteredRelay ==
  \A n \in Requests : dialled[n] # NoRelay => dialled[n] = wanted[n]

(* No query wedges the DuckDB worker: every XHR.send returns, answered, or *)
(* by the deadline if the bridge died at any point of the exchange.        *)
EveryRequestReturns ==
  \A n \in Requests : asked >= n ~> answer[n].kind # "none"

(* writeChunk waits for IDLE with no deadline of its own, and roundTrip,   *)
(* which alone writes IDLE, waits for a chunk: while a query is in         *)
(* roundTrip the bridge is not blocked in writeChunk for ever, not even on *)
(* an answer whose own query gave up long ago.  (With no query there to    *)
(* write IDLE it is: nothing reads the rest of that answer.)               *)
NoMutualWait ==
  spc \in {"wait", "copy", "release"} /\ bpc = "wait" ~> bpc # "wait" \/ ~alive

-----------------------------------------------------------------------------
\* What XHR.send gives back, as a sequence of chunks.
Given(outcome) ==
  CASE outcome.kind = "none"  -> <<>>
    [] outcome.kind = "ok"    -> <<outcome.meta>> \o outcome.body
    [] outcome.kind = "error" -> <<outcome.text>>
    [] OTHER                  -> <<NoChunk>>

Abstract == INSTANCE BlockingCall WITH
  MaxCalls <- MaxRequests,
  Responses <- UNION {Answers(n) : n \in Requests},
  Nothing <- <<>>,
  Failed <- <<NoChunk>>,
  performed <- pending \cup {n \in Requests : sent[n] # <<>>},
  settled <- sent,
  result <- [n \in Requests |-> Given(answer[n])],
  down <- ~alive,
  void <- late

(* The shim and the bridge together are a blocking call (shim.js: "Blocks  *)
(* until the bridge has delivered every chunk of the response"): one call  *)
(* at a time, performed at most once, returning its own answer; and one    *)
(* that fails beside a live bridge has not been and will not be performed. *)
(* All this until a live bridge first misses the deadline.                 *)
ImplementsBlockingCall == Abstract!Spec
=============================================================================
