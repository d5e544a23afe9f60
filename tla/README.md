# quackhole: a TLA+ model

quackhole makes a DuckDB database reachable by endpoint id. A serving database
runs DuckDB's own Quack HTTP server on localhost and bridges every incoming
QUIC stream to it; a client sends each of Quack's HTTP requests as one
bi-stream to the peer. The client is either native (a DuckDB extension around a
Rust core, driven by many threads) or a browser page (a DuckDB worker that must
block, and a second worker that may not). This directory models the parts of it
where several actors meet: what a request may and may not do to a remote
database, what `quackhole_stop()` leaves behind, how the two browser workers
share one buffer, how the page's list of remotes stays true over a worker that
answers later, who may type at the shell's prompt, which identity and relays a
database serves with, and what `npx quackhole` leaves on a machine.

All paths below are relative to the repository's root. `PROJECT.json` gives, for
each definition, the lines it was translated from.

    cd tla
    tlasany Dial.tla                                # parse
    tlc -workers 2 -config MCDial.cfg MCDial        # model-check
    tlapm DialProofs.tla                            # check the proofs
    tlapm DialHandleProofs.tla
    tlapm ServeProofs.tla
    tlapm TerminalProofs.tla
    tlapm LauncherProofs.tla
    tlapm ExtensionProofs.tla
    tlapm ShimBridgeProofs.tla
    tlapm WorkbenchProofs.tla

## 1. Inventory

### The parts and how they interact

    page ──postMessage──> DuckDB worker + shim.js ──postMessage──> bridge-worker.js
                               ^                                        │ (wasm core)
                               └────────── SharedArrayBuffer ───────────┤
                                                                        │ QUIC bi-stream
    SQL threads ─> quackhole_http.cpp ─> C ABI ─> dial.rs ──────────────┤ per request
                                                                        v
    Quack <──localhost TCP── bridge task <── connection task <── accept loop (serve.rs)
                                                                        ^
    SQL threads ─> quackhole_serve / quackhole_stop ─> C ABI ───────────┘

    visitor ──keys──> shell's prompt ──runQuery──> app.js ──> session.js ──> DuckDB worker
    agent ───webmcp.js───────────────────────────────┘
    npx quackhole ──> a DuckDB of its own ──> quackhole_serve

| Part | State it keeps | Operations | Talks to others by |
| --- | --- | --- | --- |
| **Outbound requests** `crates/quackhole-core/src/dial.rs` | connection cache (a map by endpoint id behind a mutex); per request: attempt, the `reused` flag, a handle | `request`, `get_or_connect`, `put`, `invalidate`, `close_all` | called by any thread (it blocks on the runtime); shares the cache and the peer table |
| **Inbound serving** `serve.rs` | `Core.serve` (a handle behind a mutex); per start: allow list, cancellation token, task tracker, accept loop; per connection and per stream: a task | `serve_start`, `serve_stop`, `is_serving`, accept, handshake, bridge | called by SQL threads; driven by peers; a TCP connection per stream to Quack |
| **Peer table** `lib.rs`, `ffi.rs` | endpoint id -> (path, direction) behind a mutex | `record_peer`, `peer_count`, `peer_info` | written by diallers and by the accept side, read by `quackhole_status()` |
| **Core lifecycle** `lib.rs`, `ffi.rs` | the endpoint, the runtime | bind, wait for a relay, shutdown | owns the three above |
| **Endpoint key file** `lib.rs` | a file | load or create | shared by processes |
| **HTTP framing and compression** `http.rs`, `compress.rs` | none | read a request's head, parse a response, compress while it streams | called by both sides of an exchange |
| **C ABI** `ffi.rs`, `quackhole_core.h` | none of its own | marshalling | between C++ and Rust |
| **Tickets, peer addresses** `peer.rs` | none | encode, parse | everywhere |
| **Native HTTP client** `src/quackhole_http.cpp` | the chain of wrapped HTTP utils | `RoundTrip`, re-arming after another extension replaced the util | called by DuckDB's retry loop, calls the core |
| **SQL functions** `src/quackhole_extension.cpp` | secrets, an attached catalog, a running Quack | serve, attach, stop, status | call the core and DuckDB's own `quack_serve`, `CREATE SECRET`, `ATTACH` |
| **Per-database state** `src/quackhole_state.cpp` | one core, the relays and the key it was bound with | `GetOrCreateCore` | shared by all threads of a database |
| **Browser shim and bridge** `web/shim.js`, `web/bridge-worker.js`, `web/protocol.js`, `crates/quackhole-web` | four words and a data area of shared memory; the bridge's `peerRelays` | `XHR.send`/`roundTrip`, `writeChunk`, `peer` frames | messages one way, shared memory the other |
| **Browser session** `web/session.js` | the list of attachments; in the worker secrets and catalogs | attach, detach, reconcile, tables | async functions over one DuckDB worker, which runs their queries in the order they were posted |
| **Workbench** `site/app.js`, `wire.js`, `webmcp.js` | the session it holds, the rail, a route per remote, the activity strip, a count of the keys at the prompt, waiters for typed statements | add and drop a remote, list, `.open` and rebuild, greet, announce, run in the shell | calls the session; sees each query of the shell go out and come back; types at the shell's prompt |
| **npx launcher** `npm/bin/quackhole.js` | the cached extension, a work directory, a port | probe, download, serve, print the link, clean up | processes of one machine, through its files and ports; runs `quackhole_serve` |
| **npm browser package** `npm/src/quackhole.js` | none | builds a worker's URL | |

### What makes each part hard, and what makes it correct

* **Outbound requests.** Hard: every thread passes through the cache several
  times in one request, under a separate lock each time; a cached connection
  may be dead without our knowing; a failure may come before or after the peer
  acted; the timeout can drop the future at any `await`. Correct: a request is
  never applied twice; a dead cached connection never costs an answer once the
  peer is reachable; one request's failure never closes a connection another is
  using; every call returns; nothing outlives `qh_core_free`.
* **Inbound serving.** Hard: stop takes the handle, cancels, joins and drains
  in separate steps; a handshake does not watch the token; tasks spawn tasks;
  unbiased selects; the endpoint may close under the loop, and the handle stays.
  Correct: a stop that
  returned in time left nothing; a stop that ran out of time still ends
  everything; the allow list of each start governs what it accepted; `serving`
  is not wrong; there is one accept loop.
* **Peer table.** Correct: what `quackhole_status()` has shown is not
  forgotten; rows are each reported once although the count and each row are
  separate snapshots.
* **Native HTTP client.** Correct: a statement is applied at most once, DuckDB's
  retries included; no client bypasses quackhole while the util is re-armed.
* **Browser shim and bridge.** Hard: the shim's thread has no event loop while
  it blocks, nothing in the buffer names a request, either side may be late or
  gone. Correct: each request gets its own whole answer, no torn chunk is acted
  on, a dial uses the relay registered before it, nobody waits for ever.
* **Browser session.** Hard: each call awaits several answers, and decides
  from what it saw before them. Correct: the list, the catalogs and the secrets
  agree after any interleaving of attach and detach, and after each partial
  failure.
* **Workbench.** Hard: the rail and the routes are drawn from a list other calls
  change; `.open` takes the database from under all of them; the shell's line
  cannot be read, and three parties type on it. Correct: once nothing is out
  the rail shows what is attached; a remote has its route; nothing typed by the
  page is joined onto half a line; a caller is told what became of its own
  statement, which runs at most once; nothing claims to be under way that is not.
* **npx launcher.** Hard: other launchers share the cache and the ports, and it
  may be killed or interrupted at any await. Correct: the cache holds a whole
  file or none; the printed link is accepted; no work directory stays behind.
* **SQL functions and per-database state.** Correct: a refused
  `quackhole_serve` changes nothing; an identity or relay set that serve was
  asked for is the one it uses; the ticket's token is the one Quack accepts; a
  failed attach leaves an earlier one intact.
* **Framing.** Correct: a response that ended early is not taken for a whole one.
* **Key file.** Correct: two processes that race, or one that crashes, end with
  one readable key.
* **Lifecycle.** Correct: `qh_core_free` ends within its documented bound with
  nothing left.

`PROJECT.json` lists these hazards at their lines, with the properties that
cover each, or why none does.

## 2. What is modelled

| Module | Models | Extends |
| --- | --- | --- |
| `AtMostOnce` | the abstract promise of the outbound side | |
| `Dial` | `dial.rs`, `record_peer`, the network and the peer under them | |
| `DialProofs` | theorems about `Dial`: types, at most once, the refinement | `Dial` |
| `DialHandleProofs` | theorems about `Dial`: its connections, its cache, the peer table | `DialProofs` |
| `NativeClient` | `RoundTrip` and DuckDB's retry loop on top of the core | `Dial` |
| `Serve` | `serve.rs` | |
| `ServeProofs` | theorems about `Serve` | `Serve` |
| `BlockingCall` | the abstract promise of shim and bridge | |
| `ShimBridge` | the page, the shim, the bridge worker, their memory | |
| `ShimBridgeProofs` | theorems about `ShimBridge` | `ShimBridge` |
| `Session` | `session.js` over the DuckDB worker | |
| `Workbench` | the rail, the routes and `.open` of `app.js`, `list-connections` of `webmcp.js`, over the session | `Session` |
| `WorkbenchProofs` | theorems about `Workbench`, the session's included | `Workbench` |
| `Terminal` | the prompt: the shell, the visitor, and everything `app.js` types | |
| `TerminalProofs` | theorems about `Terminal` | `Terminal` |
| `Launcher` | `npm/bin/quackhole.js` | |
| `LauncherProofs` | theorems about `Launcher` | `Launcher` |
| `Extension` | `quackhole_extension.cpp`, `quackhole_state.cpp`, `load_or_create_key` | |
| `ExtensionProofs` | theorems about `Extension` | `Extension` |
| `MCDial`, `MCNativeClient`, `MCServe`, `MCShimBridge`, `MCWorkbench`, `MCTerminal`, `MCLauncher`, `MCExtension` | values for TLC | |

### Dial

A connection is named `<<r, k>>`, after the request and the attempt that
dialled it. The cache, each request's position in `request_async` (`pc`), its
attempt, its `reused` flag and its handles are variables of the code; `link`
and `wire` are the state of each connection and how far the bytes of each
attempt have come, which the code cannot see. One action is one access to
shared state or one `await`: `Call` (samples `reused`), `Lookup`, `Connect` (the
handshake is over), `Put` (the connection goes into the cache), `Record`
(`record_peer`), `ConnectFails`, `OpenStream`, `WriteRequest`, `SendFails` and
`ReadFails` (the two failing arms, with `invalidate` and the redial), `Reply`,
`UselessReply` (a truncated or unparsable response), `TimesOut`, `CloseAll`.
`PeerDialsIn` is the accept side's `record_peer`, as often as a peer dials in and
over whatever entry there is. A connection is dropped when its last handle is:
`ReleaseUnheld` does that at the end of every action that lets a handle go, as
Rust's `Drop` does. The environment delivers, applies, restarts the peer (our
side is not told, the connection is `lost`), closes connections, lets the idle
timeout notice, and lets peers dial in.

Two ghost variables carry the meaning of one property. `stable` says that the
environment has stopped failing, `calm[r]` that request `r` was submitted when
it had, with no connection to its peer still silently dead and none that has
died between its handshake and its `put` (`DiedUnput`). Silently dead
connections are left out of `calm` because nothing can save a request that is
written into one: it was sent, so it may not be retried, and it fails. A
connection *known* to be closed is the case the redial exists for, and it covers
whatever is in the cache when the request is submitted. It does not cover a dead
connection that another thread puts there afterwards: `reused` was sampled
before, as false, and the request fails without a redial. Ten steps of two
threads reach that; `DiedUnput` names it, and the property says that nothing
else can cost an answer.

`CloseAll` waits for the calls in the core to return, which is what
`qh_core_free`'s header demands of its caller. A `calm` request does not time
out: the model assumes that a healthy peer answers within the timeout.

`Dial` implements `AtMostOnce`: a request is submitted, takes effect at most
once, is reported as answered only if it took effect, and may be reported as
failed either way, even before it takes effect. `Abstract` in `Dial.tla` is the
refinement mapping.

### NativeClient

The n-th sending of a statement is the core's request `<<s, n>>`. `RoundTrip`
turns the core's outcome into a response: a status, or a `request_error`
whenever there is no response or no readable status line. `Send` sends the
statement again when the response of the sending before carries one, up to
`Retries` times, as DuckDB's `RunRequestWithRetry` does (DuckDB's own code is
not in this repository; the header comment in `src/quackhole_http.cpp` and the
fields it sets say how it is used).

### Serve

Every successful `serve_start` is a *generation*, with its token, tracker,
accept loop and allow list. `ServeStart` is one step because the code holds the
mutex throughout; `serve_stop` is four (`StopTakes`, `StopCancels`,
`StopJoins`, `StopDrains`) with `StopGivesUp` for the deadline, because it does
not. The loop ends when its token is cancelled or the endpoint has closed
(`EndpointCloses`), and in the second case its handle stays in the mutex. So
`IsServing`, which is `is_serving`, asks for the handle and for its loop, while
`serve_start` refuses on the handle alone: after the endpoint has closed
`quackhole_status()` says that nothing is served and `serve_start` that it is
already serving, until a stop has taken the dead handle. A connection goes
incoming, handshake, serving, over; a stream's bridge goes opened, sniff,
connect, copy, over. It may fail at every step (`BridgeFails`), on its own as
well as with its connection, and it stays in `copy` for as long as the peer does
not drain the reply. `ConnEnds`, `LoopEnds` and `BridgeCancelled` are the
cancelled arms of the selects; each stands beside the other arm, and either may
be taken. `Tracked` is what the tracker counts, which
is not everything that is alive: the accept loop is joined separately, and the
order of the two is what `DrainedIsQuiet` is about.

### ShimBridge

The shared words `READY`, `STATE` and `FLAGS` and the data area are variables,
and each store into or load from them is a step of its own. A chunk in the
model carries the request and the part it belongs to; the real one does not,
and no action reads them. An answer is an error, or metadata and then
the body in pieces of `Capacity`: `Cut` says how many there are (one for an empty
body, and no empty one after a body that fills its last exactly), with `MORE` on
all but the last. The page posts `peer` frames and requests in any order; `told`
and `wanted` remember which relay it last named, for the property. The bridge's
event loop runs one handler to its next `await`, so it is in `loop` or in the
middle of a blocking `writeChunk`. It may fail to start, may be heard to have
thrown while it runs (`ShimHearsError`), and may die at any step.

The shim gives up whenever its deadline has passed and STATE is IDLE, on a bridge
that lives too. A bridge that then goes on writes chunks nobody waits for, and
stays in `writeChunk` until a next query comes. `protocol.js` says of `GRACE_MS`
that the bridge's error arrives first; nothing enforces it. So the history
variable `late` becomes true when the shim gives up on a live bridge that was
still at work, and stays true. What depends on that comment is claimed until
then (the answers); what does not is claimed of every behaviour (no torn chunk,
the relay, that every request returns, that shim and bridge never wait for each
other). What happens to the answers once it is late is in section 4.

`ShimBridge` implements `BlockingCall`, which says what `roundTrip` is for: calls
are taken one at a time in the order asked, each is performed at most once and
only in its turn, returns what it settled on, and one that fails while the bridge
lives was not performed and will not be. Its promise is `void` from the step that
makes `late` true. A call is performed when the bridge reads it, settled when
`performIroh` is, and has returned when `XHR.send` has; what passes through the
buffer in between is not seen.

### Session and Workbench

The worker runs the queries of all calls in the order they were posted
(`posted`) and its answers come back in that order (`replies`); a call is where
it is (`at`) and what it works on (`job`), and the handler of an answer is one
step. `Attach` is `attach` up to its first await: it takes a name from the list
and asks whether the peer is on it, and the list is extended three answers
later in `AttachReturns`. `Detach`, `DetachGoesOn`, `DetachReconciles`,
`DetachReturns` are the awaits of `detach`; the DETACH may fail and the secret
goes all the same. `Reconciled` filters the list by an answer that may be old
by then. A line typed by hand (`WorkerRunsTyped`) attaches or detaches behind the
session's back, and may fail after it has done so, since it may hold several
statements. The page reads its answer in `AfterQuery`: it redraws only after a
line that succeeded and begins with one of five keywords (`Redraws`). A "buried"
detach is one behind a comment or another statement, which that test does not
see.

`Workbench` adds what the page draws. `views` is the map of routes; the route
drawn by a call still dialling is that call, since only it may light it, and
`orphans` are routes that `views.set` has replaced and nothing will take down.
`AddRemoteReturns`, `AddRemoteThrows`, `RefreshRedraws` are `addRemote`,
`attached` and `refreshSchema`; `DropRemote` takes any remote the rail shows,
which may be gone. `ShellOpens`, `Rebuild` and `Rebuilt` are `.open`: the worker
drops everything, a session is made for the new database, and until it is there
the calls of the old one go on and fail.

Four history variables name what the code does not prevent, so that the
properties can say that nothing else goes wrong. `crossed` holds the peers whose
attach overlapped another attach or a reconcile: two attaches may take one name
or one peer, and a list read before an ATTACH and applied after it takes the
new route down. `strayed` holds peers with a token whose catalog was taken by
hand or in another's name, or could not be detached: their secret stays or goes
alone. `stale` says that the last rebuild failed; the page then shows the list
it had. `unread` holds the names detached by hand in a line after which nothing
is redrawn, until the catalogs are next read: the rail goes on showing them.

### Terminal

The line is a sequence of the visitor's keys and the page's statements,
each statement one element, with a `cursor` among them (not inside a
statement). The shell takes keys only while it is ready and
nothing runs; `promptLen` counts them always. `ArrowsSideways` moves the cursor
and `ArrowUp` fills the line from the history, neither of them counted;
`Backspace` is counted wherever the cursor is and deletes what is before it; a
paste counts one however long it is. A statement of the page's is typed
in one turn of the event loop (`typeIntoShell`), so it is one step with its
Enter. `runInShell` is a queue of turns; a caller waits in `typed` until
`settle` finds exactly its text, or until the 60 seconds are over (`Expires`),
which may happen while its statement runs on. `pending` is keyed by the text, as
in the code: `TextOf` says what each caller asks for, two callers may ask for
the same, and a waiter is told of whatever ran under its text. `Submits`,
`ShowActivity` and `stopActivity` are the strip and the busy wires, and
`QueryFails` is both of `runQuery`'s exits on an error. `overlooked` remembers,
for as long as the line is not empty, that the visitor has pasted, pressed Enter
on an unfinished statement, called an earlier one back with ArrowUp, or pressed
Backspace at the beginning of the line: the four ways a line can come to hold
more than the page has counted. `previewResult` is a pure operator over the
shape of a result (rows, columns, which values are long).

### Launcher

One action per await of `main`, the signal handlers beside it, and a stranger
that listens on ports. The cached file and the `.part` of each launcher are
absent, truncated or whole; writing one passes through truncated. A launcher may
be killed anywhere, and interrupted once its handlers are installed; the
handler's steps (the removal begins, is done or has failed, the exit) and
`main`'s go on side by side. `ServeGoesWithout` is the failure of `quack_serve`
that `quackhole_serve` swallows, whatever its reason; the link is printed all the
same. Three history variables name what is not prevented: `overtaken` holds the
launchers whose port was taken between the probe and Quack's bind, another
launcher's probe included, which binds the port for a moment; `quackless`, those
whose Quack did not start although nobody listened on the port; `raced`, those
whose `main` wrote into the work directory while the handler was removing it, so
that the removal may fail, which is swallowed too. A run with `QH_EXT` is not
modelled, and a removal nobody writes into is taken to work.

### Extension

A database is a process, a thread is where its call is. `Serve` starts Quack
before anything that may refuse the call, as `MaybeStartQuackServer` does. The
checks come one after the other: whether a throwaway identity can still be given
(`ServeChecks`), the relays setting read without a lock (`ServeReads`), those
relays against the ones an endpoint is bound with (`ServeCompares`); `ServeRefuses`
is the refusal of the first and of the third. Both hold `core_lock` and let it go
again. A call that binds with the settings reads them, once more, before it takes
the lock (`ReadsSettings`; `ephemeral := true` binds with what it has compared),
so that a `SET` may come in between; under the lock it is `FindsCore` (somebody
has bound it meanwhile) or `CreatesCore`, then the key file's `exists`,
`create_new`, write and read, each a step other processes can come between, then
`BindsCore`. `quackhole_attach` replaces the peer's secret (`CreatesSecret`, or
`SecretFails`), attaches, and drops the secret if that failed. `Restarts` ends
the process at any step and
leaves the key file as it is. Three conditions name what the code does not
prevent: `saw = "overtaken"` (the endpoint was bound by another call between a
serve's check and its bind), `relays = TooLong` (bound before the list turns out
not to fit `NormalizeRelays`' buffer), and `redone` (a peer attached again over
itself, whose failure drops the first one's secret).

## 3. What the runs show

| Run | Bounds | Properties | Shows |
| --- | --- | --- | --- |
| `dial` | 2 requests, 1 peer, 2 paths, fair; 296 thousand states | `TypeOK`, `AppliedAtMostOnce`, `StaleCacheIsInvisible`, `OnlyUnheldIsClosed`, `KnownPathsStayKnown`, `ImplementsAtMostOnce`, `EveryCallReturns` | two threads over one cache, the accept side beside them: the refinement, liveness, and the peer table |
| `shim_bridge` | 2 requests, bodies up to 3 in pieces of 2, 2 `peer` frames; 161 thousand states | `TypeOK`, `ImplementsBlockingCall`, `NoTornChunk`, `DialledThroughRegisteredRelay`, `EveryRequestReturns`, `NoMutualWait` | the refinement, and the buffer protocol with a bridge that may die, throw or answer late |
| `serve` | 2 SQL threads, 2 generations, allow lists all or `{p1}`, 2 peers with a connection each, 1 stream, fair; 535 thousand states | `TypeOK`, `DrainedIsQuiet`, `ServingIsTrue`, `OnlyAdmittedPeers`, `CancelledDies` | stop against everything in flight and an endpoint that closes; what a stop left running ends |
| `workbench` | 2 peers, one with a token, 2 names, 2 calls at a time (symmetric), 2 databases, 1 typed line or `.open`; 3.9 million states | `TypeOK`, `DistinctUnlessCrossed`, `AttachedIsListed`, `SecretsFollowTheList`, `RouteUnlessCrossed`, `NoRouteLeftBehind`, `QuietRailIsTrue` | the list, the catalogs, the secrets, the rail and the routes agree |
| `terminal` | 2 callers with a text each, 1 greeting, 1 announcement, a line and a count up to 2, results at and past each cap, fair; 1.1 million states | `TypeOK`, `NothingSpliced`, `OutcomesAreTrue`, `ActivityIsTrue`, `PreviewTellsTheTruth`, `NeverRunTwice`, `EveryCallSettles` | three parties typing at one prompt |
| `launcher` | 2 launchers run any number of times, 2 ports, 1 stranger, symmetric; 203 thousand states | `CachedIsWhole`, `LinkIsAccepted`, `NothingLeftBehind` | the cache, the port and the work directory |
| `extension` | 2 databases over one key file, 2 threads in one (set and serve; stop and attach) and 1 in the other, 1 peer, 4 relay lists: the default, two ordinary ones (symmetric), one that is too long; 1.4 million states | `OneIdentity`, `ServedAsAsked`, `AttachedHasItsSecret` | serve and attach against other threads, processes and restarts |
| `duckdb_retry` | 1 statement, 1 retry | `StatementAppliedAtMostOnce` | **violated** |
| `shim_late` | as `shim_bridge`, without `peer` frames | `AnswersMatch` | **violated** |
| `serve_twice` | as `serve` | `OneAcceptLoop` | **violated** |
| `workbench_crossed` | as `workbench`, with 3 calls and 1 database, without typing | `ConnectionsDistinct` | **violated** |
| `terminal_twins` | 2 callers with one text | `AnswerIsOwn` | **violated** |

**Why these bounds are enough for their question.** In `Dial` requests share
only what is keyed by peer (the cache entry, the table entry), so requests to
different peers cannot meet and one peer is enough. The run has two requests
with every fault and any number of times; a third could change the cache back
and forth between two steps of another, which is why the four safety properties
and the refinement are proved for any number of requests (section 5) and only
`EveryCallReturns` rests on two. The attempts are bounded by the code itself. In
`ShimBridge` the only thing that passes from one request to the next is the
memory and the queues, so the second request sees every state the first can
leave; with pieces of 2, bodies of 0 to 3 are an empty one, one that does not
fill a chunk, one that fills it exactly, and one that needs a second. In `Serve`
two generations are needed for a
stop to overlap the next start, two threads for two callers, and the second
peer is the one an allow list can refuse. In `Workbench` a hazard is
between two calls that overlap; a call that ends is free to be another, so the
number of calls one after the other is not bounded. Three at once can do more
than two: it takes a DETACH between two crossed attaches to list a name twice,
which is why `workbench_crossed` has three. That the properties of `workbench`
hold with three calls and more is not a matter of its bounds: they are proved for
any number (section 5). Two names let two remotes be listed and a name be
taken, used again and asked for twice; one typed line stands for each way
the prompt changes the catalogs, `.open` included. In `Terminal` the queue needs
two to have a turn to pass on, and a line of two keys is half a statement and a
whole one, with a cursor before, between and after them; `terminal` gives the
two callers a text each and `terminal_twins` one text, and lines, callers,
greetings and shared texts of any number are in the proofs. In `Extension` the
two ordinary relay lists are an endpoint's and another, so that a `SET` between a
serve's steps leads to every result of the comparison; both serve and attach, on
their own threads, may be the one that binds. Both
`Launcher` and `Extension` have two actors for each shared file, port or lock,
which restart for ever, and their properties are proved for any number.

**Deadlock.** The models with bounded inputs stop when these are used up (all
requests made, all generations started, the bridge dead, all callers served), so
their runs do not check for deadlock; `workbench`, `launcher` and `extension` go
on for ever and do. Being stuck is the business of `EveryCallReturns`,
`EveryRequestReturns`, `NoMutualWait`, `CancelledDies` and `EveryCallSettles`.

**Fairness, and why the code justifies it.** `Dial`: the runtime polls each future
whose `await` is ready (`Progress`), tokio's timer fires (`TimesOut`), and a
connected peer receives and answers (`Deliver`, `Apply`). No failure is fair:
the call has to return by its answer or by its timeout alone. `ShimBridge`: the
shim's waits are capped slices of `Atomics.wait`, so it looks again without
being notified; a live bridge's event loop runs, and each request it starts
settles because the core's own timeout bounds it. `BridgeDies` is not fair, nor
is the page. The bridge's fairness does not bring it out of `writeChunk`: only a
shim that reads does, so an answer that comes after its query has given up keeps
it there until the next query, which `NoMutualWait` says it then leaves.
`Serve`: the runtime polls its tasks, an unbiased select takes a
ready branch sooner or later, and a handshake completes or fails by QUIC's own
timeouts. Peers and Quack owe nothing: a silent peer keeps its bridge in
`sniff` for as long as it likes and one that stops reading keeps it in `copy`,
and only a stop is sure to end it. `Terminal`: the page
takes the turn that is due (a promise's callback runs) and its 60-second timer
fires; neither the visitor nor a statement owes anything, so a call may have to
end by its timeout alone. The other models state no liveness and no fairness.

**Every property can fail.** For each property of each passing run,
`PROJECT.json` names a definition and a changed form of it (a dropped guard,
two steps swapped, a missing reset) under which TLC finds the property
violated. The changed forms stand before the definitions they change, marked
`Mutant:`, and nothing else uses them.

## 4. Where the code and its documentation disagree

* **A statement can be applied twice** (`duckdb_retry`).
  `docs/ARCHITECTURE.md`, "At-most-once, not at-least-once", describes why the
  core redials only what was never sent. The HTTP client above it reports every
  failure, lost replies and timeouts included, as a retryable
  `request_error`, and DuckDB sends the statement again. `AtMostOnce` is a
  property of each request, not of each statement.
* **A late answer is given to the next request** (`shim_late`).
  `web/protocol.js` says `GRACE_MS` makes the bridge's error arrive first. A
  machine that sleeps, or a bridge that is busy past the grace, breaks that;
  chunks carry no request id, so the next `roundTrip` takes the answer for its
  own, and its own stays in line for the one after it.
* **Two accept loops at once** (`serve_twice`). `quackhole_core.h` says that
  `qh_serve_start` while serving returns `QH_ERR` and that every function is
  safe from any thread. `serve_stop` takes the handle out of the mutex and
  cancels its token afterwards; a start in between succeeds while the old loop
  still accepts, with the old allow list. `OnlyAdmittedPeers` and
  `ServingIsTrue` hold nevertheless: each generation keeps to its own list.
* **A caller gets the outcome of another's statement** (`terminal_twins`).
  `site/app.js:895` says of the callers waiting for an outcome that "one waiter
  per text is enough, because `runInShell` lets only one statement be at the
  prompt at a time". A statement that is not over after 60 seconds gives up its
  turn and runs on. The next caller may ask for the same text, be typed while the
  shell reads no keys, and is told when the first one ends: of a statement that
  is not its own, while its own never ran. `OutcomesAreTrue` says that it takes a
  twin: a caller whose text nobody else asks for is told of its own.
* **A remote listed twice under one name** (`workbench_crossed`).
  `web/session.js` calls its list "truthful", says that "names have to be
  unique", and that one machine under two names "would be a lie". An agent's
  `attach-remote` and the paste form may attach at the same time; both ask the
  list before their first await, find it without the peer, and take the catalog
  name `remote`. Usually the second ATTACH then fails on the taken name. When the
  first remote is detached before that ATTACH runs, it succeeds, and its record
  joins the first's on the list; the reconcile at the end of that `detach`, and
  every later one, asks for names and finds this one there, so a machine that is
  not attached stays listed. The routes suffer earlier: the second call's
  replaces the first's in `views`, and the panel keeps one that nothing will take
  down. `DistinctUnlessCrossed` and `RouteUnlessCrossed` say that attaches which
  cross no other call are safe from all this.

Two comments are stronger than the code; the models carry the exception by name
and no run is spent on them. `site/app.js:822` says of the count of keys that it
"errs towards not" typing and that an arrow key or a paste "makes it read as
busier than it is": a paste of several characters counts one, so one Backspace
after it brings the count to zero over a line that is not empty; an arrow key
counts nothing, while ArrowUp fills the line and a Backspace after ArrowLeft is
counted at the beginning of the line where it deletes nothing; and Enter on an
unfinished statement resets the count (`overlooked`).
`src/quackhole_state.cpp:63` says that normalising the relays "cannot fail"
because they have been parsed: a list longer than the buffer parses and does not
fit (`TooLong`).

Other behaviour that no text denies is carried by name as well: a request that
finds a connection which died before it was cached (`DiedUnput`), a rail that
goes on showing what a typed line detached (`unread`), a link printed with no
Quack behind it (`quackless`), a work directory that a signal leaves behind
(`raced`), an endpoint that was bound between a serve's check and its bind
(`overtaken`, in `Extension`).

## 5. What is proved

TLAPS checks these for every value of the constants: any number of requests and
peers, threads, generations, connections and streams, callers and results,
launchers and ports, chunks and relays, concurrent calls of a workbench and
rebuilds of its database, databases and relay lists.

| Theorem | States |
| --- | --- |
| `DialProofs!TypeCorrect` | `Spec => []TypeOK` |
| `DialProofs!AtMostOnceHolds` | `Spec => []AppliedAtMostOnce` |
| `DialProofs!DialImplementsAtMostOnce` | `Spec => ImplementsAtMostOnce` |
| `DialHandleProofs!OnlyUnheldIsClosedHolds` | `Spec => []OnlyUnheldIsClosed` |
| `DialHandleProofs!StaleCacheIsInvisibleHolds` | `Spec => []StaleCacheIsInvisible` |
| `DialHandleProofs!KnownPathsStayKnownHolds` | `Spec => KnownPathsStayKnown` |
| `ServeProofs!TypeCorrect` | `Spec => []TypeOK` |
| `ServeProofs!DrainedIsQuietHolds` | `Spec => []DrainedIsQuiet` |
| `ServeProofs!ServingIsTrueHolds` | `Spec => []ServingIsTrue` |
| `ServeProofs!OnlyAdmittedPeersHolds` | `Spec => []OnlyAdmittedPeers` |
| `TerminalProofs!TypeCorrect` | `Spec => []TypeOK` |
| `TerminalProofs!NothingSplicedHolds` | `Spec => NothingSpliced` |
| `TerminalProofs!OutcomesAreTrueHolds` | `Spec => []OutcomesAreTrue` |
| `TerminalProofs!ActivityIsTrueHolds` | `Spec => []ActivityIsTrue` |
| `TerminalProofs!NeverRunTwiceHolds` | `Spec => NeverRunTwice` |
| `TerminalProofs!PreviewTellsTheTruthHolds` | `Spec => []PreviewTellsTheTruth` |
| `ShimBridgeProofs!TypesHold` | `Spec => []TypeOK` |
| `ShimBridgeProofs!NoTornChunkHolds` | `Spec => []NoTornChunk` |
| `ShimBridgeProofs!DialledThroughRegisteredRelayHolds` | `Spec => []DialledThroughRegisteredRelay` |
| `ShimBridgeProofs!AnswersMatchHolds` | `Spec => [](late \/ AnswersMatch)` |
| `ShimBridgeProofs!ShimBridgeImplementsBlockingCall` | `Spec => ImplementsBlockingCall` |
| `WorkbenchProofs!TypesHold` | `Spec => []TypeOK` |
| `WorkbenchProofs!DistinctUnlessCrossedHolds` | `Spec => []DistinctUnlessCrossed` |
| `WorkbenchProofs!AttachedIsListedHolds` | `Spec => []AttachedIsListed` |
| `WorkbenchProofs!SecretsFollowTheListHolds` | `Spec => []SecretsFollowTheList` |
| `WorkbenchProofs!RouteUnlessCrossedHolds` | `Spec => []RouteUnlessCrossed` |
| `WorkbenchProofs!NoRouteLeftBehindHolds` | `Spec => []NoRouteLeftBehind` |
| `WorkbenchProofs!QuietRailIsTrueHolds` | `Spec => []QuietRailIsTrue` |
| `LauncherProofs!CachedIsWholeHolds` | `Spec => []CachedIsWhole` |
| `LauncherProofs!LinkIsAcceptedHolds` | `Spec => []LinkIsAccepted` |
| `LauncherProofs!NothingLeftBehindHolds` | `Spec => []NothingLeftBehind` |
| `ExtensionProofs!OneIdentityHolds` | `Spec => []OneIdentity` |
| `ExtensionProofs!ServedAsAskedHolds` | `Spec => []ServedAsAsked` |
| `ExtensionProofs!AttachedHasItsSecretHolds` | `Spec => []AttachedHasItsSecret` |

They assume what the modules name: `PeerOf` and `ConnOf` are functions of the
right sort, `Paths` contains `"unknown"` and only paths the code has, the two
"nothing there" values are not connections or entries, `AllowLists` are sets of
peers, and `MaxServes` is a natural number; no caller and no caller's text is
named like a key or one of the page's own statements, nor a text like a caller
(two callers may have one text); launchers, strangers and "nobody" are told apart;
each thread has a database, the default and the too long relay list are two of
the lists, and a throwaway identity is none that a file can hold; a result has
natural numbers of rows and columns, at least one column, and its long cells
are cells of it; "no relay" is not a relay and "no peer" not a peer, the
peers with a token are peers, and the counts that bound `ShimBridge`, `Session`
and `Workbench` are natural numbers, with at least one database and chunks that
hold something. No theorem has a hypothesis beside these: what the code does not
prevent is a history variable of the model, which the properties name.

**Dial.** `AppliedAtMostOnce` is not inductive: it says nothing about a stream
that has been written and not yet applied. `SentOnce` does, and relates each
attempt's stream to where `request_async` stands: before the write the current
attempt's stream holds nothing whole, and a second attempt exists only when the
first stream never became `sent`. Then at most one of the two streams can ever
go from `sent` to `applied`. `SafeInv == TypeOK /\ SentOnce` is inductive, one
lemma per action. For the refinement each action is a step of `AtMostOnce` or
stutters: `Call` submits, `Apply` takes effect (the invariant gives that the
other stream has not), `Reply` answers (its guard is `applied`), the failures
and the timeout give up, and a redial stutters.

**Dial's connections.** `HandleInv` says who holds what: a connection that is
open (or silently lost) is held by the cache or a request in flight, one we
dropped is held by nobody, a request that has not looked up yet holds nothing,
and after `CloseAll` nothing is left to hold anything. The last two are what
makes it inductive: without them a look-up could overwrite the last handle of
an open connection. `StaleInv` then follows a calm request. Its peer's
connections are not silently dead and the environment is stable; what it holds
is open, or is a dead connection that it took from the cache in a first attempt
with `reused` set and has sent nothing on (`Covered`), so the redial is still
to come; and what a redial finds in the cache is open, because the failure
emptied the entry and only a fresh dial refills it. A step of another request
can disturb this only by losing, breaking or dropping a held connection
(`Undisturbed`) or by what it puts in the cache: `OthersStayCalm` says so once
for all actions. The sampled `reused` may be stale in both directions; the proof
shows which one matters (`reused` false and a dead cached connection) and when it
cannot happen: the entry was empty when sampled, and whatever filled it since was
alive when it was put there. The last is `PutInv`: nothing dead is on its way to
the cache of a calm request's peer, neither when the request is submitted nor
later. It is an assumption about the moment of submission (`calm` excludes
`DiedUnput`) and a consequence afterwards, since a stable environment breaks
nothing; without it the property is false, as the ten steps above show.

**The peer table.** `record_peer` is the only operation that touches it, and
`RecordPeerKeeps` is the fact about it, whichever side records, over an empty
entry or another's.

**Serve.** `IInv` adds to the three properties what each leans on. `StopInv`:
the generation a stopping thread took is not the one held, is cancelled once
the thread joins, and its loop has ended once it drains. `LoopInv`: which
generations exist, and a drained one has no loop. `ConnInv`: a connection
belongs to a generation exactly when one accepted it, a serving one was
admitted, and no stream precedes its connection. `DrainedIsQuiet` holds because
a tracker that is empty after the loop has ended has nothing left that could
refill it: only a loop adds connections, only a tracked connection adds
streams. `ServingIsTrue` rests on `HeldInv`: a generation is cancelled only by
the thread that took it out of the mutex, so one that is held is not cancelled
and one that runs uncancelled is held or between a stop's take and its cancel;
and its loop ends only when it is cancelled or the endpoint has closed, so that a
handle whose loop is gone is that of a dead endpoint, which `IsServing` sees and
the handle alone does not show.

**Terminal.** `NothingSpliced` is about steps, and to know that what goes out is
alone one must know when the line is empty, which the page cannot see.
`LineIsCounted` says that unless something was overlooked the line is never
longer than the count, and holds keys only; so where `promptBusy` is false what
the page types is alone, wherever the cursor is. `LineAtPrompt` adds that there
is a line only at the prompt. `WaiterHasTheTurn` says that the one waiter is the
head of the queue: no waiter is dropped by another's registration, and `TurnOver`
passes on the right turn. What it does not give is that the waiter's text is its
own: that comes from `PiecesAccounted`. A caller's statement that the shell has in
hand is there because its caller was typed, and it has not ended yet; a bare text
on the line, called back with ArrowUp, is that of a call that has ended. With
`EndedWereSent` whatever `settle` finds equal to a waiter's text is the waiter's
own statement, or belongs to another call with the same text that was sent: a
twin. That is `AnsweredIsKnown`, and a caller that has no twin is answered for its
own statement, which was alone on the line, overlooked keys or not, because
`settle` compares the whole of it.

`PreviewTellsTheTruth` is not about the steps at all: `PreviewIsTrue` is a lemma
over any result, from how many rows `previewTable` keeps and how it counts what
it drops, and the invariant follows since what a caller got is such a preview.

**ShimBridge.** Three invariants, each leaning on what comes before it.
`Base == TypeOK /\ Placed /\ Handover` says what STATE means: while it is IDLE
the words belong to the bridge, which fills them in order; from then on they
belong to the shim, and what it saw of STATE and FLAGS is still there when it
copies and when it releases. That needs no deadline to hold, so neither does
`NoTornChunk`: after a late give-up a chunk may be another request's, but it is
whole. A lemma about `Cut` (`CutIs`, `OkAnswerIs`) says what an answer looks like
whatever its length, empty and exactly full bodies included: metadata first,
`MORE` on every later chunk but the last. `RelayInv` looks at the peer frames: the
page's messages,
the bridge's inbox and `peerRelays` are three stretches of one path (`OnePath`),
along which a registration moves without overtaking a request; so the relay the
bridge finds for a request is the one registered last before the page asked.
`AnswerInv` adds, as long as nothing is `late`, that the two sides take turns: at
most one request is under way, it is the shim's (`Turns`); the page's requests
have not been answered and nothing was sent for them (`Fresh`); and what the
shim has, then what STATE publishes, then what the bridge has still to write is
the answer it settled on, each chunk in its place (`Delivery`). It holds until a
give-up on a live bridge that is at work, and `late` never becomes false again
(`LateStays`). For the
refinement `AllOnPage` adds that a request without an answer is still in the
page's queue, so the shim's is the first that has not returned (`HasTheTurn`);
then reading a request is `Perform`, because a live bridge's inbox can hold no
other, and a give-up is `Fail`, because a request not yet posted has not been
performed and until it is late only a dead bridge is given up on
(`GivesUpOnTheDead`). From `late` on the abstract promise is void and every step
implements it.

**Workbench.** DuckDB runs queries and answers in the order they were asked, so
the calls that are out stand in one queue: first those whose answer has not
been handled (`replies`), then those whose query has not run (`posted`). `Queue`
says that each stands in it once, with the query of its phase. Every action is
then one of four moves, shown once: the worker's step shifts the border between
the two (`Ran`), the page's step takes a call from the front (`Served`) and puts
it at the back or not at all (`AtTheBack`), and a new call joins (`Joined`). The
properties are about what the page believes of the worker while both are at
work, and each invariant says which calls in that queue account for a
difference between them:

* `DialsApart`: two attaches under way whose peers nobody crossed share neither
  name nor peer with each other or with a connection. `DistinctUnlessCrossed`
  follows when the record is added.
* `SessionsInOrder`: the rebuilds in the queue are for successive databases, so
  the page is never ahead of the worker and the last one prepared is the newest.
* `HeldIsListed`: a remote in DuckDB's catalogs is in the list and in every
  answer that may sweep it, or it is about to be listed by a call that stands
  before any such answer (`Listed`, `Arriving`). The order in the queue is what
  makes it inductive: an answer given before the ATTACH does not name the
  remote, and must be handled before the record is added. `AttachedIsListed` is
  the case where nothing is left to handle.
* `GoneIsNoticed` is the converse: a listed remote that is not in the catalogs
  has a call that will read them or has read them without it (`WillRead`,
  `HasMissed`), or was detached by hand in a line after which the page reads
  nothing (`unread`), and it stays in `unread` until somebody does. With
  `RailFollows` this gives `QuietRailIsTrue`.
* `RoutesAccounted` says whose each route on screen is: a listed remote's, a
  dialling call's, or one that a redraw under way will clear; `RoutesLit`, that
  an attach nobody crossed still has its own (`Undisturbed`).
* `SecretsAccounted` says for each peer with a token that no attach crossed why
  its secret is there, and when it has to be: it is held, listed, being dialled
  or being removed (`HasReason`), it is there for what is listed and for what an
  attach has created it for (`ListedRight`, `ComingRight`), and gone once the
  attach undid it (`Undone`). It leans on most of the above and on `PeersKnown`:
  a peer that is being dialled is on no list and nobody removes it, it is listed
  under one name, and until the page has caught up with a rebuilt database there
  is no secret in it.

`DistinctUnlessCrossed` and the secrets are stated of peers no call crossed,
and that is no convenience: with a crossing the code loses track (section 4).

**Launcher.** `PartIsWhole`: a launcher about to rename has written its whole
`.part`, which is its own. `PortIsOwn` follows a launcher that was not overtaken
from the probe (the port is its own, then free) to the bind (its own again, or
nobody's where Quack did not start). `DirInv` follows the directory:
`NoWorkdirYet` says that before `mkdtemp` returns there is none, so the ways to
die before it leave none; `RemovedBeforeExit`, that a handler about to exit has
removed it, unless `main` wrote into it meanwhile; and every other end but an
uncaught throw or a kill goes through `cleanup`.

**Extension.** `CallIsShaped` and `LockIsHeld` say which call is at which step
and that who binds holds the lock over an unbound database. `KeyIsKept`: one
thread in all fills the file, it finds it empty, and a key about to be bound is
the one in it; `create_new` is what makes that inductive. `ServeIsChecked`
carries what a serve has checked to its answer: from the comparison on a bound
endpoint stays bound with the same relays, and an unbound one is bound by the
call itself with what it has read last, before the lock, or it is overtaken;
what happened to the setting between the readings does not matter. `SecretComesFirst` says
that a peer attached once is being attached by one thread and has its secret
before its ATTACH, so the failure of an attach can drop only its own.

**Only model-checked**: liveness (`EveryCallReturns`, `EveryRequestReturns`,
`NoMutualWait`, `CancelledDies`, `EveryCallSettles`),
which with fairness and ENABLED is beyond this prover. Every safety invariant
and every other action property of the passing runs is a theorem. The
disagreements of section 4 are counterexamples, not theorems; `NativeClient`
has nothing else.

## 6. What is not modelled

* Bytes: HTTP heads, chunked framing, compression, tickets, addresses. `Dial`
  distinguishes a useful response from a useless one; `ShimBridge` a chunk from
  another; `Serve` the stages of an exchange.
* Elapsed time. A timeout may fire whenever it is armed, except where an
  assumption above says otherwise; how long things take is not stated.
* QUIC, relays and hole punching: a connection is live, silently dead, known to
  be closed, or dropped.
* The C ABI's pointers and buffers, tickets, the npm browser package: no state
  that two actors share.
* Of the site: the dialogs and their texts, the layout, what a wire's animation
  looks like, the service worker, the build and its browser test. A relay's
  registration is `ShimBridge`'s; what a listing of tables holds is left out.
* `quackhole_status`, which only reads, and the peer table's snapshots behind it.
* The response path (a bridge that ends early, against each framing), the HTTP
  util chain's re-arming, and the order and the deadlines of the whole shutdown.

## 7. Plan

In order, each with its own run where it needs one:

1. **ResponsePath** (`http.rs`, `compress.rs`, `serve.rs`): a bridge that ends
   early against each framing of a response; the decoder of chunks as a
   function, against a reference definition over bounded inputs.
2. The **peer table's** snapshots (`qh_peer_count`, `qh_peer_info`), the
   **HTTP util chain**'s re-arming, and **shutdown** of the whole core.
