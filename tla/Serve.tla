-------------------------------- MODULE Serve --------------------------------
(***************************************************************************)
(* The inbound side of the core (crates/quackhole-core/src/serve.rs): the  *)
(* serve handle, the accept loop it stands for, a task per connection and  *)
(* a task per stream, each bridged to one TCP connection to Quack.         *)
(*                                                                         *)
(* Every successful serve_start is a generation.  A generation has one     *)
(* CancellationToken and one TaskTracker; its allow list never changes.    *)
(* SQL threads start and stop as they like, peers come and go, and every   *)
(* tokio::select! here is unbiased: with the token cancelled and a peer    *)
(* waiting, either branch may be taken.                                    *)
(***************************************************************************)
EXTENDS Integers

CONSTANTS
  Threads,     \* the SQL threads that call qh_serve_start and qh_serve_stop
  Peers,       \* the endpoint ids that dial in
  Conns,       \* the connections they make
  PeerOf,      \* PeerOf[c]: the peer at the other end of c
  Streams,     \* the bi-streams opened on them
  ConnOf,      \* ConnOf[s]: the connection of stream s
  AllowLists,  \* the allow lists that calls may pass; {} lets everybody in
  MaxServes    \* how many times serving may be started

Generations == 1 .. MaxServes
NoGeneration == 0

ASSUME PeerOfAssumption == PeerOf \in [Conns -> Peers]
ASSUME ConnOfAssumption == ConnOf \in [Streams -> Conns]
ASSUME AllowListsAssumption == AllowLists \subseteq SUBSET Peers
ASSUME MaxServesAssumption == MaxServes \in Nat

VARIABLES
  held,       \* Core.serve: the generation whose handle it holds
  last,       \* the newest generation
  allow,      \* allow[g]: its allow list
  cancelled,  \* cancelled[g]: its token is cancelled, its tracker closed
  loop,       \* loop[g]: its accept loop
  at,         \* at[t]: where thread t stands in serve_stop
  stops,      \* stops[t]: the generation whose handle t took
  drained,    \* drained[g]: serve_stop saw g's last task end, in time
  conn,       \* conn[c]: where the task of connection c stands
  gen,        \* gen[c]: the generation that accepted c
  gone,       \* gone[c]: the peer closed c, it idled out, or the endpoint died
  stream,     \* stream[s]: where the bridge of stream s stands
  quack,      \* quack[s]: Quack's end of the bridge's TCP connection
  listed,     \* the peers the accept side has recorded
  closed      \* the endpoint is closed, or its driver has died

stopVars == <<held, last, allow, cancelled, at, stops, drained>>
connVars == <<loop, conn, gen, gone, listed, closed>>
streamVars == <<stream, quack>>
vars == <<stopVars, connVars, streamVars>>

TypeOK ==
  /\ held \in Generations \cup {NoGeneration}
  /\ last \in Generations \cup {NoGeneration}
  /\ allow \in [Generations -> AllowLists \cup {{}}]
  /\ cancelled \in [Generations -> BOOLEAN]
  /\ loop \in [Generations -> {"none", "running", "ended"}]
  /\ at \in [Threads -> {"idle", "taken", "joining", "draining"}]
  /\ stops \in [Threads -> Generations \cup {NoGeneration}]
  /\ drained \in [Generations -> BOOLEAN]
  /\ conn \in [Conns -> {"none", "incoming", "handshake", "serving", "over"}]
  /\ gen \in [Conns -> Generations \cup {NoGeneration}]
  /\ gone \in [Conns -> BOOLEAN]
  /\ stream \in [Streams -> {"none", "opened", "sniff", "connect", "copy", "over"}]
  /\ quack \in [Streams -> {"none", "serving", "closed"}]
  /\ listed \in SUBSET Peers
  /\ closed \in BOOLEAN

Init ==
  /\ held = NoGeneration
  /\ last = NoGeneration
  /\ allow = [g \in Generations |-> {}]
  /\ cancelled = [g \in Generations |-> FALSE]
  /\ loop = [g \in Generations |-> "none"]
  /\ at = [t \in Threads |-> "idle"]
  /\ stops = [t \in Threads |-> NoGeneration]
  /\ drained = [g \in Generations |-> FALSE]
  /\ conn = [c \in Conns |-> "none"]
  /\ gen = [c \in Conns |-> NoGeneration]
  /\ gone = [c \in Conns |-> FALSE]
  /\ stream = [s \in Streams |-> "none"]
  /\ quack = [s \in Streams |-> "none"]
  /\ listed = {}
  /\ closed = FALSE

-----------------------------------------------------------------------------
\* What a generation's tracker counts: connection tasks and bridge tasks.

ConnTask(c) == conn[c] \in {"handshake", "serving"}
BridgeTask(s) == stream[s] \in {"sniff", "connect", "copy"}

\* Mutant: bridges are spawned on the runtime, not on the tracker.
TrackedConnsOnly(g) == \E c \in Conns : gen[c] = g /\ ConnTask(c)

Tracked(g) ==
  \/ \E c \in Conns : gen[c] = g /\ ConnTask(c)
  \/ \E s \in Streams : gen[ConnOf[s]] = g /\ BridgeTask(s)

Admits(g, p) == allow[g] = {} \/ p \in allow[g]

Cancelled(c) == cancelled[gen[c]]

-----------------------------------------------------------------------------
\* Core::serve_start, whole under the lock.
ServeStart(t) ==
  /\ at[t] = "idle"
  /\ held = NoGeneration
  /\ last < MaxServes
  /\ held' = last + 1
  /\ last' = last + 1
  /\ \E list \in AllowLists : allow' = [allow EXCEPT ![last + 1] = list]
  /\ loop' = [loop EXCEPT ![last + 1] = "running"]
  /\ UNCHANGED <<cancelled, at, stops, drained, conn, gen, gone, listed, closed, streamVars>>

(* serve_stop takes the handle under the lock and lets the lock go.  With  *)
(* no handle there it returns.                                             *)
StopTakes(t) ==
  /\ at[t] = "idle"
  /\ held # NoGeneration
  /\ stops' = [stops EXCEPT ![t] = held]
  /\ held' = NoGeneration
  /\ at' = [at EXCEPT ![t] = "taken"]
  /\ UNCHANGED <<last, allow, cancelled, drained, connVars, streamVars>>

\* ServeHandle::stop cancels the token and closes the tracker.
StopCancels(t) ==
  /\ at[t] = "taken"
  /\ cancelled' = [cancelled EXCEPT ![stops[t]] = TRUE]
  /\ at' = [at EXCEPT ![t] = "joining"]
  /\ UNCHANGED <<held, last, allow, stops, drained, connVars, streamVars>>

\* The accept loop's task is joined.
StopJoins(t) ==
  /\ at[t] = "joining"
  /\ loop[stops[t]] = "ended"
  /\ at' = [at EXCEPT ![t] = "draining"]
  /\ UNCHANGED <<held, last, allow, cancelled, stops, drained, connVars, streamVars>>

\* The tracker is empty: serve_stop returns.
StopDrains(t) ==
  /\ at[t] = "draining"
  /\ ~Tracked(stops[t])
  /\ drained' = [drained EXCEPT ![stops[t]] = TRUE]
  /\ at' = [at EXCEPT ![t] = "idle"]
  /\ UNCHANGED <<held, last, allow, cancelled, stops, connVars, streamVars>>

\* The deadline passes first; serve_stop returns the same QH_OK.
StopGivesUp(t) ==
  /\ at[t] \in {"joining", "draining"}
  /\ at' = [at EXCEPT ![t] = "idle"]
  /\ UNCHANGED <<held, last, allow, cancelled, stops, drained, connVars, streamVars>>

\* Mutant: a handle in the mutex is all that is asked for.
IsServingByHandle == held # NoGeneration

(* is_serving asks the JoinHandle too: a loop that ended by itself leaves  *)
(* its handle in the mutex.                                                *)
IsServing == held # NoGeneration /\ loop[held] # "ended"

-----------------------------------------------------------------------------
\* accept_loop.

LoopAccepts(g, c) ==
  /\ loop[g] = "running"
  /\ conn[c] = "incoming"
  /\ conn' = [conn EXCEPT ![c] = "handshake"]
  /\ gen' = [gen EXCEPT ![c] = g]
  /\ UNCHANGED <<stopVars, loop, gone, listed, closed, streamVars>>

(* The token is cancelled, or accept() has yielded None for good; the      *)
(* handle stays wherever it is.                                            *)
LoopEnds(g) ==
  /\ loop[g] = "running"
  /\ cancelled[g] \/ closed
  /\ loop' = [loop EXCEPT ![g] = "ended"]
  /\ UNCHANGED <<stopVars, conn, gen, gone, listed, closed, streamVars>>

\* Mutant: what is recorded is the connection, not the id of its peer.
HandshakeRecordsConn(c) ==
  /\ conn[c] = "handshake"
  /\ ~gone[c]
  /\ conn' = [conn EXCEPT ![c] = IF Admits(gen[c], PeerOf[c]) THEN "serving" ELSE "over"]
  /\ listed' = IF Admits(gen[c], PeerOf[c]) THEN listed \cup {c} ELSE listed
  /\ UNCHANGED <<stopVars, loop, gen, gone, closed, streamVars>>

\* Mutant: the peer is recorded before the allow list is looked at.
HandshakeRecordsFirst(c) ==
  /\ conn[c] = "handshake"
  /\ ~gone[c]
  /\ conn' = [conn EXCEPT ![c] = IF Admits(gen[c], PeerOf[c]) THEN "serving" ELSE "over"]
  /\ listed' = listed \cup {PeerOf[c]}
  /\ UNCHANGED <<stopVars, loop, gen, gone, closed, streamVars>>

(* The handshake, which nothing cancels, and handle_connection up to its   *)
(* loop: a peer not on the list is closed before it is recorded.           *)
Handshake(c) ==
  /\ conn[c] = "handshake"
  /\ ~gone[c]
  /\ IF Admits(gen[c], PeerOf[c])
     THEN /\ conn' = [conn EXCEPT ![c] = "serving"]
          /\ listed' = listed \cup {PeerOf[c]}
     ELSE /\ conn' = [conn EXCEPT ![c] = "over"]
          /\ UNCHANGED listed
  /\ UNCHANGED <<stopVars, loop, gen, gone, closed, streamVars>>

HandshakeFails(c) ==
  /\ conn[c] = "handshake"
  /\ gone[c]
  /\ conn' = [conn EXCEPT ![c] = "over"]
  /\ UNCHANGED <<stopVars, loop, gen, gone, listed, closed, streamVars>>

ConnAccepts(s) ==
  /\ conn[ConnOf[s]] = "serving"
  /\ stream[s] = "opened"
  /\ stream' = [stream EXCEPT ![s] = "sniff"]
  /\ UNCHANGED <<stopVars, connVars, quack>>

\* Mutant: a connection's loop does not watch the token.
ConnEndsWhenGone(c) ==
  /\ conn[c] = "serving"
  /\ gone[c]
  /\ conn' = [conn EXCEPT ![c] = "over"]
  /\ UNCHANGED <<stopVars, loop, gen, gone, listed, closed, streamVars>>

ConnEnds(c) ==
  /\ conn[c] = "serving"
  /\ Cancelled(c) \/ gone[c]
  /\ conn' = [conn EXCEPT ![c] = "over"]
  /\ UNCHANGED <<stopVars, loop, gen, gone, listed, closed, streamVars>>

-----------------------------------------------------------------------------
\* bridge, and the select with the token around it.

BridgeOver(s) == stream' = [stream EXCEPT ![s] = "over"]

\* sniff has the head, or the end of the stream instead of one.
BridgeSniffs(s) ==
  /\ stream[s] = "sniff"
  /\ stream' = [stream EXCEPT ![s] = "connect"]
  /\ UNCHANGED <<stopVars, connVars, quack>>

\* The TCP connection is made and the head forwarded.
BridgeConnects(s) ==
  /\ stream[s] = "connect"
  /\ stream' = [stream EXCEPT ![s] = "copy"]
  /\ quack' = [quack EXCEPT ![s] = "serving"]
  /\ UNCHANGED <<stopVars, connVars>>

(* to_client ends once Quack has closed its side and the peer has drained  *)
(* the reply, which it need not do.  to_server ending (the peer            *)
(* half-closed, which ours never do) changes nothing here.                 *)
BridgeReturns(s) ==
  /\ stream[s] = "copy"
  /\ quack[s] = "closed"
  /\ BridgeOver(s)
  /\ UNCHANGED <<stopVars, connVars, quack>>

(* Nothing listens on target, the TCP connection broke, or a read or a     *)
(* write of the stream failed: reset by the peer, or gone with its         *)
(* connection.                                                             *)
BridgeFails(s) ==
  /\ BridgeTask(s)
  /\ BridgeOver(s)
  /\ UNCHANGED <<stopVars, connVars, quack>>

\* The select around bridge() drops it, with its socket and its stream.
BridgeCancelled(s) ==
  /\ BridgeTask(s)
  /\ Cancelled(ConnOf[s])
  /\ BridgeOver(s)
  /\ UNCHANGED <<stopVars, connVars, quack>>

-----------------------------------------------------------------------------
\* The peers, the network and Quack.

PeerDials(c) ==
  /\ conn[c] = "none"
  /\ ~closed
  /\ conn' = [conn EXCEPT ![c] = "incoming"]
  /\ UNCHANGED <<stopVars, loop, gen, gone, listed, closed, streamVars>>

PeerOpens(s) ==
  /\ conn[ConnOf[s]] = "serving"
  /\ stream[s] = "none"
  /\ stream' = [stream EXCEPT ![s] = "opened"]
  /\ UNCHANGED <<stopVars, connVars, quack>>

PeerLeaves(c) ==
  /\ ConnTask(c)
  /\ ~gone[c]
  /\ gone' = [gone EXCEPT ![c] = TRUE]
  /\ UNCHANGED <<stopVars, loop, conn, gen, listed, closed, streamVars>>

(* The endpoint closes under the loop.  (Core::shutdown closes it as well, *)
(* but no call runs beside it.)  Its connections go with it, those that    *)
(* accept() still has in its queue too.                                    *)
EndpointCloses ==
  /\ ~closed
  /\ closed' = TRUE
  /\ gone' = [c \in Conns |-> TRUE]
  /\ UNCHANGED <<stopVars, loop, conn, gen, listed, streamVars>>

\* `Connection: close`: Quack closes once it has replied.
QuackCloses(s) ==
  /\ stream[s] = "copy"
  /\ quack[s] = "serving"
  /\ quack' = [quack EXCEPT ![s] = "closed"]
  /\ UNCHANGED <<stopVars, connVars, stream>>

-----------------------------------------------------------------------------
StopStep(t) == StopTakes(t) \/ StopCancels(t) \/ StopJoins(t) \/ StopDrains(t) \/ StopGivesUp(t)
ConnStep(c) == Handshake(c) \/ HandshakeFails(c) \/ ConnEnds(c)
BridgeStep(s) ==
  BridgeSniffs(s) \/ BridgeConnects(s) \/ BridgeReturns(s) \/ BridgeFails(s) \/ BridgeCancelled(s)

Next ==
  \/ \E t \in Threads : ServeStart(t) \/ StopStep(t)
  \/ \E g \in Generations : LoopEnds(g) \/ \E c \in Conns : LoopAccepts(g, c)
  \/ \E c \in Conns : ConnStep(c) \/ PeerDials(c) \/ PeerLeaves(c)
  \/ \E s \in Streams : ConnAccepts(s) \/ BridgeStep(s) \/ PeerOpens(s) \/ QuackCloses(s)
  \/ EndpointCloses

Spec == Init /\ [][Next]_vars

(* The runtime polls its tasks and an unbiased select takes every ready    *)
(* branch sooner or later; a handshake completes or fails.  A peer owes us *)
(* nothing (a silent one keeps its bridge in sniff, one that stops reading *)
(* keeps it in copy), nor does Quack.                                      *)
FairSpec ==
  /\ Spec
  /\ \A g \in Generations : WF_vars(LoopEnds(g))
  /\ \A c \in Conns : WF_vars(ConnStep(c))
  /\ \A s \in Streams : WF_vars(BridgeCancelled(s))

-----------------------------------------------------------------------------
Alive(g) ==
  \/ loop[g] = "running"
  \/ \E c \in Conns : gen[c] = g /\ ConnTask(c)
  \/ \E s \in Streams : gen[ConnOf[s]] = g /\ BridgeTask(s)

(* quackhole_core.h, qh_serve_stop: "In-flight streams are cancelled".     *)
(* Once serve_stop has returned within its deadline nothing of what it     *)
(* stopped is left, and nothing of it starts again: no loop, no handshake  *)
(* in progress, no bridge with its socket to Quack open.                   *)
DrainedIsQuiet == \A g \in Generations : drained[g] => ~Alive(g)

(* quackhole_status().serving, whoever is half-way through a               *)
(* quackhole_stop() and whether or not the endpoint has died.  TRUE is of  *)
(* a loop that runs and has not been told to stop; a loop that still takes *)
(* connections of its own accord is the one reported, but for the moment   *)
(* between a stop's take and its cancel; and as long as the endpoint lives *)
(* the handle is of a loop that runs.                                      *)
ServingIsTrue ==
  /\ IsServing => loop[held] = "running" /\ ~cancelled[held]
  /\ \A g \in Generations : loop[g] = "running" /\ ~cancelled[g] =>
       \/ IsServing /\ held = g
       \/ \E t \in Threads : at[t] = "taken" /\ stops[t] = g
  /\ held # NoGeneration /\ ~closed => IsServing

(* The allow list: no stream of a peer its generation does not admit is    *)
(* bridged, and a peer no call ever admitted is not listed by              *)
(* quackhole_status().                                                     *)
OnlyAdmittedPeers ==
  /\ \A s \in Streams : BridgeTask(s) => Admits(gen[ConnOf[s]], PeerOf[ConnOf[s]])
  /\ \A p \in listed : \E g \in 1 .. last : Admits(g, p)

(* Past serve_stop's deadline too: what a stopped generation still had     *)
(* running ends, even a handshake the token does not reach and the streams *)
(* that handshake lets in.                                                 *)
CancelledDies == \A g \in Generations : cancelled[g] ~> ~Alive(g)

(* quackhole_core.h, qh_serve_start: "Calling this while already serving   *)
(* returns QH_ERR": no two accept loops are taking connections, each with  *)
(* an allow list of its own, and neither told to stop.                     *)
OneAcceptLoop ==
  \A g, h \in Generations :
    /\ loop[g] = "running" /\ ~cancelled[g]
    /\ loop[h] = "running" /\ ~cancelled[h]
    => g = h
=============================================================================
