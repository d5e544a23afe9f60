---------------------------- MODULE ServeProofs ----------------------------
(***************************************************************************)
(* Proofs about Serve, for every set of threads, peers, connections and    *)
(* streams, and any number of generations.                                 *)
(*                                                                         *)
(* Argument for DrainedIsQuiet: the accept loop is joined before the       *)
(* tracker is waited for, so when the tracker is found empty nobody is     *)
(* left who could add to it: bridges are started by connection tasks, and  *)
(* connection tasks by the loop.  Argument for ServingIsTrue: the handle   *)
(* leaves the mutex before its token is cancelled, no thread stops a       *)
(* generation that is held (StopInv), and no loop ends with its token      *)
(* uncancelled and the endpoint alive (HeldInv).                           *)
(***************************************************************************)
EXTENDS Serve, TLAPS

\* What a thread in serve_stop knows of the generation it took.
StopInv ==
  /\ \A t \in Threads : at[t] # "idle" => stops[t] \in 1 .. last /\ stops[t] # held
  /\ \A t \in Threads : at[t] \in {"joining", "draining"} => cancelled[stops[t]]
  /\ \A t \in Threads : at[t] = "draining" => loop[stops[t]] = "ended"
  /\ held # NoGeneration => held \in 1 .. last

\* Which generations have been started, and how far a drained one is down.
LoopInv ==
  /\ \A g \in Generations : loop[g] = "none" <=> g > last
  /\ \A g \in Generations : cancelled[g] => g <= last
  /\ \A g \in Generations : drained[g] => loop[g] = "ended"

\* Who has been let in, and by which generation.
ConnInv ==
  /\ \A c \in Conns : conn[c] \in {"none", "incoming"} <=> gen[c] = NoGeneration
  /\ \A c \in Conns : gen[c] <= last
  /\ \A c \in Conns : conn[c] = "serving" => Admits(gen[c], PeerOf[c])
  /\ \A s \in Streams : conn[ConnOf[s]] \in {"none", "incoming", "handshake"} => stream[s] = "none"

\* The handle, the loops and their tokens.
HeldInv ==
  /\ held # NoGeneration => ~cancelled[held]
  /\ \A g \in Generations : loop[g] = "ended" => cancelled[g] \/ closed
  /\ \A g \in Generations : loop[g] = "running" /\ ~cancelled[g] =>
       held = g \/ \E t \in Threads : at[t] = "taken" /\ stops[t] = g

IInv == /\ TypeOK /\ StopInv /\ LoopInv /\ ConnInv
        /\ DrainedIsQuiet /\ HeldInv /\ OnlyAdmittedPeers

-----------------------------------------------------------------------------
\* A started generation has a positive number; no connection carries the next.

LEMMA InitIInv == Init => IInv
<1> SUFFICES ASSUME Init PROVE IInv
  OBVIOUS
<1>1. TypeOK
  BY MaxServesAssumption DEF Init, TypeOK, Generations, NoGeneration
<1>2. StopInv /\ LoopInv /\ HeldInv
  BY MaxServesAssumption DEF Init, StopInv, LoopInv, HeldInv, Generations, NoGeneration
<1>3. ConnInv
  BY ConnOfAssumption DEF Init, ConnInv, NoGeneration
<1>4. DrainedIsQuiet /\ OnlyAdmittedPeers
  BY DEF Init, DrainedIsQuiet, OnlyAdmittedPeers, BridgeTask
<1> QED BY <1>1, <1>2, <1>3, <1>4 DEF IInv

\* A step that leaves connections and streams alone keeps what is tracked.
LEMMA TrackedUnchanged ==
  ASSUME UNCHANGED <<conn, gen, stream>>
  PROVE  \A g \in Generations : Tracked(g)' = Tracked(g)
BY DEF Tracked, ConnTask, BridgeTask

LEMMA ServeStartKeeps ==
  ASSUME IInv, NEW t \in Threads, ServeStart(t)
  PROVE  IInv'
<1> DEFINE g == last + 1
<1>0. g \in Generations /\ last \in Nat /\ last' = g /\ held' = g /\ g # NoGeneration
  BY MaxServesAssumption DEF IInv, TypeOK, ServeStart, Generations, NoGeneration
<1>a. PICK list \in AllowLists : allow' = [allow EXCEPT ![g] = list]
  BY DEF ServeStart
<1>b. loop' = [loop EXCEPT ![g] = "running"]
  BY DEF ServeStart
<1>c. UNCHANGED <<cancelled, at, stops, drained, conn, gen, gone, listed, closed, streamVars>>
  BY DEF ServeStart
<1>d. UNCHANGED <<stream, quack>>
  BY <1>c DEF streamVars
<1> HIDE DEF g
<1>1. TypeOK'
  BY <1>0, <1>a, <1>b, <1>c, <1>d DEF IInv, TypeOK
<1>2. ~cancelled[g] /\ ~drained[g]
  BY <1>0, MaxServesAssumption DEF IInv, LoopInv, TypeOK, Generations, g
<1>3. StopInv'
  BY <1>0, <1>b, <1>c DEF IInv, TypeOK, StopInv, g
<1>4. LoopInv'
  BY <1>0, <1>2, <1>b, <1>c, MaxServesAssumption DEF IInv, TypeOK, LoopInv, Generations, g
<1>5. \A h \in Generations : h <= last => allow'[h] = allow[h]
  BY <1>0, <1>a, MaxServesAssumption DEF IInv, TypeOK, Generations, g
<1>6. \A c \in Conns : conn[c] \notin {"none", "incoming"} => allow'[gen[c]] = allow[gen[c]]
  BY <1>5 DEF IInv, TypeOK, ConnInv
<1>7. \A s \in Streams : BridgeTask(s) => allow'[gen[ConnOf[s]]] = allow[gen[ConnOf[s]]]
  BY <1>6, ConnOfAssumption DEF IInv, ConnInv, BridgeTask
<1>8. ConnInv'
  BY <1>0, <1>6, <1>c, <1>d DEF IInv, TypeOK, ConnInv, Admits, Generations, NoGeneration, g
<1>9. DrainedIsQuiet'
  <2>1. \A h \in Generations : Tracked(h)' = Tracked(h)
    BY <1>c, <1>d, TrackedUnchanged
  <2> QED BY <2>1, <1>2, <1>b, <1>c DEF IInv, TypeOK, DrainedIsQuiet, Alive, Tracked
<1>10. HeldInv'
  <2>1. held = NoGeneration
    BY DEF ServeStart
  <2>2. ~cancelled'[held']
    BY <1>0, <1>2, <1>c
  <2>3. \A h \in Generations : loop'[h] = "ended" => cancelled'[h] \/ closed'
    BY <1>0, <1>b, <1>c DEF IInv, TypeOK, HeldInv
  <2>4. ASSUME NEW h \in Generations, h # g, loop'[h] = "running", ~cancelled'[h]
        PROVE  \E u \in Threads : at'[u] = "taken" /\ stops'[u] = h
    <3>1. loop[h] = "running" /\ ~cancelled[h] /\ held # h
      BY <1>b, <1>c, <2>1, <2>4, MaxServesAssumption DEF IInv, TypeOK, Generations, NoGeneration
    <3>2. PICK u \in Threads : at[u] = "taken" /\ stops[u] = h
      BY <3>1 DEF IInv, HeldInv
    <3> QED BY <3>2, <1>c
  <2> QED BY <1>0, <2>2, <2>3, <2>4 DEF HeldInv
<1>11. OnlyAdmittedPeers'
  <2>1. \A s \in Streams : BridgeTask(s)' => Admits(gen[ConnOf[s]], PeerOf[ConnOf[s]])'
    BY <1>7, <1>c, <1>d DEF IInv, OnlyAdmittedPeers, Admits, BridgeTask
  <2>2. ASSUME NEW p \in listed' PROVE \E h \in 1 .. last' : Admits(h, p)'
    <3>1. PICK h \in 1 .. last : Admits(h, p)
      BY <1>c DEF IInv, OnlyAdmittedPeers
    <3>2. h \in Generations /\ h <= last /\ h \in 1 .. last'
      BY <1>0, MaxServesAssumption DEF IInv, TypeOK, Generations, NoGeneration, g
    <3>3. Admits(h, p)'
      BY <1>5, <3>1, <3>2 DEF Admits
    <3> QED BY <3>2, <3>3
  <2> QED BY <2>1, <2>2 DEF OnlyAdmittedPeers
<1> QED BY <1>1, <1>3, <1>4, <1>8, <1>9, <1>10, <1>11 DEF IInv

\* The steps of serve_stop.
LEMMA StopKeeps ==
  ASSUME IInv, NEW t \in Threads, StopStep(t)
  PROVE  IInv'
<1>0. UNCHANGED <<last, allow, connVars, streamVars>>
  BY DEF StopStep, StopTakes, StopCancels, StopJoins, StopDrains, StopGivesUp
<1>a. UNCHANGED <<last, allow, loop, conn, gen, gone, listed, closed, stream, quack>>
  BY <1>0 DEF connVars, streamVars
<1>b. \A g \in Generations : Tracked(g)' = Tracked(g)
  BY <1>a, TrackedUnchanged
<1>c. at[t] # "idle" => stops[t] \in Generations
  BY MaxServesAssumption DEF IInv, TypeOK, StopInv, Generations, NoGeneration
<1>1. TypeOK'
  BY <1>a, <1>c, ZenonT(30) DEF IInv, TypeOK, StopStep, StopTakes, StopCancels, StopJoins, StopDrains, StopGivesUp
<1>2. ConnInv' /\ OnlyAdmittedPeers'
  BY <1>a DEF IInv, ConnInv, OnlyAdmittedPeers, Admits, BridgeTask
<1>3. CASE StopTakes(t)
  <2>1. StopInv'
    BY <1>3, <1>a DEF IInv, TypeOK, StopInv, StopTakes, NoGeneration, HeldInv
  <2>2. LoopInv' /\ DrainedIsQuiet'
    BY <1>3, <1>a, <1>b DEF IInv, LoopInv, StopTakes, DrainedIsQuiet, Alive, Tracked
  <2>3. at'[t] = "taken" /\ stops'[t] = held
    BY <1>3 DEF IInv, TypeOK, StopTakes
  <2>4. ASSUME NEW u \in Threads, u # t PROVE at'[u] = at[u] /\ stops'[u] = stops[u]
    BY <1>3, <2>4 DEF IInv, TypeOK, StopTakes
  <2>5. at[t] = "idle" /\ held' = NoGeneration /\ UNCHANGED cancelled
    BY <1>3 DEF StopTakes
  <2>6. ASSUME NEW g \in Generations, loop'[g] = "running", ~cancelled'[g]
        PROVE  \E u \in Threads : at'[u] = "taken" /\ stops'[u] = g
    <3>1. held = g \/ \E u \in Threads : at[u] = "taken" /\ stops[u] = g
      BY <1>a, <2>5, <2>6 DEF IInv, HeldInv
    <3> QED BY <2>3, <2>4, <2>5, <3>1
  <2>7. HeldInv'
    BY <1>a, <2>5, <2>6 DEF IInv, HeldInv
  <2> QED BY <1>1, <1>2, <2>1, <2>2, <2>7 DEF IInv
<1>4. CASE StopCancels(t)
  <2>1. StopInv' /\ HeldInv'
    BY <1>4, <1>a, <1>c DEF IInv, TypeOK, StopInv, StopCancels, HeldInv
  <2>2. LoopInv'
    BY <1>4, <1>a, <1>c DEF IInv, TypeOK, StopInv, LoopInv, StopCancels, Generations
  <2>3. DrainedIsQuiet'
    BY <1>4, <1>a, <1>b DEF IInv, StopCancels, DrainedIsQuiet, Alive, Tracked
  <2> QED BY <1>1, <1>2, <2>1, <2>2, <2>3 DEF IInv
<1>5. CASE StopJoins(t)
  <2>1. StopInv'
    BY <1>5, <1>a DEF IInv, TypeOK, StopInv, StopJoins
  <2>2. LoopInv' /\ DrainedIsQuiet' /\ HeldInv'
    BY <1>5, <1>a, <1>b DEF IInv, LoopInv, StopJoins, DrainedIsQuiet, Alive, Tracked, HeldInv
  <2> QED BY <1>1, <1>2, <2>1, <2>2 DEF IInv
<1>6. CASE StopDrains(t)
  <2>1. StopInv' /\ HeldInv'
    BY <1>6, <1>a DEF IInv, TypeOK, StopInv, StopDrains, HeldInv
  <2>2. loop[stops[t]] = "ended" /\ ~Tracked(stops[t])
    BY <1>6 DEF IInv, StopInv, StopDrains
  <2>3. LoopInv'
    BY <1>6, <1>a, <1>c, <2>2 DEF IInv, TypeOK, LoopInv, StopDrains
  <2>4. DrainedIsQuiet'
    BY <1>6, <1>a, <1>b, <1>c, <2>2 DEF IInv, TypeOK, StopDrains, DrainedIsQuiet, Alive, Tracked
  <2> QED BY <1>1, <1>2, <2>1, <2>3, <2>4 DEF IInv
<1>7. CASE StopGivesUp(t)
  <2>1. StopInv'
    BY <1>7, <1>a DEF IInv, TypeOK, StopInv, StopGivesUp
  <2>2. LoopInv' /\ DrainedIsQuiet' /\ HeldInv'
    BY <1>7, <1>a, <1>b DEF IInv, LoopInv, StopGivesUp, DrainedIsQuiet, Alive, Tracked, HeldInv
  <2> QED BY <1>1, <1>2, <2>1, <2>2 DEF IInv
<1> QED BY <1>3, <1>4, <1>5, <1>6, <1>7 DEF StopStep

\* The accept loop takes a connection: no drained generation has a loop.
LEMMA LoopAcceptsKeeps ==
  ASSUME IInv, NEW g \in Generations, NEW c \in Conns, LoopAccepts(g, c)
  PROVE  IInv'
<1>0. UNCHANGED <<held, last, allow, cancelled, at, stops, drained, loop, gone, listed, closed,
                  stream, quack>>
  BY DEF LoopAccepts, stopVars, streamVars
<1>1. TypeOK'
  BY <1>0 DEF IInv, TypeOK, LoopAccepts
<1>2. StopInv' /\ LoopInv' /\ HeldInv'
  BY <1>0 DEF IInv, StopInv, LoopInv, HeldInv
<1>3. conn[c] = "incoming" /\ \A s \in Streams : ConnOf[s] = c => stream[s] = "none"
  BY DEF IInv, ConnInv, LoopAccepts
<1>4. g <= last /\ g # NoGeneration /\ ~drained[g]
  BY MaxServesAssumption DEF IInv, TypeOK, LoopInv, LoopAccepts, Generations, NoGeneration
<1>5. ConnInv'
  BY <1>0, <1>3, <1>4, ConnOfAssumption DEF IInv, TypeOK, ConnInv, LoopAccepts, Admits
<1>6. \A h \in Generations : drained[h] => ~Tracked(h)'
  BY <1>0, <1>3, <1>4, ConnOfAssumption
     DEF IInv, TypeOK, DrainedIsQuiet, Alive, Tracked, ConnTask, BridgeTask, LoopAccepts
<1>7. DrainedIsQuiet'
  BY <1>0, <1>6 DEF IInv, DrainedIsQuiet, Alive, Tracked
<1>8. OnlyAdmittedPeers'
  BY <1>0, <1>3, ConnOfAssumption DEF IInv, TypeOK, OnlyAdmittedPeers, Admits, BridgeTask, LoopAccepts
<1> QED BY <1>1, <1>2, <1>5, <1>7, <1>8 DEF IInv

LEMMA LoopEndsKeeps ==
  ASSUME IInv, NEW g \in Generations, LoopEnds(g)
  PROVE  IInv'
<1>0. UNCHANGED <<held, last, allow, cancelled, at, stops, drained, conn, gen, gone, listed, closed,
                  stream, quack>>
  BY DEF LoopEnds, stopVars, streamVars
<1>a. \A h \in Generations : Tracked(h)' = Tracked(h)
  BY <1>0, TrackedUnchanged
<1>1. TypeOK'
  BY <1>0 DEF IInv, TypeOK, LoopEnds
<1>2. StopInv' /\ LoopInv' /\ HeldInv'
  BY <1>0 DEF IInv, TypeOK, StopInv, LoopInv, HeldInv, LoopEnds
<1>3. ConnInv' /\ OnlyAdmittedPeers'
  BY <1>0 DEF IInv, ConnInv, OnlyAdmittedPeers, Admits, BridgeTask
<1>4. DrainedIsQuiet'
  BY <1>0, <1>a DEF IInv, TypeOK, DrainedIsQuiet, Alive, Tracked, LoopEnds
<1> QED BY <1>1, <1>2, <1>3, <1>4 DEF IInv

-----------------------------------------------------------------------------
(* What is left are the steps of connection and bridge tasks, of peers and *)
(* of Quack: they stop nothing, and what was not tracked stays so.         *)

LEMMA TaskKeeps ==
  ASSUME IInv,
         UNCHANGED <<held, last, allow, cancelled, at, stops, drained, loop, gen, closed>>,
         TypeOK', ConnInv', OnlyAdmittedPeers',
         \A c \in Conns : ConnTask(c)' => ConnTask(c),
         \A s \in Streams : BridgeTask(s)' => BridgeTask(s) \/ ConnTask(ConnOf[s])
  PROVE  IInv'
<1>1. StopInv' /\ LoopInv' /\ HeldInv'
  BY DEF IInv, StopInv, LoopInv, HeldInv
<1>2. \A g \in Generations : Tracked(g)' => Tracked(g)
  BY ConnOfAssumption DEF Tracked
<1>3. DrainedIsQuiet'
  BY <1>2 DEF IInv, DrainedIsQuiet, Alive, Tracked
<1> QED BY <1>1, <1>3 DEF IInv

\* The steps that change where one connection stands.
LEMMA ConnKeeps ==
  ASSUME IInv, NEW c \in Conns, ConnStep(c) \/ PeerDials(c) \/ PeerLeaves(c)
  PROVE  IInv'
<1>0. UNCHANGED <<held, last, allow, cancelled, at, stops, drained, loop, gen, closed,
                  stream, quack>>
  BY DEF ConnStep, Handshake, HandshakeFails, ConnEnds, PeerDials, PeerLeaves, stopVars, streamVars
<1>1. TypeOK'
  <2>1. listed' \in SUBSET Peers
    BY <1>0, PeerOfAssumption
       DEF IInv, TypeOK, ConnStep, Handshake, HandshakeFails, ConnEnds, PeerDials, PeerLeaves
  <2>2. gone' \in [Conns -> BOOLEAN]
    BY DEF IInv, TypeOK, ConnStep, Handshake, HandshakeFails, ConnEnds, PeerDials, PeerLeaves
  <2>3. conn' \in [Conns -> {"none", "incoming", "handshake", "serving", "over"}]
    BY DEF IInv, TypeOK, ConnStep, Handshake, HandshakeFails, ConnEnds, PeerDials, PeerLeaves
  <2> QED BY <1>0, <2>1, <2>2, <2>3 DEF IInv, TypeOK
<1>2. ConnInv'
  BY <1>0, ConnOfAssumption
     DEF IInv, TypeOK, ConnInv, ConnStep, Handshake, HandshakeFails, ConnEnds, PeerDials,
         PeerLeaves, Admits
<1>3. conn[c] = "handshake" => gen[c] \in 1 .. last
  BY MaxServesAssumption, SMTT(30) DEF IInv, TypeOK, ConnInv, Generations, NoGeneration
<1>4. OnlyAdmittedPeers'
  <2>1. \A s \in Streams : BridgeTask(s)' => Admits(gen[ConnOf[s]], PeerOf[ConnOf[s]])'
    BY <1>0 DEF IInv, OnlyAdmittedPeers, Admits, BridgeTask
  <2>2. listed' = listed \/ (listed' = listed \cup {PeerOf[c]} /\ Admits(gen[c], PeerOf[c])
                             /\ conn[c] = "handshake")
    BY DEF ConnStep, Handshake, HandshakeFails, ConnEnds, PeerDials, PeerLeaves
  <2>3. \A p \in listed' : \E g \in 1 .. last' : Admits(g, p)'
    BY <1>0, <1>3, <2>2 DEF IInv, OnlyAdmittedPeers, Admits
  <2> QED BY <2>1, <2>3 DEF OnlyAdmittedPeers
<1>5. \A d \in Conns : ConnTask(d)' => ConnTask(d)
  BY DEF IInv, TypeOK, ConnTask, ConnStep, Handshake, HandshakeFails, ConnEnds, PeerDials, PeerLeaves
<1>6. \A s \in Streams : BridgeTask(s)' => BridgeTask(s)
  BY <1>0 DEF BridgeTask
<1> QED BY <1>0, <1>1, <1>2, <1>4, <1>5, <1>6, TaskKeeps

\* The steps that change where one stream stands.
LEMMA StreamKeeps ==
  ASSUME IInv, NEW s \in Streams,
         \/ ConnAccepts(s) \/ BridgeStep(s) \/ PeerOpens(s) \/ QuackCloses(s)
  PROVE  IInv'
<1> USE DEF ConnAccepts, BridgeStep, BridgeSniffs, BridgeConnects, BridgeReturns, BridgeFails,
            BridgeCancelled, BridgeOver, PeerOpens, QuackCloses
<1>0. UNCHANGED <<held, last, allow, cancelled, at, stops, drained, loop, gen, conn, gone, listed, closed>>
  BY DEF stopVars, connVars
<1>1. TypeOK'
  BY <1>0, ZenonT(30) DEF IInv, TypeOK
<1>2. ConnInv'
  BY <1>0, ConnOfAssumption DEF IInv, TypeOK, ConnInv, Admits, BridgeTask
<1>3. \A x \in Streams : BridgeTask(x)' => BridgeTask(x) \/ conn[ConnOf[x]] = "serving"
  BY DEF IInv, TypeOK, BridgeTask
<1>4. OnlyAdmittedPeers'
  BY <1>0, <1>3, ConnOfAssumption DEF IInv, ConnInv, OnlyAdmittedPeers, Admits
<1>5. \A x \in Streams : BridgeTask(x)' => BridgeTask(x) \/ ConnTask(ConnOf[x])
  BY <1>3 DEF ConnTask
<1>6. \A c \in Conns : ConnTask(c)' => ConnTask(c)
  BY <1>0 DEF ConnTask
<1> QED BY <1>0, <1>1, <1>2, <1>4, <1>5, <1>6, TaskKeeps

\* The endpoint closes: it takes no task and no handle with it.
LEMMA EndpointKeeps == IInv /\ EndpointCloses => IInv'
<1> SUFFICES ASSUME IInv, EndpointCloses PROVE IInv'
  OBVIOUS
<1>0. /\ UNCHANGED <<held, last, allow, cancelled, at, stops, drained, loop, conn, gen, listed,
                     stream, quack>>
      /\ closed' = TRUE
      /\ gone' = [c \in Conns |-> TRUE]
  BY DEF EndpointCloses, stopVars, streamVars
<1>1. TypeOK'
  BY <1>0 DEF IInv, TypeOK
<1>2. StopInv' /\ LoopInv' /\ ConnInv' /\ OnlyAdmittedPeers'
  BY <1>0 DEF IInv, StopInv, LoopInv, ConnInv, OnlyAdmittedPeers, Admits, BridgeTask
<1>3. HeldInv'
  BY <1>0 DEF IInv, HeldInv
<1>4. DrainedIsQuiet'
  BY <1>0, TrackedUnchanged DEF IInv, DrainedIsQuiet, Alive, Tracked
<1> QED BY <1>1, <1>2, <1>3, <1>4 DEF IInv

-----------------------------------------------------------------------------
LEMMA StutterKeeps == IInv /\ UNCHANGED vars => IInv'
<1> SUFFICES ASSUME IInv, UNCHANGED vars PROVE IInv'
  OBVIOUS
<1>1. TypeOK' /\ ConnInv' /\ OnlyAdmittedPeers'
  BY DEF IInv, TypeOK, ConnInv, OnlyAdmittedPeers, Admits, BridgeTask,
         vars, stopVars, connVars, streamVars
<1>2. UNCHANGED <<held, last, allow, cancelled, at, stops, drained, loop, gen, conn, stream, closed>>
  BY DEF vars, stopVars, connVars, streamVars
<1>3. \A c \in Conns : ConnTask(c)' => ConnTask(c)
  BY <1>2 DEF ConnTask
<1>4. \A s \in Streams : BridgeTask(s)' => BridgeTask(s)
  BY <1>2 DEF BridgeTask
<1> QED BY <1>1, <1>2, <1>3, <1>4, TaskKeeps

LEMMA NextIInv == IInv /\ [Next]_vars => IInv'
<1> SUFFICES ASSUME IInv, [Next]_vars PROVE IInv'
  OBVIOUS
<1>1. ASSUME NEW t \in Threads, ServeStart(t) \/ StopStep(t) PROVE IInv'
  BY <1>1, ServeStartKeeps, StopKeeps
<1>2. ASSUME NEW g \in Generations, LoopEnds(g) \/ \E c \in Conns : LoopAccepts(g, c) PROVE IInv'
  BY <1>2, LoopEndsKeeps, LoopAcceptsKeeps
<1>3. ASSUME NEW c \in Conns, ConnStep(c) \/ PeerDials(c) \/ PeerLeaves(c) PROVE IInv'
  BY <1>3, ConnKeeps
<1>4. ASSUME NEW s \in Streams,
             \/ ConnAccepts(s) \/ BridgeStep(s) \/ PeerOpens(s)
             \/ QuackCloses(s)
      PROVE  IInv'
  BY <1>4, StreamKeeps
<1>5. CASE UNCHANGED vars
  BY <1>5, StutterKeeps
<1>6. CASE EndpointCloses
  BY <1>6, EndpointKeeps
<1> QED BY <1>1, <1>2, <1>3, <1>4, <1>5, <1>6 DEF Next

LEMMA IInvHolds == Spec => []IInv
BY InitIInv, NextIInv, PTL DEF Spec

(* Every variable of the inbound side keeps its type.                      *)
THEOREM TypeCorrect == Spec => []TypeOK
<1>1. IInv => TypeOK
  BY DEF IInv
<1> QED BY <1>1, IInvHolds, PTL

(* A serve_stop that returns in time has stopped everything it stopped:    *)
(* nothing of that generation is running, nor ever will be.                *)
THEOREM DrainedIsQuietHolds == Spec => []DrainedIsQuiet
<1>1. IInv => DrainedIsQuiet
  BY DEF IInv
<1> QED BY <1>1, IInvHolds, PTL

\* A handle held is of a generation that was started and is not cancelled.
LEMMA HeldServes == IInv => ServingIsTrue
<1> SUFFICES ASSUME IInv PROVE ServingIsTrue
  OBVIOUS
<1>1. held # NoGeneration => /\ held \in Generations
                             /\ loop[held] \in {"running", "ended"}
                             /\ ~cancelled[held]
  BY MaxServesAssumption
     DEF IInv, TypeOK, StopInv, LoopInv, HeldInv, Generations, NoGeneration
<1>2. IsServing => loop[held] = "running" /\ ~cancelled[held]
  BY <1>1 DEF IsServing
<1>3. \A g \in Generations : loop[g] = "running" /\ ~cancelled[g] =>
        \/ IsServing /\ held = g
        \/ \E t \in Threads : at[t] = "taken" /\ stops[t] = g
  BY MaxServesAssumption DEF IInv, HeldInv, IsServing, Generations, NoGeneration
<1>4. held # NoGeneration /\ ~closed => IsServing
  BY <1>1 DEF IInv, HeldInv, IsServing
<1> QED BY <1>2, <1>3, <1>4 DEF ServingIsTrue

(* quackhole_status() says `serving` of the loop that takes connections of *)
(* its own accord, and of no other, also after the endpoint has died.      *)
THEOREM ServingIsTrueHolds == Spec => []ServingIsTrue
<1>1. IInv => ServingIsTrue
  BY HeldServes
<1> QED BY <1>1, IInvHolds, PTL

(* Only admitted peers are bridged, and only admitted peers are listed.    *)
THEOREM OnlyAdmittedPeersHolds == Spec => []OnlyAdmittedPeers
<1>1. IInv => OnlyAdmittedPeers
  BY DEF IInv
<1> QED BY <1>1, IInvHolds, PTL
=============================================================================
